-------------------------- MODULE WorkerPoolProofs --------------------------
(***************************************************************************)
(* Theorems about WorkerPool, for any number of workers, any capacity of   *)
(* the pipes and any bounds.                                               *)
(***************************************************************************)
EXTENDS WorkerPool, Facts, TLAPS

USE NAssumption, CapAssumption, BoundAssumption, FatesAssumption

\* The workers are numbered from 0 to N - 1, and the cursor stays among them.
LEMMA TurnInWorker ==
    ASSUME TypeOK
    PROVE  Turn \in Worker /\ Advance \in Worker
  BY DEF TypeOK, Turn, Advance, Worker

LEMMA NumberedWorkers ==
    0 \in Worker /\ \A w \in Worker : w < N - 1 => w + 1 \in Worker
  BY DEF Worker

LEMMA WorkersFinite == IsFiniteSet(Worker) /\ Cardinality(Worker) = N
<1>1. IsFiniteSet(0 .. N - 1) /\ Cardinality(0 .. N - 1) = N
  BY FS_Interval
<1> QED BY <1>1 DEF Worker

LEMMA DroppedWorkers ==
    ASSUME TypeOK
    PROVE  Dropped \subseteq Worker
  BY DEF Dropped, TypeOK

LEMMA MessageTypes ==
    /\ \A b \in Nat, i \in Nat : Task(b, i) \in Message
    /\ \A k \in Kinds : Control(k) \in Message
    /\ \A m \in Message : Reply(m) \in Message
    /\ \A m \in Message, f \in Fates : Executed(m, f) \in Message
  BY DEF Executed, Task, Control, Reply, Message, Kinds

\* Every variable keeps its type.
THEOREM TypeCorrect == Spec => []TypeOK
<1>1. Init => TypeOK
  <2>1. Nothing \in Message
    BY MessageTypes DEF Nothing, Kinds
  <2>2. 0 \in Worker
    BY DEF Worker
  <2> QED BY <2>1, <2>2 DEF Init, TypeOK
<1>2. TypeOK /\ [Next]_vars => TypeOK'
  <2> SUFFICES ASSUME TypeOK, [Next]_vars
               PROVE  TypeOK'
    OBVIOUS
  <2> USE DEF TypeOK
  <2>1. ASSUME NEW n \in 0 .. MaxSeeds, Submit(n)
        PROVE  TypeOK'
    BY <2>1, NumberedWorkers DEF Submit, links
  <2>2. CASE SendTask
    <3>1. Turn \in Worker
      BY TurnInWorker
    <3>2. Task(batch, Len(assign) + 1) \in Message
      <4>1. batch \in Nat /\ Len(assign) + 1 \in Nat
        OBVIOUS
      <4> QED BY <4>1, MessageTypes
    <3>3. assign' \in Seq(Worker) /\ Len(assign') <= size
      BY <2>2, <3>1 DEF SendTask
    <3>4. inq' \in [Worker -> Seq(Message)]
      BY <2>2, <3>1, <3>2 DEF SendTask
    <3> QED BY <2>2, <3>3, <3>4 DEF SendTask
  <2>3. CASE SendFails
    BY <2>3, TurnInWorker DEF SendFails, links
  <2>4. CASE AllSent
    BY <2>4, TurnInWorker DEF AllSent, links
  <2>5. ASSUME NEW w \in Worker, RecvOk(w)
        PROVE  TypeOK'
    <3>1. Head(outq[w]) \in Message /\ Tail(outq[w]) \in Seq(Message)
      BY <2>5 DEF RecvOk
    <3>2. results' \in Seq(Nat \X Nat) /\ Len(results') <= size
      <4> DEFINE r == <<Head(outq[w]).batch, Head(outq[w]).idx>>
      <4>1. r \in Nat \X Nat
        BY <3>1 DEF Message
      <4>2. results' = Append(results, r) /\ Len(results) < size
        BY <2>5 DEF RecvOk, Waiting
      <4> HIDE DEF r
      <4> QED BY <4>1, <4>2
    <3>3. outq' \in [Worker -> Seq(Message)]
      BY <2>5, <3>1 DEF RecvOk
    <3> QED BY <2>5, <3>2, <3>3 DEF RecvOk
  <2>6. ASSUME NEW w \in Worker, RecvErr(w)
        PROVE  TypeOK'
    <3>1. outq' \in [Worker -> Seq(Message)]
      BY <2>6 DEF RecvErr
    <3> QED BY <2>6, <3>1 DEF RecvErr, GiveUp
  <2>7. ASSUME NEW w \in Worker, RecvFails(w)
        PROVE  TypeOK'
    BY <2>7 DEF RecvFails, links
  <2>8. CASE AllReceived
    BY <2>8 DEF AllReceived, links
  <2>20. CASE ThreadPath
    BY <2>20 DEF ThreadPath, links
  <2>9. CASE WriteShutdown
    <3>1. inq' \in [Worker -> Seq(Message)]
      <4>1. Control("shutdown") \in Message
        BY MessageTypes DEF Kinds
      <4>2. CASE UNCHANGED inq
        BY <4>2
      <4>3. CASE inq' = [inq EXCEPT ![at] = Append(@, Control("shutdown"))]
        BY <4>1, <4>3
      <4> QED BY <2>9, <4>2, <4>3 DEF WriteShutdown
    <3> QED BY <2>9, <3>1 DEF WriteShutdown
  <2>10. CASE Reap
    <3>1. /\ inq' \in [Worker -> Seq(Message)]
          /\ outq' \in [Worker -> Seq(Message)]
          /\ proc' \in [Worker -> Live \cup {"none", "dead"}]
      BY <2>10 DEF Reap
    <3>2. pc' \in {"spawn", "shutdown", "closed"} /\ at' \in Worker
      <4>1. at' = at \/ (at < N - 1 /\ at' = at + 1)
        BY <2>10 DEF Reap
      <4>2. at' \in Worker
        BY <4>1, NumberedWorkers
      <4> QED BY <2>10, <4>2 DEF Reap
    <3> QED BY <2>10, <3>1, <3>2 DEF Reap
  <2>11. CASE Spawn
    <3>1. Control("ping") \in Message /\ Nothing \in Message
      BY MessageTypes DEF Kinds, Nothing
    <3>2. /\ inq' \in [Worker -> Seq(Message)]
          /\ outq' \in [Worker -> Seq(Message)]
          /\ cur' \in [Worker -> Message]
          /\ proc' \in [Worker -> Live \cup {"none", "dead"}]
      BY <2>11, <3>1 DEF Spawn, Live
    <3> QED BY <2>11, <3>2 DEF Spawn
  <2>12. CASE Handshake
    <3>1. outq' \in [Worker -> Seq(Message)] /\ slot' \in [Worker -> BOOLEAN]
      BY <2>12 DEF Handshake
    <3>2. at' \in Worker /\ next' \in Worker
      <4>1. (at' = at + 1 /\ at < N - 1) \/ UNCHANGED at
        BY <2>12 DEF Handshake
      <4>2. at' \in Worker
        BY <4>1, NumberedWorkers
      <4>3. next' = 0 \/ UNCHANGED next
        BY <2>12 DEF Handshake
      <4>4. next' \in Worker
        BY <4>3 DEF Worker
      <4> QED BY <4>2, <4>4
    <3>3. exists' \in BOOLEAN
      BY <2>12 DEF Handshake
    <3>4. /\ pc' \in {"spawn", "send", "thread"} /\ goal' \in {"none", "new", "respawn"}
          /\ outcome' \in {"none", "native", "fallback", "failed"}
      BY <2>12 DEF Handshake, GiveUp
    <3> QED BY <2>12, <3>1, <3>2, <3>3, <3>4 DEF Handshake
  <2>13. CASE SpawnFails
    <3>1. /\ slot' \in [Worker -> BOOLEAN]
          /\ inq' \in [Worker -> Seq(Message)]
          /\ outq' \in [Worker -> Seq(Message)]
          /\ proc' \in [Worker -> Live \cup {"none", "dead"}]
      BY <2>13 DEF SpawnFails
    <3>2. faults' \in Nat
      BY <2>13 DEF SpawnFails
    <3>3. strays' \in Nat /\ zombies' \in Nat
      <4> DEFINE A == {w \in Dropped : Alive(w)}
                 D == {w \in Dropped : proc[w] = "dead"}
      <4>1. Cardinality(A) \in Nat /\ Cardinality(D) \in Nat
        BY WorkersFinite, DroppedWorkers, FS_Subset, FS_CardinalityType
      <4>2. strays' = strays + Cardinality(A) /\ zombies' = zombies + Cardinality(D)
        BY <2>13 DEF SpawnFails
      <4> QED BY <4>1, <4>2
    <3> QED BY <2>13, <3>1, <3>2, <3>3 DEF SpawnFails, GiveUp
  <2>14. CASE DropPool
    BY <2>14 DEF DropPool, links, Worker
  <2>15. ASSUME NEW w \in Worker, WorkerRead(w)
         PROVE  TypeOK'
    <3>1. Head(inq[w]) \in Message /\ Tail(inq[w]) \in Seq(Message)
      BY <2>15 DEF WorkerRead
    <3>2. AfterRead(Head(inq[w])) \in Live \cup {"none", "dead"}
      BY DEF AfterRead, Live
    <3> QED BY <2>15, <3>1, <3>2 DEF WorkerRead, parent
  <2>16. ASSUME NEW w \in Worker, WorkerExec(w)
         PROVE  TypeOK'
    <3>1. cur' \in [Worker -> Message]
      <4>1. PICK f \in Fates : cur' = [cur EXCEPT ![w] = Executed(cur[w], f)]
        BY <2>16 DEF WorkerExec
      <4>2. Executed(cur[w], f) \in Message
        BY MessageTypes
      <4> QED BY <4>1, <4>2
    <3> QED BY <2>16, <3>1 DEF WorkerExec, parent, Live
  <2>17. ASSUME NEW w \in Worker, WorkerWrite(w)
         PROVE  TypeOK'
    <3>1. outq' \in [Worker -> Seq(Message)]
      <4>1. Reply(cur[w]) \in Message
        BY MessageTypes
      <4> QED BY <2>17, <4>1 DEF WorkerWrite
    <3> QED BY <2>17, <3>1 DEF WorkerWrite, parent, Live
  <2>18. ASSUME NEW w \in Worker, WorkerDies(w)
         PROVE  TypeOK'
    BY <2>18 DEF WorkerDies, parent
  <2>19. CASE UNCHANGED vars
    BY <2>19 DEF vars, parent, links
  <2>21. CASE StrayEnds
    BY <2>21 DEF StrayEnds, parent, links
  <2> QED
    BY <2>1, <2>2, <2>3, <2>4, <2>5, <2>6, <2>7, <2>8, <2>9, <2>10, <2>11, <2>12, <2>13,
       <2>14, <2>15, <2>16, <2>17, <2>18, <2>19, <2>20, <2>21
    DEF Next, ParentStep, WorkerStep, Ended
<1> QED BY <1>1, <1>2, PTL DEF Spec

-----------------------------------------------------------------------------
(* Why a clean batch is collected in order: OrderInv is inductive.         *)

\* The steps of the parent, as one disjunction: every step of Next is one of
\* them or a step of one worker.
ParentMoves ==
    \/ \E n \in 0 .. MaxSeeds : Submit(n)
    \/ ParentStep \/ SpawnFails \/ DropPool

WorkerMoves(w) == WorkerRead(w) \/ WorkerExec(w) \/ WorkerWrite(w) \/ WorkerDies(w)

LEMMA NextSplit ==
    ASSUME [Next]_vars
    PROVE  ParentMoves \/ (\E w \in Worker : WorkerMoves(w)) \/ UNCHANGED <<parent, links>>
  BY DEF Next, ParentMoves, WorkerMoves, WorkerStep, StrayEnds, Ended, vars

\* What is in transit during the handshake is one message.
LEMMA HandshakingStep ==
    ASSUME TypeOK, Handshaking, [Next]_vars
    PROVE  Handshaking'
<1> USE DEF TypeOK, Handshaking
<1>1. CASE ParentMoves
  <2>1. CASE Spawn
    <3>1. /\ proc'[at'] = "read" /\ inq'[at'] = <<Control("ping")>> /\ outq'[at'] = <<>>
      BY <2>1 DEF Spawn
    <3> QED BY <3>1
  <2>2. CASE ~Spawn
    <3>1. pc' # "handshake"
      BY <1>1, <2>2 DEF ParentMoves, ParentStep, Submit, SendTask, SendFails, AllSent, RecvOk,
         RecvErr, RecvFails, Waiting, AllReceived, ThreadPath, WriteShutdown, Reap, Handshake, SpawnFails,
         DropPool, GiveUp
    <3> QED BY <3>1
  <2> QED BY <2>1, <2>2
<1>2. ASSUME NEW w \in Worker, WorkerMoves(w)
      PROVE  Handshaking'
  <2> SUFFICES ASSUME pc = "handshake", w = at
               PROVE  Handshaking'
    <3>1. UNCHANGED <<pc, at>>
      BY <1>2 DEF WorkerMoves, WorkerRead, WorkerExec, WorkerWrite, WorkerDies, parent
    <3>2. \A v \in Worker \ {w} : /\ proc'[v] = proc[v] /\ inq'[v] = inq[v]
                                 /\ outq'[v] = outq[v] /\ cur'[v] = cur[v]
      BY <1>2 DEF WorkerMoves, WorkerRead, WorkerExec, WorkerWrite, WorkerDies
    <3> QED BY <3>1, <3>2
  <2>0. UNCHANGED <<pc, at>>
    BY <1>2 DEF WorkerMoves, WorkerRead, WorkerExec, WorkerWrite, WorkerDies, parent
  <2>1. CASE WorkerRead(w)
    <3>1. Len(inq[w]) = 1 /\ Len(outq[w]) = 0
      <4>1. inq[w] \in Seq(Message) /\ outq[w] \in Seq(Message)
        OBVIOUS
      <4>2. Len(inq[w]) >= 1
        BY <2>1, <4>1, LengthZero DEF WorkerRead
      <4>3. Len(inq[w]) + Len(outq[w]) <= 1
        BY <2>1, <4>1 DEF WorkerRead
      <4>4. Len(inq[w]) \in Nat /\ Len(outq[w]) \in Nat
        BY <4>1
      <4> QED BY <4>2, <4>3, <4>4, SumAtMostOne
    <3>2. Head(inq[w]) = Control("ping")
      BY <2>1 DEF WorkerRead
    <3>3. cur'[w] = Control("ping") /\ proc'[w] = "write"
      BY <2>1, <3>2 DEF WorkerRead, AfterRead, Control
    <3>4. Len(inq'[w]) = 0 /\ Len(outq'[w]) = 0 /\ inq'[w] = <<>>
      <4>1. inq'[w] = Tail(inq[w]) /\ outq'[w] = outq[w]
        BY <2>1 DEF WorkerRead
      <4>2. Len(Tail(inq[w])) = 0 /\ Tail(inq[w]) \in Seq(Message)
        BY <2>1, <3>1 DEF WorkerRead
      <4> QED BY <4>1, <4>2, <3>1, LengthZero
    <3> QED BY <2>0, <3>3, <3>4
  <2>2. CASE WorkerExec(w)
    BY <2>2 DEF WorkerExec
  <2>3. CASE WorkerWrite(w)
    <3>1. inq[w] = <<>> /\ outq[w] = <<>> /\ cur[w].kind # "big"
      BY <2>3 DEF WorkerWrite, Control
    <3>2. inq'[w] = <<>> /\ Len(outq'[w]) = 1 /\ proc'[w] = "read"
      BY <2>3, <3>1 DEF WorkerWrite
    <3> QED BY <2>0, <3>2
  <2>4. CASE WorkerDies(w)
    BY <2>0, <2>4 DEF WorkerDies
  <2> QED BY <1>2, <2>1, <2>2, <2>3, <2>4 DEF WorkerMoves
<1>3. CASE UNCHANGED <<parent, links>>
  BY <1>3 DEF vars, parent, links
<1> QED BY <1>1, <1>2, <1>3, NextSplit

\* A step of a worker leaves the parent and the other workers alone.
LEMMA WorkerStepLocal ==
    ASSUME TypeOK, NEW w \in Worker, WorkerMoves(w)
    PROVE  /\ UNCHANGED parent
           /\ \A v \in Worker \ {w} :
                /\ proc'[v] = proc[v] /\ cur'[v] = cur[v]
                /\ inq'[v] = inq[v] /\ outq'[v] = outq[v]
  BY DEF TypeOK, WorkerMoves, WorkerRead, WorkerExec, WorkerWrite, WorkerDies

\* An idle worker can only die.
LEMMA IdleStaysIdle ==
    ASSUME TypeOK, NEW w \in Worker, WorkerMoves(w), NEW v \in Worker, Idle(v)
    PROVE  Idle(v)'
<1>1. CASE v # w
  BY <1>1, WorkerStepLocal DEF Idle
<1>2. CASE v = w
  <2>1. ~WorkerRead(w) /\ ~WorkerExec(w) /\ ~WorkerWrite(w)
    BY <1>2 DEF Idle, WorkerRead, WorkerExec, WorkerWrite
  <2>2. WorkerDies(w)
    BY <2>1 DEF WorkerMoves
  <2> QED BY <1>2, <2>2 DEF Idle, WorkerDies, TypeOK
<1> QED BY <1>1, <1>2

\* Until the pool exists its workers are idle, but for the handshake.
LEMMA NewPoolStep ==
    ASSUME TypeOK, Handshaking, NewPool, [Next]_vars
    PROVE  NewPool'
<1>1. CASE ParentMoves
  <2>1. ASSUME NEW n \in 0 .. MaxSeeds, Submit(n)
        PROVE  NewPool'
    BY <2>1 DEF Submit, NewPool, links, Idle
  <2>2. CASE Spawn
    BY <2>2 DEF Spawn, NewPool, Idle, TypeOK
  <2>3. CASE Handshake
    <3>1. CASE goal = "respawn"
      BY <2>3, <3>1 DEF Handshake, NewPool, GiveUp
    <3>2. CASE goal = "new"
      <4>1. ~exists /\ pc = "handshake" /\ assign = <<>> /\ results = <<>>
        BY <2>3, <3>2 DEF Handshake, NewPool
      <4>2. Len(outq[at]) >= 1 /\ Len(inq[at]) \in Nat /\ Len(outq[at]) \in Nat
        BY <2>3, LengthZero DEF Handshake, TypeOK
      <4>3. proc[at] # "write" /\ Len(inq[at]) + Len(outq[at]) <= 1
        <5>1. proc[at] # "write"
          BY <2>3, <4>1 DEF Handshaking, Handshake
        <5>2. Len(inq[at]) + Len(outq[at]) <= 1
          BY <4>1 DEF Handshaking
        <5> QED BY <5>1, <5>2
      <4>4. Len(outq[at]) = 1 /\ Len(inq[at]) = 0
        BY <4>2, <4>3, SumAtMostOneSecond
      <4>5. inq[at] = <<>> /\ Tail(outq[at]) = <<>>
        <5>1. inq[at] \in Seq(Message) /\ outq[at] \in Seq(Message)
          BY DEF TypeOK
        <5>2. Tail(outq[at]) \in Seq(Message) /\ Len(Tail(outq[at])) = 0
          BY <4>4, <5>1, TailOfOne
        <5> QED BY <4>4, <5>1, <5>2, LengthZero
      <4>6. proc[at] \in {"read", "dead"}
        BY <4>1, <4>3 DEF Handshaking
      <4>7. \A v \in {at} : Idle(v)'
        <5>1. at \in Worker /\ outq \in [Worker -> Seq(Message)]
          BY DEF TypeOK
        <5>2. /\ outq'[at] = Tail(outq[at]) /\ inq'[at] = inq[at] /\ proc'[at] = proc[at]
          BY <2>3, <5>1 DEF Handshake
        <5>3. \A v \in {at} : inq'[v] = <<>> /\ outq'[v] = <<>> /\ proc'[v] \in {"read", "dead"}
          BY <4>5, <4>6, <5>2
        <5> QED BY <5>3 DEF Idle
      <4>8. \A w \in Worker \ {at} : Idle(w)'
        BY <2>3, <4>1 DEF Handshake, NewPool, Idle, TypeOK
      <4>9. pc' = "spawn" \/ exists'
        BY <2>3, <3>2 DEF Handshake
      <4>10. /\ outcome' = outcome /\ assign' = assign /\ results' = results
             /\ pc' = "send" \/ (pc' = "spawn" /\ goal' = goal /\ exists' = exists)
        BY <2>3, <3>2 DEF Handshake
      <4>11. \A w \in Worker : Idle(w)'
        BY <4>7, <4>8
      <4> QED BY <4>1, <4>9, <4>10, <4>11, <3>2 DEF NewPool
    <3> QED BY <2>3, <3>1, <3>2 DEF Handshake
  <2>4. CASE SpawnFails
    <3>1. pc' = "thread" /\ outcome' = outcome /\ exists' = exists
      BY <2>4 DEF SpawnFails, GiveUp
    <3>2. ~exists => Dropped = Worker
      BY <2>4 DEF SpawnFails, NewPool, Dropped
    <3>3. ~exists => \A w \in Worker : Idle(w)'
      BY <2>4, <3>2 DEF SpawnFails, Idle
    <3> QED BY <3>1, <3>3 DEF NewPool
  <2>6. CASE ThreadPath
    <3>1. /\ pc = "thread" /\ pc' = "idle" /\ outcome' \in {"fallback", "failed"}
          /\ UNCHANGED <<exists, links>>
      BY <2>6 DEF ThreadPath
    <3> QED BY <3>1 DEF NewPool, links, Idle
  <2>5. CASE SendTask \/ SendFails \/ AllSent \/ (\E w \in Worker : RecvOk(w) \/ RecvErr(w) \/ RecvFails(w))
             \/ AllReceived \/ WriteShutdown \/ Reap \/ DropPool
    <3>1. exists /\ exists' = exists
      BY <2>5 DEF NewPool, SendTask, SendFails, AllSent, RecvOk, RecvErr, RecvFails, Waiting,
         AllReceived, ThreadPath, WriteShutdown, Reap, DropPool, TypeOK
    <3>2. pc' \in {"spawn", "handshake"} => goal' # "new"
      BY <2>5 DEF SendTask, SendFails, AllSent, RecvOk, RecvErr, RecvFails, Waiting,
         AllReceived, ThreadPath, WriteShutdown, Reap, DropPool, GiveUp
    <3> QED BY <3>1, <3>2 DEF NewPool
  <2> QED BY <1>1, <2>1, <2>2, <2>3, <2>4, <2>5, <2>6 DEF ParentMoves, ParentStep
<1>2. ASSUME NEW w \in Worker, WorkerMoves(w)
      PROVE  NewPool'
  <2>1. UNCHANGED <<pc, goal, at, exists, outcome, assign, results>>
    BY <1>2, WorkerStepLocal DEF parent
  <2>2. \A v \in Worker : Idle(v) => Idle(v)'
    BY <1>2, IdleStaysIdle
  <2> QED BY <2>1, <2>2 DEF NewPool
<1>3. CASE UNCHANGED <<parent, links>>
  BY <1>3 DEF vars, parent, links, NewPool, Idle
<1> QED BY <1>1, <1>2, <1>3, NextSplit

\* A worker stuck in its write has put the head of a reply that is too large
\* last in its pipe, and nothing but a respawn removes that.
LEMMA StuckOnBigStep ==
    ASSUME TypeOK, Handshaking, StuckOnBig, [Next]_vars
    PROVE  StuckOnBig'
<1>1. ASSUME NEW w \in Worker, outq[w] # <<>>, outq' = [outq EXCEPT ![w] = Tail(@)],
             UNCHANGED proc, proc[w] = "stuck" => Head(outq[w]).kind # "big"
      PROVE  StuckOnBig'
  <2> SUFFICES ASSUME NEW v \in Worker, proc[v] = "stuck"
               PROVE  outq'[v] # <<>> /\ outq'[v][Len(outq'[v])].kind = "big"
    BY <1>1 DEF StuckOnBig
  <2>1. CASE v # w
    BY <1>1, <2>1 DEF StuckOnBig, TypeOK
  <2>2. CASE v = w
    <3> DEFINE q == outq[w]
    <3>1. q \in Seq(Message) /\ q # <<>> /\ q[Len(q)].kind = "big" /\ q[1].kind # "big"
      BY <1>1, <2>2 DEF StuckOnBig, TypeOK
    <3>2. outq'[v] = Tail(q)
      BY <1>1, <2>2 DEF TypeOK
    <3> HIDE DEF q
    <3>3. Len(q) > 1
      BY <3>1, LengthZero
    <3>4. Len(Tail(q)) = Len(q) - 1 /\ Tail(q)[Len(q) - 1] = q[Len(q)]
      BY <3>1, <3>3
    <3> QED BY <3>1, <3>2, <3>3, <3>4
  <2> QED BY <2>1, <2>2
<1>2. CASE ParentMoves
  <2>1. ASSUME NEW w \in Worker, RecvOk(w) \/ RecvErr(w)
        PROVE  StuckOnBig'
    BY <1>1, <2>1 DEF RecvOk, RecvErr
  <2>2. CASE Handshake
    <3>1. outq[at] # <<>> /\ outq' = [outq EXCEPT ![at] = Tail(@)] /\ UNCHANGED proc
      BY <2>2 DEF Handshake
    <3>2. at \in Worker /\ proc[at] # "stuck"
      BY <2>2 DEF Handshake, Handshaking, TypeOK
    <3> QED BY <1>1, <3>1, <3>2
  <2>3. CASE Reap
    BY <2>3 DEF Reap, StuckOnBig, TypeOK
  <2>4. CASE Spawn
    BY <2>4 DEF Spawn, StuckOnBig, TypeOK
  <2>5. CASE SpawnFails
    BY <2>5 DEF SpawnFails, StuckOnBig, TypeOK
  <2>6. CASE \/ \E n \in 0 .. MaxSeeds : Submit(n)
             \/ SendTask \/ SendFails \/ AllSent \/ (\E w \in Worker : RecvFails(w))
             \/ AllReceived \/ ThreadPath \/ WriteShutdown \/ DropPool
    <3>1. UNCHANGED <<proc, outq>>
      BY <2>6 DEF Submit, SendTask, SendFails, AllSent, RecvFails, AllReceived, ThreadPath, WriteShutdown,
         DropPool, links
    <3> QED BY <3>1 DEF StuckOnBig
  <2> QED BY <1>2, <2>1, <2>2, <2>3, <2>4, <2>5, <2>6 DEF ParentMoves, ParentStep
<1>3. ASSUME NEW w \in Worker, WorkerMoves(w)
      PROVE  StuckOnBig'
  <2>1. CASE WorkerRead(w)
    <3>1. outq' = outq /\ \A v \in Worker : proc'[v] = "stuck" => proc[v] = "stuck"
      BY <2>1 DEF WorkerRead, AfterRead, TypeOK
    <3> QED BY <3>1 DEF StuckOnBig
  <2>2. CASE WorkerExec(w) \/ WorkerDies(w)
    <3>1. outq' = outq /\ \A v \in Worker : proc'[v] = "stuck" => proc[v] = "stuck"
      BY <2>2 DEF WorkerExec, WorkerDies, TypeOK
    <3> QED BY <3>1 DEF StuckOnBig
  <2>3. CASE WorkerWrite(w)
    <3>1. \A v \in Worker \ {w} : proc'[v] = proc[v] /\ outq'[v] = outq[v]
      BY <1>3, WorkerStepLocal
    <3>2. outq'[w] = Append(outq[w], Reply(cur[w])) /\ outq[w] \in Seq(Message)
      BY <2>3 DEF WorkerWrite, TypeOK
    <3>3. proc'[w] = "stuck" => Reply(cur[w]).kind = "big"
      BY <2>3 DEF WorkerWrite, TypeOK, Reply
    <3>4. outq'[w] # <<>> /\ outq'[w][Len(outq'[w])] = Reply(cur[w])
      <4>1. Reply(cur[w]) \in Message
        BY MessageTypes DEF TypeOK
      <4>2. \A q \in Seq(Message), m \in Message :
              Append(q, m) # <<>> /\ Append(q, m)[Len(Append(q, m))] = m
        OBVIOUS
      <4> QED BY <3>2, <4>1, <4>2
    <3> QED BY <3>1, <3>3, <3>4 DEF StuckOnBig
  <2> QED BY <1>3, <2>1, <2>2, <2>3 DEF WorkerMoves
<1>4. CASE UNCHANGED <<parent, links>>
  BY <1>4 DEF vars, links, StuckOnBig
<1> QED BY <1>2, <1>3, <1>4, NextSplit

\* The parent collects only after it has sent everything.
LEMMA PhasesStep ==
    ASSUME TypeOK, NewPool, Phases, [Next]_vars
    PROVE  Phases'
<1>1. CASE ParentMoves
  <2>1. CASE Handshake
    BY <2>1 DEF Handshake, NewPool, Phases, GiveUp
  <2>2. ASSUME NEW w \in Worker, RecvOk(w)
        PROVE  Phases'
    BY <2>2 DEF RecvOk, Waiting, Phases
  <2>3. CASE ParentMoves /\ ~Handshake /\ ~(\E w \in Worker : RecvOk(w))
    BY <2>3 DEF ParentMoves, ParentStep, Phases, Submit, SendTask, SendFails, AllSent, RecvErr,
       RecvFails, Waiting, AllReceived, ThreadPath, WriteShutdown, Reap, Spawn, SpawnFails, DropPool, GiveUp
  <2> QED BY <1>1, <2>1, <2>2, <2>3
<1>2. ASSUME NEW w \in Worker, WorkerMoves(w)
      PROVE  Phases'
  BY <1>2, WorkerStepLocal DEF Phases, parent
<1>3. CASE UNCHANGED <<parent, links>>
  BY <1>3 DEF vars, parent, Phases
<1> QED BY <1>1, <1>2, <1>3, NextSplit

\* What a step of worker w does to its own queues keeps them in order and
\* loses nothing but what a dead worker takes with it.
LEMMA WorkerInOrder ==
    ASSUME TypeOK, NEW w \in Worker, WorkerMoves(w), QueuesInOrder(w), NoneMissing(w)
    PROVE  QueuesInOrder(w)' /\ NoneMissing(w)'
<1> DEFINE q == inq[w]
           r == outq[w]
           c == cur[w]
<1>0. /\ q \in Seq(Message) /\ r \in Seq(Message) /\ c \in Message
      /\ Len(q) \in Nat /\ Len(r) \in Nat
  BY DEF TypeOK
<1>1. UNCHANGED <<batch, assign, results>>
  BY WorkerStepLocal DEF parent
<1>2. CASE WorkerRead(w)
  <2>1. /\ q # <<>> /\ inq'[w] = Tail(q) /\ outq'[w] = r /\ cur'[w] = Head(q)
        /\ proc[w] = "read" /\ proc'[w] = AfterRead(Head(q))
    BY <1>2 DEF WorkerRead, TypeOK
  <2>2. /\ Tail(q) \in Seq(Message) /\ Len(Tail(q)) = Len(q) - 1 /\ Head(q) = q[1]
        /\ 1 \in 1 .. Len(q)
        /\ \A i \in 1 .. Len(Tail(q)) : i + 1 \in 1 .. Len(q) /\ Tail(q)[i] = q[i + 1]
    BY <1>0, <2>1, TailFacts
  <2>3. proc'[w] = "exec"
    BY <2>1, <2>2 DEF QueuesInOrder, AfterRead
  <2>4. QueuesInOrder(w)'
    <3>1. Increasing(Tail(q))
      BY <1>0, <2>2 DEF QueuesInOrder, Increasing
    <3>2. Pending(w, Head(q)) /\ Head(q).kind # "ping"
      BY <2>2 DEF QueuesInOrder
    <3>3. \A i \in 1 .. Len(Tail(q)) :
            /\ Pending(w, Tail(q)[i]) /\ Tail(q)[i].kind = "exec"
            /\ Head(q).idx < Tail(q)[i].idx
      BY <1>0, <2>2 DEF QueuesInOrder, Increasing
    <3>4. /\ \A i \in 1 .. Len(r) : Pending(w, r[i]) /\ r[i].idx < Head(q).idx
          /\ \A i \in 1 .. Len(r), j \in 1 .. Len(Tail(q)) : r[i].idx < Tail(q)[j].idx
          /\ Increasing(r)
      BY <1>0, <2>2 DEF QueuesInOrder
    <3> HIDE DEF q, r
    <3> QED BY <1>1, <2>1, <2>3, <3>1, <3>2, <3>3, <3>4 DEF QueuesInOrder, Increasing, Pending, Working
  <2>5. NoneMissing(w)'
    <3> SUFFICES ASSUME NEW j \in Len(results) + 1 .. Len(assign), assign[j] = w
                 PROVE  Accounted(w, j)'
      BY <1>1 DEF NoneMissing
    <3>1. Alive(w) /\ ~Working(w) /\ Working(w)'
      BY <2>1, <2>3 DEF Alive, Live, Working
    <3>2. CASE \E i \in 1 .. Len(q) : q[i].idx = j
      <4>1. PICK i \in 1 .. Len(q) : q[i].idx = j
        BY <3>2
      <4>2. CASE i = 1
        BY <2>1, <2>2, <3>1, <4>1, <4>2 DEF Accounted
      <4>3. CASE i # 1
        <5>1. i - 1 \in 1 .. Len(Tail(q)) /\ Tail(q)[i - 1].idx = j
          BY <1>0, <2>2, <4>1, <4>3
        <5> QED BY <2>1, <5>1 DEF Accounted
      <4> QED BY <4>2, <4>3
    <3>3. CASE \E i \in 1 .. Len(r) : r[i].idx = j
      BY <2>1, <3>3 DEF Accounted
    <3> QED BY <3>1, <3>2, <3>3 DEF Accounted, NoneMissing
  <2> QED BY <2>4, <2>5
<1>3. CASE WorkerExec(w)
  <2>1. PICK f \in Fates : cur'[w] = Executed(c, f)
    BY <1>3 DEF WorkerExec, TypeOK
  <2>2. /\ inq'[w] = q /\ outq'[w] = r /\ proc[w] = "exec" /\ proc'[w] = "write"
        /\ cur'[w].batch = c.batch /\ cur'[w].idx = c.idx /\ cur'[w].kind # "ping"
    <3>1. inq'[w] = q /\ outq'[w] = r /\ proc[w] = "exec" /\ proc'[w] = "write"
      BY <1>3 DEF WorkerExec, TypeOK
    <3>2. f # "ping"
      BY FatesAssumption
    <3>3. cur'[w].batch = c.batch /\ cur'[w].idx = c.idx /\ cur'[w].kind = f
      <4> HIDE DEF c
      <4> QED BY <2>1 DEF Executed
    <3> QED BY <3>1, <3>2, <3>3
  <2>3. Working(w) /\ Working(w)' /\ Alive(w) /\ Alive(w)'
    BY <2>2 DEF Working, Alive, Live
  <2>4. QueuesInOrder(w)'
    BY <1>1, <2>2, <2>3 DEF QueuesInOrder, Increasing, Pending
  <2>5. NoneMissing(w)'
    BY <1>1, <2>2, <2>3 DEF NoneMissing, Accounted
  <2> QED BY <2>4, <2>5
<1>4. CASE WorkerWrite(w)
  <2>1. /\ inq'[w] = q /\ cur'[w] = c /\ outq'[w] = Append(r, Reply(c))
        /\ proc[w] = "write" /\ proc'[w] \in {"read", "stuck"}
    BY <1>4 DEF WorkerWrite, TypeOK
  <2>2. Working(w) /\ ~Working(w)' /\ Alive(w) /\ Alive(w)'
    BY <2>1 DEF Working, Alive, Live
  <2>3. Reply(c) = c /\ Pending(w, c)
    BY <2>2 DEF QueuesInOrder, Reply
  <2>4. /\ outq'[w] = Append(r, c) /\ Len(outq'[w]) = Len(r) + 1
        /\ \A i \in 1 .. Len(r) : outq'[w][i] = r[i]
        /\ outq'[w][Len(r) + 1] = c
    BY <1>0, <2>1, <2>3, AppendFacts
  <2>5. QueuesInOrder(w)'
    <3>1. Increasing(outq'[w])
      <4> SUFFICES ASSUME NEW i \in 1 .. Len(r) + 1, NEW j \in 1 .. Len(r) + 1, i < j
                   PROVE  outq'[w][i].idx < outq'[w][j].idx
        BY <2>4 DEF Increasing
      <4>1. i \in 1 .. Len(r) /\ outq'[w][i] = r[i]
        BY <1>0, <2>4
      <4>2. CASE j = Len(r) + 1
        BY <2>2, <2>4, <4>1, <4>2 DEF QueuesInOrder
      <4>3. CASE j \in 1 .. Len(r)
        BY <2>4, <4>1, <4>3 DEF QueuesInOrder, Increasing
      <4> QED BY <1>0, <4>2, <4>3
    <3>2. \A i \in 1 .. Len(outq'[w]) :
            /\ Pending(w, outq'[w][i])
            /\ \A j \in 1 .. Len(q) : outq'[w][i].idx < q[j].idx
      <4> SUFFICES ASSUME NEW i \in 1 .. Len(outq'[w])
                   PROVE  /\ Pending(w, outq'[w][i])
                          /\ \A j \in 1 .. Len(q) : outq'[w][i].idx < q[j].idx
        OBVIOUS
      <4>1. i \in 1 .. Len(r) \/ i = Len(r) + 1
        BY <1>0, <2>4
      <4> QED BY <2>2, <2>3, <2>4, <4>1 DEF QueuesInOrder
    <3> QED BY <1>1, <2>1, <2>2, <3>1, <3>2 DEF QueuesInOrder, Increasing, Pending
  <2>6. NoneMissing(w)'
    <3> SUFFICES ASSUME NEW j \in Len(results) + 1 .. Len(assign), assign[j] = w
                 PROVE  Accounted(w, j)'
      BY <1>1 DEF NoneMissing
    <3>1. CASE \E i \in 1 .. Len(q) : q[i].idx = j
      BY <2>1, <3>1 DEF Accounted
    <3>2. CASE c.idx = j
      <4>1. Len(r) + 1 \in 1 .. Len(outq'[w]) /\ outq'[w][Len(r) + 1].idx = j
        BY <1>0, <2>4, <3>2
      <4> QED BY <4>1 DEF Accounted
    <3>3. CASE \E i \in 1 .. Len(r) : r[i].idx = j
      <4>1. \E i \in 1 .. Len(outq'[w]) : outq'[w][i].idx = j
        BY <1>0, <2>4, <3>3
      <4> QED BY <4>1 DEF Accounted
    <3> QED BY <2>2, <3>1, <3>2, <3>3 DEF Accounted, NoneMissing
  <2> QED BY <2>5, <2>6
<1>5. CASE WorkerDies(w)
  <2>1. /\ inq'[w] = <<>> /\ outq'[w] = r /\ proc'[w] = "dead" /\ Alive(w)
    BY <1>5 DEF WorkerDies, TypeOK
  <2>2. ~Working(w)' /\ ~Alive(w)'
    BY <2>1 DEF Working, Alive, Live
  <2>3. QueuesInOrder(w)'
    BY <1>1, <2>1, <2>2 DEF QueuesInOrder, Increasing, Pending
  <2>4. NoneMissing(w)'
    <3> SUFFICES ASSUME NEW j \in Len(results) + 1 .. Len(assign), assign[j] = w
                 PROVE  Accounted(w, j)'
      BY <1>1 DEF NoneMissing
    <3>1. CASE \E i \in 1 .. Len(r) : r[i].idx = j
      BY <2>1, <3>1 DEF Accounted
    <3>2. CASE \A i \in 1 .. Len(r) : r[i].idx < j
      BY <2>1, <2>2, <3>2 DEF Accounted
    <3>3. CASE Working(w) /\ c.idx = j
      BY <3>2, <3>3 DEF QueuesInOrder
    <3>4. CASE \E i \in 1 .. Len(q) : q[i].idx = j
      BY <3>2, <3>4 DEF QueuesInOrder
    <3> QED BY <2>1, <3>1, <3>3, <3>4 DEF Accounted, NoneMissing
  <2> QED BY <2>3, <2>4
<1> QED BY <1>2, <1>3, <1>4, <1>5 DEF WorkerMoves

\* The oldest reply of the worker the parent waits for is that of the next
\* seed of the batch.
LEMMA NextReply ==
    ASSUME TypeOK, Phases, AllInOrder, clean, NEW w \in Worker, Waiting(w), outq[w] # <<>>
    PROVE  /\ QueuesInOrder(w) /\ NoneMissing(w)
           /\ Len(results) + 1 \in 1 .. Len(assign)
           /\ outq[w][1].idx = Len(results) + 1
           /\ outq[w][1].batch = batch
<1> DEFINE k == Len(results) + 1
           r == outq[w]
<1>1. QueuesInOrder(w) /\ NoneMissing(w)
  BY DEF AllInOrder, Waiting
<1>2. /\ Len(results) \in Nat /\ Len(assign) = size /\ size \in Nat
      /\ k \in Len(results) + 1 .. Len(assign) /\ assign[k] = w
  BY DEF Waiting, Phases, TypeOK
<1>3. r \in Seq(Message) /\ 1 \in 1 .. Len(r)
  BY LengthZero DEF TypeOK
<1>4. Pending(w, r[1])
  BY <1>1, <1>3 DEF QueuesInOrder
<1>5. r[1].idx \in Nat /\ r[1].idx >= k
  BY <1>2, <1>4 DEF Pending
<1>6. Accounted(w, k)
  BY <1>1, <1>2 DEF NoneMissing
<1>7. r[1].idx = k
  <2>1. CASE \E i \in 1 .. Len(inq[w]) : inq[w][i].idx = k
    BY <1>1, <1>2, <1>3, <1>5, <2>1 DEF QueuesInOrder
  <2>2. CASE Working(w) /\ cur[w].idx = k
    BY <1>1, <1>2, <1>3, <1>5, <2>2 DEF QueuesInOrder
  <2>3. CASE \E i \in 1 .. Len(r) : r[i].idx = k
    <3>1. PICK i \in 1 .. Len(r) : r[i].idx = k
      BY <2>3
    <3>2. i > 1 => r[1].idx < r[i].idx
      BY <1>1, <1>3 DEF QueuesInOrder, Increasing
    <3> QED BY <1>2, <1>3, <1>5, <3>1, <3>2
  <2>4. CASE \A i \in 1 .. Len(r) : r[i].idx < k
    BY <1>2, <1>3, <1>5, <2>4
  <2> QED BY <1>6, <2>1, <2>2, <2>3, <2>4 DEF Accounted
<1> QED BY <1>1, <1>2, <1>4, <1>7 DEF Pending

\* Collecting a reply keeps every worker's queues in order.
LEMMA RecvInOrder ==
    ASSUME TypeOK, Phases, AllInOrder, clean, NEW w \in Worker, RecvOk(w), NEW v \in Worker
    PROVE  QueuesInOrder(v)' /\ NoneMissing(v)'
<1> DEFINE k == Len(results) + 1
           r == outq[w]
           After(m) == /\ m.batch = batch' /\ m.idx \in Len(results') + 1 .. Len(assign')
                       /\ assign'[m.idx] = v
<1>0. /\ UNCHANGED <<batch, assign, proc, cur, inq>>
      /\ results' = Append(results, <<Head(r).batch, Head(r).idx>>)
      /\ outq' = [outq EXCEPT ![w] = Tail(r)] /\ r # <<>> /\ Waiting(w)
  BY DEF RecvOk
<1>1. Len(results') = k /\ k \in Nat /\ Len(assign) \in Nat
  BY <1>0 DEF TypeOK
<1>2. /\ k \in 1 .. Len(assign) /\ r[1].idx = k /\ assign[k] = w
  BY <1>0, NextReply DEF Waiting
<1>3. QueuesInOrder(v) /\ NoneMissing(v)
  BY <1>0 DEF AllInOrder, Waiting
<1>4. /\ \A j \in Len(results') + 1 .. Len(assign') : j \in Len(results) + 1 .. Len(assign)
      /\ \A m : Pending(v, m) /\ m.idx # k => After(m)
  <2>1. k = Len(results) + 1 /\ Len(results) \in Nat
    BY DEF TypeOK
  <2> QED BY <1>0, <1>1, <2>1 DEF Pending
<1>5. CASE v # w
  <2>1. outq'[v] = outq[v]
    BY <1>0, <1>5 DEF TypeOK
  <2>2. \A m : Pending(v, m) => After(m)
    BY <1>2, <1>4, <1>5 DEF Pending
  <2>3. QueuesInOrder(v)'
    <3>1. /\ \A i \in 1 .. Len(inq[v]) : After(inq[v][i])
          /\ \A i \in 1 .. Len(outq[v]) : After(outq[v][i])
          /\ Working(v) => After(cur[v])
      BY <1>3, <2>2 DEF QueuesInOrder
    <3> QED BY <1>0, <1>3, <2>1, <3>1 DEF QueuesInOrder, Working, Pending, Increasing
  <2>4. NoneMissing(v)'
    BY <1>0, <1>3, <1>4, <2>1 DEF NoneMissing, Accounted, Working, Alive
  <2> QED BY <2>3, <2>4
<1>6. CASE v = w
  <2>1. outq'[w] = Tail(r) /\ r \in Seq(Message) /\ Len(r) \in Nat
    BY <1>0 DEF TypeOK
  <2>2. /\ Len(Tail(r)) = Len(r) - 1 /\ 1 \in 1 .. Len(r)
        /\ \A i \in 1 .. Len(Tail(r)) : i + 1 \in 1 .. Len(r) /\ Tail(r)[i] = r[i + 1]
    BY <1>0, <2>1, TailFacts
  <2>3. \A i \in 1 .. Len(Tail(r)) : k < Tail(r)[i].idx
    BY <1>2, <1>3, <1>6, <2>1, <2>2 DEF QueuesInOrder, Increasing
  <2>4. Increasing(Tail(r))
    BY <1>3, <1>6, <2>1, <2>2 DEF QueuesInOrder, Increasing
  <2>5. \A i \in 1 .. Len(inq[w]) : k < inq[w][i].idx
    BY <1>2, <1>3, <1>6, <2>2 DEF QueuesInOrder
  <2>6. Working(w) => k < cur[w].idx
    BY <1>2, <1>3, <1>6, <2>2 DEF QueuesInOrder
  <2>7. \A m : Pending(w, m) /\ k < m.idx => After(m)
    BY <1>1, <1>2, <1>4, <1>6 DEF Pending
  <2>8. QueuesInOrder(w)'
    <3>1. \A i \in 1 .. Len(Tail(r)) :
            /\ After(Tail(r)[i])
            /\ \A j \in 1 .. Len(inq[w]) : Tail(r)[i].idx < inq[w][j].idx
            /\ Working(w) => Tail(r)[i].idx < cur[w].idx
      BY <1>3, <1>6, <2>2, <2>3, <2>7 DEF QueuesInOrder
    <3>2. \A i \in 1 .. Len(inq[w]) : After(inq[w][i]) /\ inq[w][i].kind = "exec"
      BY <1>3, <1>6, <2>5, <2>7 DEF QueuesInOrder
    <3>3. Working(w) => After(cur[w])
      BY <1>3, <1>6, <2>6, <2>7 DEF QueuesInOrder
    <3>4. Increasing(inq[w])
      BY <1>3, <1>6 DEF QueuesInOrder
    <3>5. Working(w) => cur[w].kind # "ping" /\ \A i \in 1 .. Len(inq[w]) : cur[w].idx < inq[w][i].idx
      BY <1>3, <1>6 DEF QueuesInOrder
    <3> DEFINE t == Tail(r)
    <3>6. /\ outq'[w] = t /\ inq'[w] = inq[w] /\ cur'[w] = cur[w]
          /\ Working(w)' = Working(w)
      BY <1>0, <2>1 DEF Working
    <3>7. /\ \A i \in 1 .. Len(t) : After(t[i])
          /\ \A i \in 1 .. Len(t), j \in 1 .. Len(inq[w]) : t[i].idx < inq[w][j].idx
          /\ Working(w) => \A i \in 1 .. Len(t) : t[i].idx < cur[w].idx
          /\ Increasing(t)
      BY <2>4, <3>1
    <3> HIDE DEF t, r
    <3>8. Increasing(inq[w])' /\ Increasing(outq[w])'
      BY <3>4, <3>6, <3>7 DEF Increasing
    <3>9. \A i \in 1 .. Len(inq'[w]) : Pending(w, inq[w][i])' /\ inq'[w][i].kind = "exec"
      BY <1>6, <3>2, <3>6 DEF Pending
    <3>10. \A i \in 1 .. Len(outq'[w]) : Pending(w, outq[w][i])'
      BY <1>6, <3>6, <3>7 DEF Pending
    <3>11. \A i \in 1 .. Len(outq'[w]), j \in 1 .. Len(inq'[w]) : outq'[w][i].idx < inq'[w][j].idx
      BY <3>6, <3>7
    <3>12. Working(w)' =>
            /\ Pending(w, cur[w])' /\ cur'[w].kind # "ping"
            /\ \A i \in 1 .. Len(outq'[w]) : outq'[w][i].idx < cur'[w].idx
            /\ \A i \in 1 .. Len(inq'[w]) : cur'[w].idx < inq'[w][i].idx
      BY <1>6, <3>3, <3>5, <3>6, <3>7 DEF Pending
    <3> QED BY <3>8, <3>9, <3>10, <3>11, <3>12 DEF QueuesInOrder
  <2>9. NoneMissing(w)'
    <3> SUFFICES ASSUME NEW j \in Len(results') + 1 .. Len(assign), assign[j] = w
                 PROVE  Accounted(w, j)'
      BY <1>0 DEF NoneMissing
    <3>1. Accounted(w, j) /\ j > k
      BY <1>0, <1>1, <1>3, <1>4, <1>6 DEF NoneMissing
    <3>2. CASE \E i \in 1 .. Len(r) : r[i].idx = j
      <4>1. PICK i \in 1 .. Len(r) : r[i].idx = j
        BY <3>2
      <4>2. i # 1
        BY <1>1, <1>2, <3>1, <4>1
      <4>3. i - 1 \in 1 .. Len(Tail(r)) /\ Tail(r)[i - 1].idx = j
        BY <2>1, <2>2, <4>1, <4>2
      <4> QED BY <2>1, <4>3 DEF Accounted
    <3>3. CASE ~Alive(w) /\ \A i \in 1 .. Len(r) : r[i].idx < j
      <4>1. \A i \in 1 .. Len(Tail(r)) : Tail(r)[i].idx < j
        BY <2>2, <3>3
      <4> QED BY <1>0, <2>1, <3>3, <4>1 DEF Accounted, Alive
    <3> QED BY <1>0, <3>1, <3>2, <3>3 DEF Accounted, Working
  <2> QED BY <1>6, <2>8, <2>9
<1> QED BY <1>5, <1>6

\* Sending the next task appends it to the queue of a living worker.
LEMMA SendInOrder ==
    ASSUME TypeOK, Phases, AllInOrder, clean, SendTask, NEW w \in Worker, w = Turn,
           NEW v \in Worker
    PROVE  QueuesInOrder(v)' /\ NoneMissing(v)'
<1> DEFINE n == Len(assign) + 1
           q == inq[w]
           After(m) == /\ m.batch = batch' /\ m.idx \in Len(results') + 1 .. Len(assign')
                       /\ assign'[m.idx] = v
<1>0. /\ UNCHANGED <<batch, results, proc, cur, outq>> /\ Alive(w) /\ w \in Worker
      /\ assign' = Append(assign, w) /\ inq' = [inq EXCEPT ![w] = Append(q, Task(batch, n))]
  BY TurnInWorker DEF SendTask
<1>1. Len(results) = 0 /\ Len(results') = 0
  BY <1>0 DEF Phases, SendTask
<1>2. QueuesInOrder(v) /\ NoneMissing(v)
  BY DEF AllInOrder, SendTask
<1>3. /\ Len(assign) \in Nat /\ Len(assign') = n /\ assign'[n] = w
      /\ \A i \in 1 .. Len(assign) : assign'[i] = assign[i]
  <2>1. assign \in Seq(Worker)
    BY DEF TypeOK
  <2> QED BY <1>0, <2>1, AppendFacts
<1>4. \A m : Pending(v, m) => After(m) /\ m.idx < n
  BY <1>0, <1>1, <1>3 DEF Pending
<1>5. /\ \A i \in 1 .. Len(inq[v]) : After(inq[v][i]) /\ inq[v][i].idx < n
      /\ \A i \in 1 .. Len(outq[v]) : After(outq[v][i]) /\ outq[v][i].idx < n
      /\ Working(v) => After(cur[v]) /\ cur[v].idx < n
  BY <1>2, <1>4 DEF QueuesInOrder
<1>6. \A j \in Len(results') + 1 .. Len(assign') :
        j = n \/ (j \in Len(results) + 1 .. Len(assign) /\ assign'[j] = assign[j])
  BY <1>1, <1>3
<1>7. CASE v # w
  <2>1. inq'[v] = inq[v]
    BY <1>0, <1>7 DEF TypeOK
  <2>2. QueuesInOrder(v)'
    BY <1>0, <1>2, <1>5, <2>1 DEF QueuesInOrder, Increasing, Working, Pending
  <2>3. NoneMissing(v)'
    <3>1. \A j : Accounted(v, j) => Accounted(v, j)'
      BY <1>0, <2>1 DEF Accounted, Working, Alive
    <3>2. \A j \in Len(results') + 1 .. Len(assign') :
            assign'[j] = v => j \in Len(results) + 1 .. Len(assign) /\ assign[j] = v
      BY <1>3, <1>6, <1>7
    <3> QED BY <1>2, <3>1, <3>2 DEF NoneMissing
  <2> QED BY <2>2, <2>3
<1>8. CASE v = w
  <2> DEFINE m == Task(batch, n)
             s == Append(q, m)
  <2>1. q \in Seq(Message) /\ Len(q) \in Nat /\ inq'[w] = s
    BY <1>0 DEF TypeOK
  <2>2. m \in Message /\ m.batch = batch /\ m.idx = n /\ m.kind = "exec"
    <3>1. batch \in Nat /\ n \in Nat
      BY <1>3 DEF TypeOK
    <3>2. m \in Message
      BY <3>1, MessageTypes
    <3> QED BY <3>2 DEF Task
  <2>3. /\ Len(s) = Len(q) + 1 /\ s[Len(q) + 1] = m
        /\ \A i \in 1 .. Len(q) : s[i] = q[i]
    BY <2>1, <2>2, AppendFacts
  <2>4. /\ After(m)
        /\ \A i \in 1 .. Len(q) : After(q[i]) /\ q[i].idx < n
        /\ \A i \in 1 .. Len(outq[w]) : After(outq[w][i]) /\ outq[w][i].idx < n
        /\ Working(w) => After(cur[w]) /\ cur[w].idx < n
    BY <1>0, <1>1, <1>3, <1>5, <1>8, <2>2
  <2> HIDE DEF m, s
  <2>5. \A i \in 1 .. Len(s) : i \in 1 .. Len(q) \/ i = Len(q) + 1
    BY <2>1, <2>3
  <2>6. Increasing(s)
    <3> SUFFICES ASSUME NEW i \in 1 .. Len(s), NEW j \in 1 .. Len(s), i < j
                 PROVE  s[i].idx < s[j].idx
      BY DEF Increasing
    <3>1. i \in 1 .. Len(q)
      BY <2>1, <2>3
    <3>2. CASE j \in 1 .. Len(q)
      BY <1>2, <1>8, <2>3, <3>1, <3>2 DEF QueuesInOrder, Increasing
    <3>3. CASE j = Len(q) + 1
      BY <2>2, <2>3, <2>4, <3>1, <3>3
    <3> QED BY <2>5, <3>2, <3>3
  <2>7. \A i \in 1 .. Len(s) : After(s[i]) /\ s[i].kind = "exec"
    <3> SUFFICES ASSUME NEW i \in 1 .. Len(s)
                 PROVE  After(s[i]) /\ s[i].kind = "exec"
      OBVIOUS
    <3> HIDE DEF After
    <3>1. CASE i \in 1 .. Len(q)
      BY <1>2, <1>8, <2>3, <2>4, <3>1 DEF QueuesInOrder
    <3>2. CASE i = Len(q) + 1
      BY <2>2, <2>3, <2>4, <3>2
    <3> QED BY <2>5, <3>1, <3>2
  <2>8. /\ \A i \in 1 .. Len(outq[w]), j \in 1 .. Len(s) : outq[w][i].idx < s[j].idx
        /\ Working(w) => \A i \in 1 .. Len(s) : cur[w].idx < s[i].idx
    <3> SUFFICES ASSUME NEW i \in 1 .. Len(s)
                 PROVE  /\ \A j \in 1 .. Len(outq[w]) : outq[w][j].idx < s[i].idx
                        /\ Working(w) => cur[w].idx < s[i].idx
      OBVIOUS
    <3> HIDE DEF After
    <3>1. CASE i \in 1 .. Len(q)
      BY <1>2, <1>8, <2>3, <3>1 DEF QueuesInOrder
    <3>2. CASE i = Len(q) + 1
      BY <2>2, <2>3, <2>4, <3>2
    <3> QED BY <2>5, <3>1, <3>2
  <2>9. QueuesInOrder(w)'
    <3>1. /\ inq'[w] = s /\ outq'[w] = outq[w] /\ cur'[w] = cur[w] /\ Working(w)' = Working(w)
      BY <1>0, <2>1 DEF Working
    <3>2. Increasing(inq[w])' /\ Increasing(outq[w])'
      BY <1>2, <1>8, <2>6, <3>1 DEF QueuesInOrder, Increasing
    <3>3. \A i \in 1 .. Len(inq'[w]) : Pending(w, inq[w][i])' /\ inq'[w][i].kind = "exec"
      BY <1>8, <2>7, <3>1 DEF Pending
    <3>4. \A i \in 1 .. Len(outq'[w]) : Pending(w, outq[w][i])'
      BY <1>8, <2>4, <3>1 DEF Pending
    <3>5. \A i \in 1 .. Len(outq'[w]), j \in 1 .. Len(inq'[w]) : outq'[w][i].idx < inq'[w][j].idx
      BY <2>8, <3>1
    <3>6. Working(w)' =>
            /\ Pending(w, cur[w])' /\ cur'[w].kind # "ping"
            /\ \A i \in 1 .. Len(outq'[w]) : outq'[w][i].idx < cur'[w].idx
            /\ \A i \in 1 .. Len(inq'[w]) : cur'[w].idx < inq'[w][i].idx
      BY <1>2, <1>8, <2>4, <2>8, <3>1 DEF QueuesInOrder, Pending
    <3> QED BY <3>2, <3>3, <3>4, <3>5, <3>6 DEF QueuesInOrder
  <2>10. NoneMissing(w)'
    <3> SUFFICES ASSUME NEW j \in Len(results') + 1 .. Len(assign'), assign'[j] = w
                 PROVE  Accounted(w, j)'
      BY DEF NoneMissing
    <3>1. CASE j = n
      <4>1. Len(q) + 1 \in 1 .. Len(inq'[w]) /\ inq'[w][Len(q) + 1].idx = j
        BY <2>1, <2>2, <2>3, <3>1
      <4> QED BY <4>1 DEF Accounted
    <3>2. CASE j # n
      <4>1. Accounted(w, j)
        BY <1>2, <1>6, <1>8, <3>2 DEF NoneMissing
      <4>2. CASE \E i \in 1 .. Len(q) : q[i].idx = j
        <5>1. PICK i \in 1 .. Len(q) : q[i].idx = j
          BY <4>2
        <5>2. i \in 1 .. Len(inq'[w]) /\ inq'[w][i].idx = j
          BY <2>1, <2>3, <5>1
        <5> QED BY <5>2 DEF Accounted
      <4> QED BY <1>0, <4>1, <4>2 DEF Accounted, Working
    <3> QED BY <3>1, <3>2
  <2> QED BY <1>8, <2>9, <2>10
<1> QED BY <1>7, <1>8

\* A worker keeps its queues in order while nothing of it and of the batch moves.
LEMMA UnchangedInOrder ==
    ASSUME NEW w \in Worker, UNCHANGED <<batch, assign, results>>,
           proc'[w] = proc[w], cur'[w] = cur[w], inq'[w] = inq[w], outq'[w] = outq[w]
    PROVE  /\ QueuesInOrder(w) => QueuesInOrder(w)'
           /\ NoneMissing(w) => NoneMissing(w)'
<1>1. \A m : (m.batch = batch' /\ m.idx \in Len(results') + 1 .. Len(assign') /\ assign'[m.idx] = w)
              <=> Pending(w, m)
  BY DEF Pending
<1>2. /\ Working(w)' = Working(w) /\ Alive(w)' = Alive(w)
      /\ Increasing(inq[w])' = Increasing(inq[w]) /\ Increasing(outq[w])' = Increasing(outq[w])
  BY DEF Working, Alive, Increasing
<1>3. QueuesInOrder(w) => QueuesInOrder(w)'
  BY <1>1, <1>2 DEF QueuesInOrder, Pending
<1>4. NoneMissing(w) => NoneMissing(w)'
  <2>1. \A j : Accounted(w, j) <=> Accounted(w, j)'
    BY <1>2 DEF Accounted
  <2> QED BY <2>1 DEF NoneMissing
<1> QED BY <1>3, <1>4

LEMMA AllInOrderStep ==
    ASSUME TypeOK, Handshaking, NewPool, Phases, AllInOrder, [Next]_vars, NewPool'
    PROVE  AllInOrder'
<1>0. ASSUME \A w \in Worker : Idle(w)', assign' = <<>>, results' = <<>>
      PROVE  AllInOrder'
  BY <1>0 DEF AllInOrder, QueuesInOrder, NoneMissing, Idle, Working, Increasing
<1>1. CASE ParentMoves
  <2>1. ASSUME NEW n \in 0 .. MaxSeeds, Submit(n)
        PROVE  AllInOrder'
    <3>1. CASE ~exists \/ ~clean'
      BY <2>1, <3>1 DEF Submit, AllInOrder
    <3>2. CASE exists /\ clean'
      <4>1. \A w \in Worker : Idle(w)'
        BY <2>1, <3>2 DEF Submit, links, Idle
      <4> QED BY <1>0, <2>1, <4>1 DEF Submit
    <3> QED BY <3>1, <3>2
  <2>2. CASE SendTask
    <3>1. PICK w \in Worker : w = Turn
      BY TurnInWorker
    <3>2. clean' = clean
      BY <2>2 DEF SendTask
    <3>3. clean => \A v \in Worker : QueuesInOrder(v)' /\ NoneMissing(v)'
      BY <2>2, <3>1, SendInOrder
    <3> QED BY <3>2, <3>3 DEF AllInOrder
  <2>3. CASE AllSent
    <3>1. pc = "send" /\ UNCHANGED <<clean, batch, assign, results, proc, cur, inq, outq>>
      BY <2>3 DEF AllSent, links
    <3> SUFFICES ASSUME clean, NEW w \in Worker
                 PROVE  QueuesInOrder(w)' /\ NoneMissing(w)'
      BY <3>1 DEF AllInOrder
    <3>2. QueuesInOrder(w) /\ NoneMissing(w)
      BY <3>1 DEF AllInOrder
    <3> QED BY <3>1, <3>2, UnchangedInOrder
  <2>4. ASSUME NEW w \in Worker, RecvOk(w)
        PROVE  AllInOrder'
    <3>1. clean' = clean
      BY <2>4 DEF RecvOk
    <3>2. clean => \A v \in Worker : QueuesInOrder(v)' /\ NoneMissing(v)'
      BY <2>4, RecvInOrder
    <3> QED BY <3>1, <3>2 DEF AllInOrder
  <2>5. CASE Handshake /\ pc' = "send"
    <3>1. ~exists /\ at = N - 1 /\ assign' = <<>> /\ results' = <<>>
      BY <2>5 DEF Handshake, NewPool, GiveUp
    <3>2. \A w \in Worker \ {at} : Idle(w)'
      BY <2>5, <3>1 DEF Handshake, NewPool, Idle, TypeOK
    <3>3. Len(inq[at]) + Len(outq[at]) <= 1 /\ outq[at] # <<>> /\ proc[at] \in {"read", "dead"}
      BY <2>5 DEF Handshake, Handshaking
    <3>4. /\ inq[at] \in Seq(Message) /\ outq[at] \in Seq(Message) /\ at \in Worker
          /\ Len(inq[at]) \in Nat /\ Len(outq[at]) \in Nat
      BY DEF TypeOK
    <3>5. Len(outq[at]) >= 1
      BY <3>3, <3>4, LengthZero
    <3>6. Len(outq[at]) = 1 /\ Len(inq[at]) = 0
      BY <3>3, <3>4, <3>5, SumAtMostOneSecond
    <3>7. Tail(outq[at]) \in Seq(Message) /\ Len(Tail(outq[at])) = 0
      BY <3>4, <3>6, TailOfOne
    <3>8. Tail(outq[at]) = <<>> /\ inq[at] = <<>>
      BY <3>4, <3>6, <3>7, LengthZero
    <3>9. /\ outq'[at] = Tail(outq[at]) /\ inq'[at] = inq[at] /\ proc'[at] = proc[at]
      BY <2>5, <3>4 DEF Handshake, TypeOK
    <3>10. \A w \in {at} : Idle(w)'
      BY <3>3, <3>8, <3>9, Zenon DEF Idle
    <3> QED BY <1>0, <3>1, <3>2, <3>10
  <2>6. CASE pc' \notin {"send", "recv"}
    BY <2>6 DEF AllInOrder
  <2>7. CASE \/ SendFails \/ (\E w \in Worker : RecvErr(w) \/ RecvFails(w)) \/ AllReceived \/ ThreadPath
             \/ WriteShutdown \/ Reap \/ Spawn \/ SpawnFails \/ DropPool
    <3>1. pc' \notin {"send", "recv"}
      BY <2>7 DEF SendFails, RecvErr, RecvFails, AllReceived, ThreadPath, WriteShutdown, Reap, Spawn,
         SpawnFails, DropPool, GiveUp
    <3> QED BY <2>6, <3>1
  <2>8. CASE Handshake
    <3>1. pc' \in {"send", "spawn", "thread"}
      BY <2>8 DEF Handshake, GiveUp
    <3> QED BY <2>5, <2>6, <2>8, <3>1
  <2> QED BY <1>1, <2>1, <2>2, <2>3, <2>4, <2>7, <2>8 DEF ParentMoves, ParentStep
<1>2. ASSUME NEW w \in Worker, WorkerMoves(w)
      PROVE  AllInOrder'
  <2>1. UNCHANGED parent
    BY <1>2, WorkerStepLocal
  <2> SUFFICES ASSUME clean, pc \in {"send", "recv"}, NEW v \in Worker
               PROVE  QueuesInOrder(v)' /\ NoneMissing(v)'
    BY <2>1 DEF AllInOrder, parent
  <2>2. QueuesInOrder(v) /\ NoneMissing(v)
    BY DEF AllInOrder
  <2>3. CASE v = w
    BY <1>2, <2>2, <2>3, WorkerInOrder
  <2>4. CASE v # w
    <3>1. proc'[v] = proc[v] /\ cur'[v] = cur[v] /\ inq'[v] = inq[v] /\ outq'[v] = outq[v]
      BY <1>2, <2>4, WorkerStepLocal
    <3>2. UNCHANGED <<batch, assign, results>>
      BY <2>1 DEF parent
    <3> QED BY <2>2, <3>1, <3>2, UnchangedInOrder
  <2> QED BY <2>3, <2>4
<1>3. CASE UNCHANGED <<parent, links>>
  <2>1. UNCHANGED <<pc, clean, batch, assign, results, proc, cur, inq, outq>>
    BY <1>3 DEF vars, parent, links
  <2> SUFFICES ASSUME clean, pc \in {"send", "recv"}, NEW w \in Worker
               PROVE  QueuesInOrder(w)' /\ NoneMissing(w)'
    BY <2>1 DEF AllInOrder
  <2>2. QueuesInOrder(w) /\ NoneMissing(w)
    BY DEF AllInOrder
  <2> QED BY <2>1, <2>2, UnchangedInOrder
<1> QED BY <1>1, <1>2, <1>3, NextSplit

\* Collecting appends the result of the next seed; a new batch starts empty.
LEMMA CleanBatchStep ==
    ASSUME TypeOK, NewPool, Phases, AllInOrder, CleanBatchInOrder, [Next]_vars
    PROVE  CleanBatchInOrder'
<1>1. ASSUME NEW w \in Worker, RecvOk(w), clean
      PROVE  CleanBatchInOrder'
  <2> DEFINE r == <<Head(outq[w]).batch, Head(outq[w]).idx>>
  <2>1. /\ results' = Append(results, r) /\ UNCHANGED <<batch, clean>>
        /\ Waiting(w) /\ outq[w] # <<>>
    BY <1>1 DEF RecvOk
  <2>2. outq[w] \in Seq(Message)
    BY DEF TypeOK
  <2>3. r = <<batch, Len(results) + 1>>
    BY <1>1, <2>1, <2>2, NextReply, TailFacts
  <2>4. results \in Seq(Nat \X Nat) /\ batch \in Nat /\ Len(results) \in Nat
    BY DEF TypeOK
  <2>5. r \in Nat \X Nat
    BY <2>3, <2>4
  <2> HIDE DEF r
  <2>6. /\ Len(results') = Len(results) + 1 /\ results'[Len(results) + 1] = r
        /\ \A i \in 1 .. Len(results) : results'[i] = results[i]
        /\ DOMAIN results' = 1 .. Len(results') /\ DOMAIN results = 1 .. Len(results)
    BY <2>1, <2>4, <2>5, AppendFacts
  <2>7. \A i \in DOMAIN results' : i \in DOMAIN results \/ i = Len(results) + 1
    BY <2>4, <2>6
  <2> QED BY <1>1, <2>1, <2>3, <2>6, <2>7 DEF CleanBatchInOrder
<1>2. ASSUME NEW n \in 0 .. MaxSeeds, Submit(n)
      PROVE  CleanBatchInOrder'
  BY <1>2 DEF Submit, CleanBatchInOrder
<1>3. CASE UNCHANGED <<clean, results, batch>>
  BY <1>3 DEF CleanBatchInOrder
<1>4. CASE ParentMoves
  <2>1. ASSUME NEW w \in Worker, RecvOk(w), ~clean
        PROVE  CleanBatchInOrder'
    BY <2>1 DEF RecvOk, CleanBatchInOrder
  <2>2. CASE \/ SendTask \/ SendFails \/ AllSent \/ (\E w \in Worker : RecvErr(w) \/ RecvFails(w))
             \/ AllReceived \/ ThreadPath \/ WriteShutdown \/ Reap \/ Spawn \/ Handshake \/ SpawnFails \/ DropPool
    <3>1. UNCHANGED <<clean, results, batch>>
      BY <2>2 DEF SendTask, SendFails, AllSent, RecvErr, RecvFails, AllReceived, ThreadPath, WriteShutdown,
         Reap, Spawn, Handshake, SpawnFails, DropPool
    <3> QED BY <1>3, <3>1
  <2> QED BY <1>1, <1>2, <1>4, <2>1, <2>2 DEF ParentMoves, ParentStep
<1>5. ASSUME NEW w \in Worker, WorkerMoves(w)
      PROVE  CleanBatchInOrder'
  BY <1>3, <1>5, WorkerStepLocal DEF parent
<1>6. CASE UNCHANGED <<parent, links>>
  BY <1>3, <1>6 DEF vars, parent
<1> QED BY <1>4, <1>5, <1>6, NextSplit

\* When the last result of a clean batch is in, no seed is left for anything in
\* transit to belong to.
LEMMA NativeStep ==
    ASSUME TypeOK, Phases, AllInOrder, StuckOnBig, NativeLeavesClean, [Next]_vars
    PROVE  NativeLeavesClean'
<1>1. CASE AllReceived
  <2> SUFFICES ASSUME clean, NEW w \in Worker
               PROVE  Idle(w)'
    BY <1>1 DEF AllReceived, ThreadPath, NativeLeavesClean
  <2>1. /\ pc = "recv" /\ Len(results) = size /\ Len(assign) = size /\ size \in Nat
        /\ UNCHANGED <<proc, inq, outq>>
    BY <1>1 DEF AllReceived, ThreadPath, Phases, TypeOK, links
  <2>2. \A m : ~Pending(w, m)
    BY <2>1 DEF Pending
  <2>3. QueuesInOrder(w)
    BY <2>1 DEF AllInOrder
  <2>4. ~Working(w) /\ ~(\E i \in 1 .. Len(inq[w]) : TRUE) /\ ~(\E i \in 1 .. Len(outq[w]) : TRUE)
    BY <2>2, <2>3 DEF QueuesInOrder
  <2>5. inq[w] \in Seq(Message) /\ outq[w] \in Seq(Message)
    BY DEF TypeOK
  <2>6. inq[w] = <<>> /\ outq[w] = <<>>
    <3>1. ASSUME NEW q \in Seq(Message), ~(\E i \in 1 .. Len(q) : TRUE)
          PROVE  q = <<>>
      BY <3>1, LengthZero
    <3> QED BY <2>4, <2>5, <3>1
  <2>7. proc[w] # "stuck"
    BY <2>6 DEF StuckOnBig
  <2> QED BY <2>1, <2>4, <2>6, <2>7 DEF Idle, Working
<1>2. CASE ParentMoves /\ ~AllReceived
  <2>1. ~(pc' = "idle" /\ outcome' = "native") \/ UNCHANGED <<pc, outcome, clean, links>>
    BY <1>2 DEF ParentMoves, ParentStep, Submit, SendTask, SendFails, AllSent, RecvOk, RecvErr,
       RecvFails, Waiting, ThreadPath, WriteShutdown, Reap, Spawn, Handshake, SpawnFails, DropPool, GiveUp
  <2> QED BY <2>1 DEF NativeLeavesClean, links, Idle
<1>3. ASSUME NEW w \in Worker, WorkerMoves(w)
      PROVE  NativeLeavesClean'
  <2>1. UNCHANGED <<pc, outcome, clean>>
    BY <1>3, WorkerStepLocal DEF parent
  <2>2. \A v \in Worker : Idle(v) => Idle(v)'
    BY <1>3, IdleStaysIdle
  <2> QED BY <2>1, <2>2 DEF NativeLeavesClean
<1>4. CASE UNCHANGED <<parent, links>>
  BY <1>4 DEF vars, parent, links, NativeLeavesClean, Idle
<1> QED BY <1>1, <1>2, <1>3, <1>4, NextSplit

\* OrderInv holds in every reachable state.
THEOREM OrderCorrect == Spec => []OrderInv
<1>1. Init => OrderInv
  BY DEF Init, OrderInv, Handshaking, NewPool, Phases, StuckOnBig, AllInOrder,
     CleanBatchInOrder, NativeLeavesClean, Idle
<1>2. TypeOK /\ OrderInv /\ [Next]_vars => OrderInv'
  <2> SUFFICES ASSUME TypeOK, OrderInv, [Next]_vars
               PROVE  OrderInv'
    OBVIOUS
  <2> USE DEF OrderInv
  <2>1. Handshaking'
    BY HandshakingStep
  <2>2. NewPool'
    BY NewPoolStep
  <2>3. Phases'
    BY PhasesStep
  <2>4. StuckOnBig'
    BY StuckOnBigStep
  <2>5. AllInOrder'
    BY <2>2, AllInOrderStep
  <2>6. CleanBatchInOrder'
    BY CleanBatchStep
  <2>7. NativeLeavesClean'
    BY NativeStep
  <2> QED BY <2>1, <2>2, <2>3, <2>4, <2>5, <2>6, <2>7
<1> QED BY <1>1, <1>2, TypeCorrect, PTL DEF Spec

\* A batch submitted to a pool in which nothing was in transit collects the
\* results of its own seeds in their order, for every number of workers, every
\* capacity of the pipes, and whatever the workers do (submit_batch).
THEOREM CleanBatchCorrect == Spec => []CleanBatchInOrder
<1>1. OrderInv => CleanBatchInOrder
  BY DEF OrderInv
<1> QED BY <1>1, OrderCorrect, PTL

\* A clean batch that returns results leaves nothing in transit, so only a
\* batch that was given up can hand replies to the next one.
THEOREM NativeLeavesCleanCorrect == Spec => []NativeLeavesClean
<1>1. OrderInv => NativeLeavesClean
  BY DEF OrderInv
<1> QED BY <1>1, OrderCorrect, PTL

-----------------------------------------------------------------------------
(* Which processes there are.                                              *)

\* A worker has a process exactly when its slot holds it; only the worker that
\* is being replaced or created may have one without the other.  A pool that is
\* being dropped has no process left before the worker it has come to.
Held(w) == proc[w] # "none" <=> slot[w]
ProcessesHeld ==
    /\ \A w \in Worker : Held(w) \/ (w = at /\ pc \in {"reap", "spawn", "handshake"})
    /\ pc = "reap" => ~slot[at]
    /\ pc = "handshake" => proc[at] # "none"
    /\ pc \in {"shutdown", "reap"} => goal \in {"respawn", "drop"}
    /\ goal = "drop" /\ pc \in {"shutdown", "reap"} =>
        \A w \in Worker : w < at => proc[w] = "none"
    /\ pc = "closed" => \A w \in Worker : proc[w] = "none"

\* While the parent sends or collects, every seed that was given to a worker and
\* whose result is not collected is in a pipe of that worker or being worked on,
\* unless the process is gone.
Owed(w) == {i \in Len(results) + 1 .. Len(assign) : assign[i] = w}
DebtsInTransit ==
    pc \in {"send", "recv"} =>
        \A w \in Worker : proc[w] # "dead" => Cardinality(Owed(w)) <= InTransit(w)

\* No step of a worker starts or forgets a process.
LEMMA WorkerKeepsProcess ==
    ASSUME TypeOK, NEW w \in Worker, WorkerMoves(w), NEW v \in Worker
    PROVE  proc'[v] = "none" <=> proc[v] = "none"
<1>1. CASE v # w
  BY <1>1, WorkerStepLocal
<1>2. CASE v = w
  <2>1. AfterRead(Head(inq[w])) # "none"
    BY DEF AfterRead
  <2> QED
    BY <1>2, <2>1 DEF WorkerMoves, WorkerRead, WorkerExec, WorkerWrite, WorkerDies, Alive, Live,
       TypeOK
<1> QED BY <1>1, <1>2

LEMMA ProcessesHeldStep ==
    ASSUME TypeOK, ProcessesHeld, [Next]_vars
    PROVE  ProcessesHeld'
<1> USE DEF TypeOK, ProcessesHeld, Held
<1>1. CASE ParentMoves
  <2>1. CASE \/ \E n \in 0 .. MaxSeeds : Submit(n)
             \/ SendTask \/ SendFails \/ AllSent
             \/ \E w \in Worker : RecvOk(w) \/ RecvErr(w) \/ RecvFails(w)
             \/ AllReceived \/ ThreadPath
    <3>1. /\ UNCHANGED <<slot, proc>>
          /\ pc \notin {"reap", "spawn", "handshake"}
          /\ pc' \in {"idle", "send", "recv", "thread", "spawn", "shutdown"}
          /\ pc' = "shutdown" => goal' = "respawn"
      BY <2>1 DEF Submit, SendTask, SendFails, AllSent, RecvOk, RecvErr, RecvFails, Waiting,
         AllReceived, ThreadPath, GiveUp, links
    <3> QED BY <3>1
  <2>2. CASE WriteShutdown
    <3>1. /\ pc = "shutdown" /\ pc' = "reap" /\ UNCHANGED <<proc, at, goal>>
          /\ ~slot'[at] /\ \A w \in Worker \ {at} : slot'[w] = slot[w]
      BY <2>2 DEF WriteShutdown
    <3> QED BY <3>1
  <2>3. CASE Reap
    <3>1. /\ pc = "reap" /\ UNCHANGED <<slot, goal>> /\ proc'[at] = "none"
          /\ \A w \in Worker \ {at} : proc'[w] = proc[w]
      BY <2>3 DEF Reap
    <3>2. \A w \in Worker : Held(w)'
      BY <3>1
    <3>3. CASE goal = "respawn"
      BY <2>3, <3>1, <3>2, <3>3 DEF Reap
    <3>4. CASE goal = "drop"
      <4>0. \A w \in Worker : w < at + 1 => w < at \/ w = at
        <5>1. at \in Worker
          OBVIOUS
        <5> QED BY <5>1 DEF Worker
      <4>1. \A w \in Worker : w < at + 1 => proc'[w] = "none"
        BY <3>1, <3>4, <4>0
      <4>2. \/ pc' = "shutdown" /\ at' = at + 1
            \/ pc' = "closed" /\ at = N - 1
        BY <2>3, <3>4 DEF Reap
      <4>3. CASE pc' = "shutdown" /\ at' = at + 1
        BY <3>1, <3>2, <3>4, <4>1, <4>3
      <4>4. CASE pc' = "closed" /\ at = N - 1
        <5>1. \A w \in Worker : w < at + 1
          BY <4>4 DEF Worker
        <5>2. \A w \in Worker : proc'[w] = "none"
          BY <4>1, <5>1
        <5> QED BY <3>2, <4>4, <5>2
      <4> QED BY <4>2, <4>3, <4>4
    <3> QED BY <3>1, <3>3, <3>4
  <2>4. CASE Spawn
    BY <2>4 DEF Spawn
  <2>5. CASE Handshake
    <3>1. /\ pc = "handshake" /\ UNCHANGED proc /\ slot'[at]
          /\ \A w \in Worker \ {at} : slot'[w] = slot[w]
          /\ pc' \in {"spawn", "send", "thread"}
      BY <2>5 DEF Handshake, GiveUp
    <3> QED BY <3>1
  <2>6. CASE SpawnFails
    <3>1. /\ pc \in {"spawn", "handshake"} /\ pc' = "thread" /\ at \in Dropped
          /\ \A w \in Worker : w \in Dropped => ~slot'[w] /\ proc'[w] = "none"
          /\ \A w \in Worker : w \notin Dropped => slot'[w] = slot[w] /\ proc'[w] = proc[w]
      BY <2>6 DEF SpawnFails, GiveUp, Dropped
    <3> QED BY <3>1
  <2>7. CASE DropPool
    BY <2>7 DEF DropPool, links, Worker
  <2> QED BY <1>1, <2>1, <2>2, <2>3, <2>4, <2>5, <2>6, <2>7 DEF ParentMoves, ParentStep
<1>2. ASSUME NEW w \in Worker, WorkerMoves(w)
      PROVE  ProcessesHeld'
  <2>1. UNCHANGED <<pc, goal, at, slot>>
    BY <1>2, WorkerStepLocal DEF parent
  <2>2. \A v \in Worker : proc'[v] = "none" <=> proc[v] = "none"
    BY <1>2, WorkerKeepsProcess
  <2> QED BY <2>1, <2>2
<1>3. CASE UNCHANGED <<parent, links>>
  BY <1>3 DEF vars, parent, links
<1> QED BY <1>1, <1>2, <1>3, NextSplit

\* Every process the pool has not dropped belongs to a slot, or to the worker being
\* replaced or created; the dropped ones are counted in strays and zombies.
THEOREM ProcessesCorrect == Spec => []ProcessesHeld
<1>1. Init => ProcessesHeld
  BY DEF Init, ProcessesHeld, Held
<1>2. TypeOK /\ ProcessesHeld /\ [Next]_vars => ProcessesHeld'
  BY ProcessesHeldStep
<1> QED BY <1>1, <1>2, TypeCorrect, PTL DEF Spec

-----------------------------------------------------------------------------
(* The processes nobody waits for.                                         *)

\* The workers whose process has ended with nobody telling it to, and that the pool
\* still holds: each took a fault.
Fallen == {w \in Worker : proc[w] = "dead" /\ (slot[w] \/ (pc = "handshake" /\ w = at))}

\* A command that ends a worker is only in the pipe of the worker being reaped.
ShutdownGoes ==
    \A w \in Worker : \A i \in 1 .. Len(inq[w]) :
        inq[w][i].kind \notin {"ping", "exec"} => pc = "reap" /\ w = at /\ ~slot[w]

\* A pool is given up, and its N workers dropped, only for a fault that was not used
\* up that way before.
Losses == strays + zombies + N * Cardinality(Fallen) <= N * faults

LEMMA ShutdownGoesStep ==
    ASSUME TypeOK, ShutdownGoes, [Next]_vars
    PROVE  ShutdownGoes'
<1> USE DEF ShutdownGoes
<1>0. inq \in [Worker -> Seq(Message)] /\ at \in Worker /\ slot \in [Worker -> BOOLEAN]
  BY DEF TypeOK
<1>1. CASE ParentMoves
  <2>1. CASE \/ \E n \in 0 .. MaxSeeds : Submit(n)
             \/ SendFails \/ AllSent
             \/ \E w \in Worker : RecvOk(w) \/ RecvErr(w) \/ RecvFails(w)
             \/ AllReceived \/ ThreadPath \/ DropPool \/ Handshake
    <3>1. UNCHANGED inq /\ pc # "reap"
      BY <2>1 DEF Submit, SendFails, AllSent, RecvOk, RecvErr, RecvFails, Waiting, AllReceived,
         ThreadPath, DropPool, Handshake, links
    <3> QED BY <3>1
  <2>2. CASE SendTask
    <3>1. /\ pc = "send" /\ Turn \in Worker
          /\ inq' = [inq EXCEPT ![Turn] = Append(@, Task(batch, Len(assign) + 1))]
      BY <2>2, TurnInWorker DEF SendTask
    <3>2. Task(batch, Len(assign) + 1) \in Message /\ Task(batch, Len(assign) + 1).kind = "exec"
      BY MessageTypes DEF Task, TypeOK
    <3> QED BY <1>0, <3>1, <3>2, AppendFacts
  <2>3. CASE WriteShutdown
    <3>1. pc = "shutdown" /\ pc' = "reap" /\ ~slot'[at] /\ UNCHANGED at
      BY <1>0, <2>3 DEF WriteShutdown
    <3>2. inq' = inq \/ inq' = [inq EXCEPT ![at] = Append(@, Control("shutdown"))]
      BY <2>3 DEF WriteShutdown
    <3>3. \A w \in Worker \ {at} : inq'[w] = inq[w]
      BY <1>0, <3>2
    <3> QED BY <3>1, <3>3
  <2>4. CASE Reap
    BY <1>0, <2>4 DEF Reap
  <2>5. CASE Spawn
    BY <1>0, <2>5 DEF Spawn, Control
  <2>6. CASE SpawnFails
    <3>1. pc # "reap" /\ \A w \in Worker : inq'[w] = inq[w] \/ inq'[w] = <<>>
      BY <2>6 DEF SpawnFails
    <3> QED BY <3>1
  <2> QED BY <1>1, <2>1, <2>2, <2>3, <2>4, <2>5, <2>6 DEF ParentMoves, ParentStep
<1>2. ASSUME NEW w \in Worker, WorkerMoves(w)
      PROVE  ShutdownGoes'
  <2>1. UNCHANGED <<pc, at, slot>> /\ \A v \in Worker \ {w} : inq'[v] = inq[v]
    BY <1>2, WorkerStepLocal DEF parent
  <2>2. CASE WorkerRead(w)
    <3>1. inq'[w] = Tail(inq[w]) /\ inq[w] # <<>> /\ inq[w] \in Seq(Message)
      BY <1>0, <2>2 DEF WorkerRead
    <3>2. \A i \in 1 .. Len(inq'[w]) : i + 1 \in 1 .. Len(inq[w]) /\ inq'[w][i] = inq[w][i + 1]
      BY <3>1, TailFacts
    <3> QED BY <2>1, <3>2
  <2>3. CASE WorkerExec(w) \/ WorkerWrite(w) \/ WorkerDies(w)
    <3>1. inq'[w] = inq[w] \/ inq'[w] = <<>>
      BY <1>0, <2>3 DEF WorkerExec, WorkerWrite, WorkerDies
    <3> QED BY <2>1, <3>1
  <2> QED BY <1>2, <2>2, <2>3 DEF WorkerMoves
<1>3. CASE UNCHANGED <<parent, links>>
  BY <1>3 DEF parent, links
<1> QED BY <1>1, <1>2, <1>3, NextSplit

\* Only a fault makes a process fall.
LEMMA FallenStep ==
    ASSUME TypeOK, ProcessesHeld, ShutdownGoes, [Next]_vars
    PROVE  \/ Fallen' \subseteq Fallen
           \/ \E w \in Worker : WorkerDies(w) /\ Fallen' \subseteq Fallen \cup {w}
<1> USE DEF Fallen
<1>0. /\ inq \in [Worker -> Seq(Message)] /\ at \in Worker /\ slot \in [Worker -> BOOLEAN]
      /\ proc \in [Worker -> Live \cup {"none", "dead"}]
  BY DEF TypeOK
<1>1. CASE ParentMoves
  <2>1. CASE \/ \E n \in 0 .. MaxSeeds : Submit(n)
             \/ SendTask \/ SendFails \/ AllSent
             \/ \E w \in Worker : RecvOk(w) \/ RecvErr(w) \/ RecvFails(w)
             \/ AllReceived \/ ThreadPath \/ DropPool
    <3>1. UNCHANGED <<proc, slot>> /\ pc' # "handshake"
      BY <2>1 DEF Submit, SendTask, SendFails, AllSent, RecvOk, RecvErr, RecvFails, Waiting,
         AllReceived, ThreadPath, DropPool, GiveUp, links
    <3> QED BY <3>1
  <2>2. CASE WriteShutdown \/ Reap
    <3>1. /\ pc' # "handshake" /\ \A w \in Worker : slot'[w] => slot[w]
          /\ \A w \in Worker : proc'[w] = "dead" => proc[w] = "dead"
      BY <1>0, <2>2 DEF WriteShutdown, Reap
    <3> QED BY <3>1
  <2>3. CASE Spawn
    <3>1. proc'[at] = "read" /\ UNCHANGED <<slot, at>> /\ \A w \in Worker \ {at} : proc'[w] = proc[w]
      BY <1>0, <2>3 DEF Spawn
    <3> QED BY <3>1
  <2>4. CASE Handshake
    <3>1. /\ pc = "handshake" /\ pc' # "handshake" /\ UNCHANGED proc
          /\ \A w \in Worker \ {at} : slot'[w] = slot[w]
      BY <1>0, <2>4 DEF Handshake, GiveUp
    <3> QED BY <3>1
  <2>5. CASE SpawnFails
    <3>1. /\ pc' # "handshake" /\ \A w \in Worker : slot'[w] => slot[w]
          /\ \A w \in Worker : proc'[w] = "dead" => proc[w] = "dead"
      BY <1>0, <2>5 DEF SpawnFails, GiveUp
    <3> QED BY <3>1
  <2> QED BY <1>1, <2>1, <2>2, <2>3, <2>4, <2>5 DEF ParentMoves, ParentStep
<1>2. ASSUME NEW w \in Worker, WorkerMoves(w)
      PROVE  \/ Fallen' \subseteq Fallen
             \/ WorkerDies(w) /\ Fallen' \subseteq Fallen \cup {w}
  <2>1. UNCHANGED <<pc, at, slot>> /\ \A v \in Worker \ {w} : proc'[v] = proc[v]
    BY <1>2, WorkerStepLocal DEF parent
  <2>2. CASE WorkerRead(w)
    <3>1. 1 \in 1 .. Len(inq[w]) /\ Head(inq[w]) = inq[w][1]
      BY <1>0, <2>2, TailFacts DEF WorkerRead
    <3>2. proc'[w] = "dead" => inq[w][1].kind \notin {"ping", "exec"}
      BY <1>0, <2>2, <3>1 DEF WorkerRead, AfterRead
    <3>3. proc'[w] = "dead" => pc = "reap" /\ ~slot[w]
      BY <3>1, <3>2 DEF ShutdownGoes
    <3> QED BY <2>1, <3>3
  <2>3. CASE WorkerExec(w) \/ WorkerWrite(w)
    <3>1. proc'[w] # "dead"
      BY <1>0, <2>3 DEF WorkerExec, WorkerWrite
    <3> QED BY <2>1, <3>1
  <2>4. CASE WorkerDies(w)
    BY <2>1, <2>4
  <2> QED BY <1>2, <2>2, <2>3, <2>4 DEF WorkerMoves
<1>3. CASE UNCHANGED <<parent, links>>
  BY <1>3 DEF parent, links
<1> QED BY <1>1, <1>2, <1>3, NextSplit

\* What the fault of a failed creation pays for: the workers dropped with it.
LEMMA DroppedAreFew ==
    ASSUME TypeOK, SpawnFails
    PROVE  \E l \in Nat : l <= N /\ strays' + zombies' = strays + zombies + l
<1> DEFINE A == {w \in Dropped : Alive(w)}
           D == {w \in Dropped : proc[w] = "dead"}
<1>1. A \subseteq Worker /\ D \subseteq Worker /\ A \cap D = {}
  BY DroppedWorkers DEF Alive, Live
<1>2. IsFiniteSet(A) /\ IsFiniteSet(D)
  BY <1>1, WorkersFinite, FS_Subset
<1>3. Cardinality(A \cup D) = Cardinality(D) + Cardinality(A)
  BY <1>1, <1>2, DisjointSum
<1>4. Cardinality(A \cup D) <= N /\ Cardinality(A) \in Nat /\ Cardinality(D) \in Nat
  <2>1. A \cup D \in SUBSET Worker
    BY <1>1
  <2> QED BY <2>1, <1>2, WorkersFinite, FS_Subset, FS_CardinalityType
<1>5. strays' = strays + Cardinality(A) /\ zombies' = zombies + Cardinality(D)
  BY DEF SpawnFails
<1>6. strays \in Nat /\ zombies \in Nat
  BY DEF TypeOK
<1> HIDE DEF A, D
<1>7. PICK l \in Nat : l = Cardinality(D) + Cardinality(A)
  BY <1>4
<1>8. l <= N /\ strays' + zombies' = strays + zombies + l
  BY <1>3, <1>4, <1>5, <1>6, <1>7
<1> QED BY <1>8

LEMMA ShareOfFaults ==
    /\ \A a, b \in Nat : a <= b => N * a <= N * b
    /\ \A a \in Nat : N * a \in Nat /\ N * (a + 1) = N * a + N
<1>1. \A a \in Nat : N * a \in Nat /\ N * (a + 1) = N * a + N
  OBVIOUS
<1>2. ASSUME NEW a \in Nat, NEW b \in Nat, a <= b
      PROVE  N * a <= N * b
  <2>1. PICK d \in Nat : b = a + d
    <3>1. b - a \in Nat /\ b = a + (b - a)
      BY <1>2
    <3> QED BY <3>1
  <2>2. N * b = N * a + N * d /\ N * d \in Nat
    BY <2>1
  <2> QED BY <2>2
<1> QED BY <1>1, <1>2

LEMMA FallenFinite ==
    /\ IsFiniteSet(Fallen) /\ Cardinality(Fallen) \in Nat
    /\ IsFiniteSet(Fallen') /\ Cardinality(Fallen') \in Nat
<1>1. Fallen \in SUBSET Worker /\ Fallen' \in SUBSET Worker
  BY DEF Fallen
<1> QED BY <1>1, WorkersFinite, FS_Subset, FS_CardinalityType

LEMMA LossesStep ==
    ASSUME TypeOK, TypeOK', ProcessesHeld, ShutdownGoes, Losses, [Next]_vars
    PROVE  Losses'
<1>0. PICK c \in Nat, d \in Nat : c = Cardinality(Fallen) /\ d = Cardinality(Fallen')
  BY FallenFinite
<1>1. /\ strays \in Nat /\ zombies \in Nat /\ faults \in Nat
      /\ strays' \in Nat /\ zombies' \in Nat /\ faults' \in Nat
      /\ strays + zombies + N * c <= N * faults
  BY <1>0 DEF TypeOK, Losses
<1>2. SUFFICES strays' + zombies' + N * d <= N * faults'
  BY <1>0 DEF Losses
<1> DEFINE s == strays + zombies
<1>6. PICK p, q, r, t \in Nat : p = N * c /\ q = N * d /\ r = N * faults /\ t = N * faults'
  BY <1>1, ShareOfFaults
<1>7. s \in Nat /\ s + p <= r
  BY <1>1, <1>6
<1>8. SUFFICES strays' + zombies' + q <= t
  BY <1>6
<1> HIDE DEF s
<1>3. CASE SpawnFails
  <2>1. PICK l \in Nat : l <= N /\ strays' + zombies' = s + l
    BY <1>3, DroppedAreFew DEF s
  <2>2. Fallen' \subseteq Fallen /\ (pc = "handshake" => Fallen' \subseteq Fallen \ {at} /\ at \in Fallen)
    <3>1. /\ at \in Worker /\ at \in Dropped
          /\ pc' # "handshake" /\ \A w \in Worker : slot'[w] => slot[w] /\ w \notin Dropped
          /\ \A w \in Worker : proc'[w] = "dead" => proc[w] = "dead"
      BY <1>3 DEF SpawnFails, GiveUp, TypeOK, Dropped
    <3>2. pc = "handshake" => proc[at] = "dead"
      BY <1>3 DEF SpawnFails, ProcessesHeld, TypeOK, Alive
    <3> QED BY <3>1, <3>2 DEF Fallen
  <2>3. CASE pc = "spawn"
    <3>1. faults' = faults + 1
      BY <1>3, <2>3 DEF SpawnFails
    <3>2. d <= c
      BY <1>0, <2>2, FallenFinite, FS_Subset
    <3>3. q <= p /\ t = r + N
      BY <1>1, <1>6, <3>1, <3>2, ShareOfFaults
    <3> QED BY <1>7, <2>1, <3>3
  <2>4. CASE pc = "handshake"
    <3>1. faults' = faults
      BY <1>3, <2>4 DEF SpawnFails
    <3>2. d + 1 <= c
      <4>1. Cardinality(Fallen \ {at}) = c - 1 /\ IsFiniteSet(Fallen \ {at})
        BY <1>0, <2>2, <2>4, FallenFinite, FS_RemoveElement
      <4>2. d <= Cardinality(Fallen \ {at})
        BY <1>0, <2>2, <2>4, <4>1, FS_Subset
      <4> QED BY <4>1, <4>2
    <3>3. q + N <= p /\ t = r
      BY <1>6, <3>1, <3>2, ShareOfFaults
    <3> QED BY <1>7, <2>1, <3>3
  <2> QED BY <1>3, <2>3, <2>4 DEF SpawnFails
<1>4. CASE \E w \in Worker : WorkerDies(w) /\ Fallen' \subseteq Fallen \cup {w}
  <2>1. PICK w \in Worker : WorkerDies(w) /\ Fallen' \subseteq Fallen \cup {w}
    BY <1>4
  <2>2. faults' = faults + 1 /\ UNCHANGED <<strays, zombies>>
    BY <2>1 DEF WorkerDies
  <2>3. d <= c + 1
    <3>1. IsFiniteSet(Fallen \cup {w}) /\ Cardinality(Fallen \cup {w}) <= c + 1
      <4>1. /\ IsFiniteSet(Fallen \cup {w})
            /\ Cardinality(Fallen \cup {w}) = c \/ Cardinality(Fallen \cup {w}) = c + 1
        BY <1>0, FallenFinite, FS_AddElement
      <4> QED BY <4>1
    <3>2. d <= Cardinality(Fallen \cup {w}) /\ Cardinality(Fallen \cup {w}) \in Nat
      BY <1>0, <2>1, <3>1, FS_Subset, FS_CardinalityType
    <3> QED BY <3>1, <3>2
  <2>4. q <= p + N /\ t = r + N
    <3>1. N * d <= N * (c + 1) /\ N * (c + 1) = N * c + N
      BY <2>3, ShareOfFaults
    <3> QED BY <1>1, <1>6, <2>2, <3>1, ShareOfFaults
  <2>5. strays' + zombies' = s
    BY <2>2 DEF s
  <2> QED BY <1>7, <2>4, <2>5
<1>5. CASE ~SpawnFails /\ Fallen' \subseteq Fallen
  <2>1. faults <= faults' /\ strays' + zombies' = s
    <3> USE DEF s
    <3>1. CASE StrayEnds
      BY <1>1, <3>1 DEF StrayEnds
    <3>2. CASE UNCHANGED <<faults, strays, zombies>>
      BY <1>1, <3>2
    <3>3. CASE \E w \in Worker : WorkerDies(w)
      BY <1>1, <3>3 DEF WorkerDies
    <3>4. StrayEnds \/ UNCHANGED <<faults, strays, zombies>> \/ \E w \in Worker : WorkerDies(w)
      BY <1>5 DEF Next, ParentStep, WorkerStep, Submit, SendTask, SendFails, AllSent, RecvOk,
         RecvErr, RecvFails, AllReceived, ThreadPath, WriteShutdown, Reap, Spawn, Handshake,
         DropPool, WorkerRead, WorkerExec, WorkerWrite, Ended, vars
    <3> QED BY <3>1, <3>2, <3>3, <3>4
  <2>2. d <= c
    BY <1>0, <1>5, FallenFinite, FS_Subset
  <2>3. q <= p /\ r <= t
    BY <1>1, <1>6, <2>1, <2>2, ShareOfFaults
  <2> QED BY <1>7, <2>1, <2>3
<1> QED BY <1>3, <1>4, <1>5, FallenStep

\* No process is lost without a fault: what the pool holds is in a slot between two
\* batches and waited for when the pool is dropped, and the processes it dropped with
\* nobody waiting are at most N for each fault (respawn_worker, spawn, Drop).
THEOREM OnlyFaultsLoseCorrect == Spec => []OnlyFaultsLose
<1>1. Init => ShutdownGoes /\ Losses
  <2> SUFFICES ASSUME Init
               PROVE  ShutdownGoes /\ Losses
    OBVIOUS
  <2>1. ShutdownGoes
    BY DEF Init, ShutdownGoes
  <2>2. Fallen = {} /\ strays = 0 /\ zombies = 0 /\ faults = 0
    BY DEF Init, Fallen
  <2>3. Cardinality(Fallen) = 0
    BY <2>2, FS_EmptySet
  <2>4. Losses
    BY <2>2, <2>3 DEF Losses
  <2> QED BY <2>1, <2>4
<1>2. TypeOK /\ TypeOK' /\ ProcessesHeld /\ ShutdownGoes /\ Losses /\ [Next]_vars
      => ShutdownGoes' /\ Losses'
  BY ShutdownGoesStep, LossesStep
<1>3. TypeOK /\ ProcessesHeld /\ Losses => OnlyFaultsLose
  <2> SUFFICES ASSUME TypeOK, ProcessesHeld, Losses
               PROVE  OnlyFaultsLose
    OBVIOUS
  <2>1. PICK c \in Nat : c = Cardinality(Fallen)
    BY FallenFinite
  <2>2. strays + zombies <= N * faults
    <3>1. PICK p, r \in Nat : p = N * c /\ r = N * faults
      BY <2>1, ShareOfFaults DEF TypeOK
    <3>2. strays + zombies + p <= r
      BY <2>1, <3>1 DEF Losses
    <3>3. strays \in Nat /\ zombies \in Nat
      BY DEF TypeOK
    <3>4. \A x, y \in Nat : x + y + p <= r => x + y <= r
      OBVIOUS
    <3>5. strays + zombies <= r
      BY <3>2, <3>3, <3>4
    <3> QED BY <3>1, <3>5
  <2> QED BY <2>2 DEF ProcessesHeld, Held, OnlyFaultsLose
<1> QED BY <1>1, <1>2, <1>3, TypeCorrect, ProcessesCorrect, PTL DEF Spec

-----------------------------------------------------------------------------
(* What a worker owes and what is in transit.                              *)

\* The messages in transit are those in the two pipes and the one at work.
LEMMA TransitSum ==
    ASSUME NEW w \in Worker, NEW a \in Nat, NEW b \in Nat,
           a = Len(inq[w]), b = Len(outq[w])
    PROVE  /\ InTransit(w) \in Nat
           /\ Working(w) => InTransit(w) = a + b + 1
           /\ ~Working(w) => InTransit(w) = a + b
<1>1. InTransit(w) = a + b + (IF Working(w) THEN 1 ELSE 0)
  BY DEF InTransit, Working
<1>2. a + b + 1 \in Nat /\ a + b + 0 = a + b /\ a + b \in Nat
  BY SumsInNat
<1> QED BY <1>1, <1>2

LEMMA TransitSumNext ==
    ASSUME NEW w \in Worker, NEW a \in Nat, NEW b \in Nat,
           a = Len(inq'[w]), b = Len(outq'[w])
    PROVE  /\ InTransit(w)' \in Nat
           /\ Working(w)' => InTransit(w)' = a + b + 1
           /\ ~Working(w)' => InTransit(w)' = a + b
<1>1. InTransit(w)' = a + b + (IF Working(w)' THEN 1 ELSE 0)
  BY DEF InTransit, Working
<1>2. a + b + 1 \in Nat /\ a + b + 0 = a + b /\ a + b \in Nat
  BY SumsInNat
<1> QED BY <1>1, <1>2

\* One more command, or one reply less.
LEMMA TransitGrows ==
    ASSUME NEW w \in Worker, Len(inq[w]) \in Nat, Len(outq[w]) \in Nat,
           Len(inq'[w]) = Len(inq[w]) + 1, outq'[w] = outq[w], Working(w)' = Working(w)
    PROVE  InTransit(w)' = InTransit(w) + 1
<1>1. PICK a \in Nat : a = Len(inq[w])
  OBVIOUS
<1>2. PICK b \in Nat : b = Len(outq[w])
  OBVIOUS
<1>3. PICK c \in Nat : c = a + 1
  OBVIOUS
<1>4. c = Len(inq'[w]) /\ b = Len(outq'[w])
  BY <1>1, <1>2, <1>3
<1>5. (Working(w) => InTransit(w) = a + b + 1) /\ (~Working(w) => InTransit(w) = a + b)
  BY <1>1, <1>2, TransitSum
<1>6. (Working(w)' => InTransit(w)' = c + b + 1) /\ (~Working(w)' => InTransit(w)' = c + b)
  BY <1>4, TransitSumNext
<1>7. c + b = (a + b) + 1 /\ c + b + 1 = (a + b + 1) + 1
  BY <1>3, SumsOfSuccessor
<1> QED BY <1>5, <1>6, <1>7

LEMMA TransitShrinks ==
    ASSUME NEW w \in Worker, Len(inq[w]) \in Nat, Len(outq[w]) \in Nat \ {0},
           Len(outq'[w]) = Len(outq[w]) - 1, inq'[w] = inq[w], Working(w)' = Working(w)
    PROVE  InTransit(w)' = InTransit(w) - 1
<1>1. PICK a \in Nat : a = Len(inq[w])
  OBVIOUS
<1>2. PICK b \in Nat : b = Len(outq[w]) /\ b # 0
  OBVIOUS
<1>3. PICK c \in Nat : c = b - 1
  BY <1>2, SumsOfPredecessor
<1>4. c = Len(outq'[w]) /\ a = Len(inq'[w])
  BY <1>1, <1>2, <1>3
<1>5. (Working(w) => InTransit(w) = a + b + 1) /\ (~Working(w) => InTransit(w) = a + b)
  BY <1>1, <1>2, TransitSum
<1>6. (Working(w)' => InTransit(w)' = a + c + 1) /\ (~Working(w)' => InTransit(w)' = a + c)
  BY <1>4, TransitSumNext
<1>7. a + c = (a + b) - 1 /\ a + c + 1 = (a + b + 1) - 1
  BY <1>2, <1>3, SumsOfPredecessor
<1> QED BY <1>5, <1>6, <1>7

\* A worker cannot owe more than what was sent and not collected.
LEMMA OwedFinite ==
    ASSUME TypeOK, NEW w \in Worker
    PROVE  /\ IsFiniteSet(Owed(w)) /\ Cardinality(Owed(w)) \in Nat
           /\ InTransit(w) \in Nat
<1>1. IsFiniteSet(Len(results) + 1 .. Len(assign))
  BY FS_Interval DEF TypeOK
<1>2. IsFiniteSet(Owed(w))
  BY <1>1, FS_Subset DEF Owed
<1>3. Cardinality(Owed(w)) \in Nat
  BY <1>2, FS_CardinalityType
<1>4. inq[w] \in Seq(Message) /\ outq[w] \in Seq(Message)
  BY DEF TypeOK
<1>5. Len(inq[w]) \in Nat /\ Len(outq[w]) \in Nat
  BY <1>4
<1>6. InTransit(w) \in Nat
  BY <1>5, TransitSum
<1> QED BY <1>2, <1>3, <1>6

\* A step of a worker loses nothing that is in transit unless the worker ends.
LEMMA TransitKept ==
    ASSUME TypeOK, NEW w \in Worker, WorkerMoves(w), proc'[w] # "dead"
    PROVE  InTransit(w)' = InTransit(w)
<1>0. /\ inq \in [Worker -> Seq(Message)] /\ outq \in [Worker -> Seq(Message)]
      /\ proc \in [Worker -> Live \cup {"none", "dead"}] /\ cur \in [Worker -> Message]
  BY DEF TypeOK
<1>1. /\ inq[w] \in Seq(Message) /\ outq[w] \in Seq(Message)
      /\ Len(inq[w]) \in Nat /\ Len(outq[w]) \in Nat
  BY <1>0
<1>11. PICK a \in Nat : a = Len(inq[w])
  BY <1>1
<1>12. PICK b \in Nat : b = Len(outq[w])
  BY <1>1
<1>2. CASE WorkerRead(w)
  <2>1. /\ proc[w] = "read" /\ inq[w] # <<>> /\ inq'[w] = Tail(inq[w]) /\ outq'[w] = outq[w]
        /\ proc'[w] = AfterRead(Head(inq[w]))
    BY <1>0, <1>2 DEF WorkerRead
  <2>2. ~Working(w) /\ Working(w)'
    BY <2>1 DEF AfterRead, Working
  <2>3. Len(inq'[w]) = Len(inq[w]) - 1 /\ Len(inq[w]) \in Nat \ {0}
    BY <1>1, <2>1, TailFacts
  <2>4. a - 1 \in Nat /\ a - 1 = Len(inq'[w]) /\ b = Len(outq'[w])
    BY <1>11, <1>12, <2>1, <2>3
  <2>5. InTransit(w) = a + b
    BY <1>11, <1>12, <2>2, TransitSum
  <2>6. InTransit(w)' = (a - 1) + b + 1
    BY <2>2, <2>4, TransitSumNext
  <2> QED BY <2>5, <2>6
<1>3. CASE WorkerExec(w)
  <2>1. /\ proc[w] = "exec" /\ proc'[w] = "write" /\ inq'[w] = inq[w] /\ outq'[w] = outq[w]
    BY <1>0, <1>3 DEF WorkerExec
  <2> QED BY <2>1 DEF InTransit
<1>4. CASE WorkerWrite(w)
  <2>1. /\ proc[w] = "write" /\ proc'[w] \in {"stuck", "read"}
        /\ inq'[w] = inq[w] /\ outq'[w] = Append(outq[w], Reply(cur[w]))
    BY <1>0, <1>4 DEF WorkerWrite
  <2>2. Working(w) /\ ~Working(w)'
    BY <2>1 DEF Working
  <2>3. Len(outq'[w]) = Len(outq[w]) + 1
    <3>1. Reply(cur[w]) \in Message
      BY <1>0, MessageTypes
    <3>2. PICK m \in Message : m = Reply(cur[w])
      BY <3>1
    <3> QED BY <1>1, <2>1, <3>2, AppendFacts
  <2>4. b + 1 \in Nat /\ b + 1 = Len(outq'[w]) /\ a = Len(inq'[w])
    BY <1>11, <1>12, <2>1, <2>3
  <2>5. InTransit(w) = a + b + 1
    BY <1>11, <1>12, <2>2, TransitSum
  <2>6. InTransit(w)' = a + (b + 1)
    BY <2>2, <2>4, TransitSumNext
  <2> QED BY <2>5, <2>6
<1>5. CASE WorkerDies(w)
  BY <1>0, <1>5 DEF WorkerDies
<1> QED BY <1>2, <1>3, <1>4, <1>5 DEF WorkerMoves

\* Sending a task adds one to what its worker owes and one to its pipe.
LEMMA SendOwes ==
    ASSUME TypeOK, Phases, SendTask, NEW w \in Worker,
           Cardinality(Owed(w)) <= InTransit(w)
    PROVE  Cardinality(Owed(w)') <= InTransit(w)'
<1> DEFINE n == Len(assign) + 1
<1>1. PICK t \in Worker : t = Turn
  BY TurnInWorker
<1>2. /\ assign \in Seq(Worker) /\ Len(assign) \in Nat /\ results = <<>>
      /\ assign' = Append(assign, t) /\ UNCHANGED <<results, outq, proc>>
  BY <1>1 DEF SendTask, TypeOK, Phases
<1>3. /\ Len(assign') = n /\ assign'[n] = t
      /\ \A i \in 1 .. Len(assign) : assign'[i] = assign[i]
  BY <1>2, AppendFacts
<1>4. Len(results) = 0 /\ Len(results') = 0
  BY <1>2
<1>5. n \notin Owed(w) /\ n \in Nat
  BY <1>2, <1>4 DEF Owed
<1>6. CASE w = t
  <2>1. Owed(w)' = Owed(w) \cup {n}
    BY <1>2, <1>3, <1>4, <1>6 DEF Owed
  <2>2. Cardinality(Owed(w)') = Cardinality(Owed(w)) + 1
    BY <1>5, <2>1, OwedFinite, FS_AddElement
  <2>3. InTransit(w)' = InTransit(w) + 1
    <3>1. /\ inq \in [Worker -> Seq(Message)] /\ inq[w] \in Seq(Message) /\ outq[w] \in Seq(Message)
          /\ batch \in Nat
      BY DEF TypeOK
    <3>2. Task(batch, n) \in Message
      BY <1>5, <3>1, MessageTypes
    <3>3. inq'[w] = Append(inq[w], Task(batch, n))
      BY <1>1, <1>6, <3>1 DEF SendTask
    <3>4. Len(inq'[w]) = Len(inq[w]) + 1
      BY <3>1, <3>2, <3>3, AppendFacts
    <3>5. Len(inq[w]) \in Nat /\ Len(outq[w]) \in Nat
      BY <3>1
    <3> QED BY <1>2, <3>4, <3>5, TransitGrows DEF Working
  <2> QED BY <2>2, <2>3, OwedFinite
<1>7. CASE w # t
  <2>1. Owed(w)' = Owed(w)
    BY <1>2, <1>3, <1>4, <1>7 DEF Owed
  <2>2. inq'[w] = inq[w]
    BY <1>1, <1>7 DEF SendTask, TypeOK
  <2>3. InTransit(w)' = InTransit(w)
    BY <1>2, <2>2 DEF InTransit
  <2> QED BY <2>1, <2>3
<1> QED BY <1>6, <1>7

\* Collecting a result takes one from what its worker owes and one from its pipe.
LEMMA RecvPays ==
    ASSUME TypeOK, Phases, NEW v \in Worker, RecvOk(v), NEW w \in Worker,
           Cardinality(Owed(w)) <= InTransit(w)
    PROVE  Cardinality(Owed(w)') <= InTransit(w)'
<1> DEFINE n == Len(results) + 1
<1>1. /\ pc = "recv" /\ Len(results) < size /\ v = assign[n]
      /\ UNCHANGED <<assign, inq, proc>>
      /\ outq[v] # <<>> /\ outq' = [outq EXCEPT ![v] = Tail(@)]
  BY DEF RecvOk, Waiting
<1>2. Len(results) \in Nat /\ Len(assign) \in Nat /\ n \in 1 .. Len(assign)
  BY <1>1 DEF Phases, TypeOK
<1>3. Len(results') = n
  <2> DEFINE r == <<Head(outq[v]).batch, Head(outq[v]).idx>>
  <2>1. outq[v] \in Seq(Message) /\ results \in Seq(Nat \X Nat)
    BY DEF TypeOK
  <2>2. Head(outq[v]) \in Message
    BY <1>1, <2>1, TailFacts
  <2>3. r \in Nat \X Nat
    BY <2>2 DEF Message
  <2>4. results' = Append(results, r)
    BY DEF RecvOk
  <2> HIDE DEF r
  <2> QED BY <2>1, <2>3, <2>4, AppendFacts
<1>4. /\ outq \in [Worker -> Seq(Message)] /\ inq[w] \in Seq(Message)
      /\ Len(inq[w]) \in Nat /\ Len(outq[w]) \in Nat
  BY DEF TypeOK
<1>5. CASE w = v
  <2>1. Owed(w)' = Owed(w) \ {n} /\ n \in Owed(w)
    BY <1>1, <1>2, <1>3, <1>5 DEF Owed
  <2>2. Cardinality(Owed(w)') = Cardinality(Owed(w)) - 1
    <3>1. PICK S : S = Owed(w)
      OBVIOUS
    <3>2. IsFiniteSet(S) /\ n \in S
      BY <2>1, <3>1, OwedFinite
    <3>3. Cardinality(S \ {n}) = Cardinality(S) - 1
      BY <3>2, FS_RemoveElement
    <3> QED BY <2>1, <3>1, <3>3
  <2>3. Len(outq'[w]) = Len(outq[w]) - 1
    BY <1>1, <1>4, <1>5, TailFacts
  <2>4. InTransit(w)' = InTransit(w) - 1
    <3>1. outq[w] \in Seq(Message) /\ outq[w] # <<>>
      BY <1>1, <1>4, <1>5
    <3>2. Len(outq[w]) \in Nat \ {0}
      BY <3>1, TailFacts
    <3> QED BY <1>1, <1>4, <2>3, <3>2, TransitShrinks DEF Working
  <2> QED BY <2>2, <2>4, OwedFinite
<1>6. CASE w # v
  <2>1. Owed(w)' = Owed(w)
    BY <1>1, <1>2, <1>3, <1>6 DEF Owed
  <2>2. InTransit(w)' = InTransit(w)
    BY <1>1, <1>4, <1>6 DEF InTransit
  <2> QED BY <2>1, <2>2
<1> QED BY <1>5, <1>6

\* Where nothing of the batch and of the pipes moves, no debt does.
LEMMA DebtsStay ==
    ASSUME UNCHANGED <<assign, results, proc, inq, outq>>
    PROVE  \A w \in Worker : Owed(w)' = Owed(w) /\ InTransit(w)' = InTransit(w)
  BY DEF Owed, InTransit

\* A batch starts without debts.
LEMMA NoDebts ==
    ASSUME TypeOK', assign' = <<>>, results' = <<>>
    PROVE  DebtsInTransit'
<1> SUFFICES ASSUME NEW w \in Worker
             PROVE  Cardinality(Owed(w)') <= InTransit(w)'
  BY DEF DebtsInTransit
<1>1. Owed(w)' = {}
  BY DEF Owed
<1>2. Cardinality(Owed(w)') = 0
  BY <1>1, FS_EmptySet
<1>3. inq'[w] \in Seq(Message) /\ outq'[w] \in Seq(Message)
  BY DEF TypeOK
<1>4. Len(inq'[w]) \in Nat /\ Len(outq'[w]) \in Nat
  BY <1>3
<1>5. InTransit(w)' \in Nat
  BY <1>4, TransitSumNext
<1> QED BY <1>2, <1>5

LEMMA DebtsStep ==
    ASSUME TypeOK, TypeOK', NewPool, Phases, DebtsInTransit, [Next]_vars
    PROVE  DebtsInTransit'
<1>1. CASE ParentMoves
  <2>1. ASSUME NEW n \in 0 .. MaxSeeds, Submit(n)
        PROVE  DebtsInTransit'
    BY <2>1, NoDebts DEF Submit
  <2>2. CASE SendTask
    <3>1. pc = "send" /\ UNCHANGED <<pc, proc>>
      BY <2>2 DEF SendTask
    <3> QED BY <2>2, <3>1, SendOwes DEF DebtsInTransit
  <2>3. CASE AllSent
    <3>1. pc = "send" /\ UNCHANGED <<assign, results, proc, inq, outq>>
      BY <2>3 DEF AllSent, links
    <3> QED BY <3>1, DebtsStay DEF DebtsInTransit
  <2>4. ASSUME NEW v \in Worker, RecvOk(v)
        PROVE  DebtsInTransit'
    <3>1. pc = "recv" /\ UNCHANGED <<pc, proc>>
      BY <2>4 DEF RecvOk, Waiting
    <3> QED BY <2>4, <3>1, RecvPays DEF DebtsInTransit
  <2>5. CASE Handshake
    <3>1. CASE goal = "new"
      <4>1. assign' = <<>> /\ results' = <<>>
        BY <2>5, <3>1 DEF Handshake, NewPool
      <4> QED BY <4>1, NoDebts
    <3>2. CASE goal = "respawn"
      <4>1. pc' = "thread"
        BY <2>5, <3>2 DEF Handshake, GiveUp
      <4> QED BY <4>1 DEF DebtsInTransit
    <3> QED BY <2>5, <3>1, <3>2 DEF Handshake
  <2>6. CASE \/ SendFails \/ (\E w \in Worker : RecvErr(w) \/ RecvFails(w)) \/ AllReceived
             \/ ThreadPath \/ WriteShutdown \/ Reap \/ Spawn \/ SpawnFails \/ DropPool
    <3>1. pc' \notin {"send", "recv"}
      BY <2>6 DEF SendFails, RecvErr, RecvFails, AllReceived, ThreadPath, WriteShutdown, Reap,
         Spawn, SpawnFails, DropPool, GiveUp
    <3> QED BY <3>1 DEF DebtsInTransit
  <2> QED BY <1>1, <2>1, <2>2, <2>3, <2>4, <2>5, <2>6 DEF ParentMoves, ParentStep
<1>2. ASSUME NEW v \in Worker, WorkerMoves(v)
      PROVE  DebtsInTransit'
  <2>1. UNCHANGED <<pc, assign, results>>
    BY <1>2, WorkerStepLocal DEF parent
  <2> SUFFICES ASSUME pc \in {"send", "recv"}, NEW w \in Worker, proc'[w] # "dead"
               PROVE  Cardinality(Owed(w)') <= InTransit(w)'
    BY <2>1 DEF DebtsInTransit
  <2>2. Owed(w)' = Owed(w)
    BY <2>1 DEF Owed
  <2>3. CASE w = v
    <3>1. proc[w] # "dead"
      BY <1>2, <2>3 DEF WorkerMoves, WorkerRead, WorkerExec, WorkerWrite, WorkerDies, Alive, Live
    <3>2. InTransit(w)' = InTransit(w)
      BY <1>2, <2>3, TransitKept
    <3> QED BY <2>2, <3>1, <3>2 DEF DebtsInTransit
  <2>4. CASE w # v
    <3>1. proc'[w] = proc[w] /\ inq'[w] = inq[w] /\ outq'[w] = outq[w]
      BY <1>2, <2>4, WorkerStepLocal
    <3>2. InTransit(w)' = InTransit(w)
      BY <3>1 DEF InTransit
    <3> QED BY <2>2, <3>1, <3>2 DEF DebtsInTransit
  <2> QED BY <2>3, <2>4
<1>3. CASE UNCHANGED <<parent, links>>
  <2>1. UNCHANGED <<pc, assign, results, proc, inq, outq>>
    BY <1>3 DEF vars, parent, links
  <2> QED BY <2>1, DebtsStay DEF DebtsInTransit
<1> QED BY <1>1, <1>2, <1>3, NextSplit

\* A living worker owes no more than what is in transit to and from it.
THEOREM DebtsCorrect == Spec => []DebtsInTransit
<1>1. Init => DebtsInTransit
  BY DEF Init, DebtsInTransit
<1>2. TypeOK /\ TypeOK' /\ OrderInv /\ DebtsInTransit /\ [Next]_vars => DebtsInTransit'
  BY DebtsStep DEF OrderInv
<1> QED BY <1>1, <1>2, TypeCorrect, OrderCorrect, PTL DEF Spec

\* The recv of submit_batch never waits for a reply that nobody owes: while it
\* waits for a living worker something is in transit to or from that worker.
THEOREM NoOrphanWaitCorrect == Spec => []NoOrphanWait
<1>1. TypeOK /\ OrderInv /\ DebtsInTransit => NoOrphanWait
  <2> SUFFICES ASSUME TypeOK, OrderInv, DebtsInTransit, NEW w \in Worker, Waiting(w),
                      proc[w] # "dead"
               PROVE  InTransit(w) > 0
    BY DEF NoOrphanWait
  <2>1. /\ pc = "recv" /\ Len(results) < size /\ w = assign[Len(results) + 1]
        /\ Len(assign) = size /\ Len(results) \in Nat /\ size \in Nat
    BY DEF Waiting, OrderInv, Phases, TypeOK
  <2>2. Len(results) + 1 \in Owed(w)
    BY <2>1 DEF Owed
  <2>3. Cardinality(Owed(w)) # 0
    BY <2>2, OwedFinite, FS_EmptySet
  <2>4. Cardinality(Owed(w)) <= InTransit(w)
    BY <2>1 DEF DebtsInTransit
  <2> QED BY <2>3, <2>4, OwedFinite
<1> QED BY <1>1, TypeCorrect, OrderCorrect, DebtsCorrect, PTL

-----------------------------------------------------------------------------
(* The pool and its promise: the safety half of KeepsPromise.              *)

\* A drop answers nobody, and a batch under way has no outcome yet.
Answering ==
    /\ goal = "drop" => pc \in {"shutdown", "reap", "closed"}
    /\ pc \notin {"idle", "closed"} /\ goal # "drop" => outcome = "none"

\* A worker that waits for its next command, and one that serves a batch, in a
\* pool in which nothing fails.
Ready(w) == slot[w] /\ proc[w] = "read" /\ inq[w] = <<>> /\ outq[w] = <<>>
Serving(w) ==
    /\ slot[w] /\ proc[w] \in {"read", "exec", "write"}
    /\ \A i \in 1 .. Len(outq[w]) : outq[w][i].kind = "ok"
    /\ proc[w] = "write" => cur[w].kind = "ok"
NothingFails ==
    /\ clean
    /\ exists /\ pc \in {"idle", "thread"} => \A w \in Worker : Ready(w)
    /\ pc \in {"spawn", "handshake"} =>
        goal = "new" /\ \A w \in Worker : w < at => Ready(w)
    /\ pc = "handshake" => proc[at] # "dead"
    /\ pc \in {"send", "recv"} => \A w \in Worker : Serving(w)
    /\ pc \in {"shutdown", "reap"} => goal = "drop"

LEMMA AnsweringStep ==
    ASSUME TypeOK, ProcessesHeld, Answering, [Next]_vars
    PROVE  Answering'
<1> USE DEF Answering
<1>1. CASE ParentMoves
  <2>1. ASSUME NEW n \in 0 .. MaxSeeds, Submit(n)
        PROVE  Answering'
    BY <2>1 DEF Submit
  <2>2. CASE \/ SendTask \/ SendFails \/ AllSent
             \/ \E w \in Worker : RecvOk(w) \/ RecvErr(w) \/ RecvFails(w)
             \/ AllReceived \/ ThreadPath
    BY <2>2 DEF SendTask, SendFails, AllSent, RecvOk, RecvErr, RecvFails, Waiting, AllReceived,
       ThreadPath, GiveUp
  <2>3. CASE WriteShutdown \/ Reap \/ DropPool
    BY <2>3 DEF WriteShutdown, Reap, DropPool
  <2>4. CASE Spawn \/ Handshake \/ SpawnFails
    BY <2>4 DEF Spawn, Handshake, SpawnFails, GiveUp
  <2> QED BY <1>1, <2>1, <2>2, <2>3, <2>4 DEF ParentMoves, ParentStep
<1>2. ASSUME NEW w \in Worker, WorkerMoves(w)
      PROVE  Answering'
  BY <1>2, WorkerStepLocal DEF parent
<1>3. CASE UNCHANGED <<parent, links>>
  BY <1>3 DEF vars, parent
<1> QED BY <1>1, <1>2, <1>3, NextSplit

THEOREM AnsweringCorrect == Spec => []Answering
<1>1. Init => Answering
  BY DEF Init, Answering
<1>2. TypeOK /\ ProcessesHeld /\ Answering /\ [Next]_vars => Answering'
  BY AnsweringStep
<1> QED BY <1>1, <1>2, TypeCorrect, ProcessesCorrect, PTL DEF Spec

\* What the caller sees of a state.
Busy == pc \notin {"idle", "closed"} /\ goal # "drop"
Answered ==
    CASE outcome = "native" -> results
      [] outcome = "fallback" -> [i \in 1 .. size |-> <<batch, i>>]
      [] OTHER -> <<>>

Failed == outcome = "failed"

LEMMA ServiceDefs ==
    /\ Service!vars = <<batch, size, Busy, Answered, Failed>>
    /\ Service!vars' = <<batch', size', Busy', Answered', Failed'>>
    /\ Service!Init <=> /\ batch = 0 /\ size = 0 /\ Busy = FALSE
                        /\ Answered = <<>> /\ Failed = FALSE
    /\ \A n : Service!Submit(n) <=>
                /\ ~Busy /\ batch < MaxBatches /\ batch' = batch + 1 /\ size' = n
                /\ Busy' = TRUE /\ Answered' = <<>> /\ Failed' = FALSE
    /\ Service!Answer <=>
                /\ Busy /\ Busy' = FALSE
                /\ \/ Answered' = [i \in 1 .. size |-> <<batch, i>>] /\ Failed' = FALSE
                   \/ "err" \in Fates /\ Answered' = <<>> /\ Failed' = TRUE
                /\ UNCHANGED <<batch, size>>
    /\ Service!Next <=> (\E n \in 0 .. MaxSeeds : Service!Submit(n)) \/ Service!Answer
  BY DEF Service!vars, Service!Init, Service!Submit, Service!Answer, Service!Next, Service!Own,
     Busy, Answered, Failed

\* Nothing but the outcome, the results and the batch shows in the answer.
LEMMA AnswerStays ==
    ASSUME UNCHANGED <<outcome, batch, size>>, outcome # "native" \/ UNCHANGED results
    PROVE  Answered' = Answered /\ Failed' = Failed
  BY DEF Answered, Failed

\* Each step of the pool is a step of the service or leaves it as it was, as long as
\* the batch at hand found the pool quiet.
LEMMA PromiseStep ==
    ASSUME TypeOK, OrderInv, Answering, [Next]_vars, clean
    PROVE  Service!Next \/ UNCHANGED Service!vars
<1>0. ASSUME UNCHANGED <<batch, size>>, Busy' = Busy, Answered' = Answered, Failed' = Failed
      PROVE  UNCHANGED Service!vars
  BY <1>0, ServiceDefs
<1>1. ASSUME NEW n \in 0 .. MaxSeeds, Submit(n)
      PROVE  Service!Submit(n)
  <2>1. ~Busy /\ Busy' = TRUE
    BY <1>1 DEF Submit, Busy, Answering
  <2>2. Answered' = <<>> /\ Failed' = FALSE
    BY <1>1 DEF Submit, Answered, Failed
  <2> QED BY <1>1, <2>1, <2>2, ServiceDefs DEF Submit
<1>2. CASE AllReceived
  <2>1. Busy /\ ~Busy' /\ UNCHANGED <<batch, size, results>> /\ outcome' = "native"
    BY <1>2 DEF AllReceived, Busy, Answering
  <2>2. Answered' = results /\ Failed' = FALSE
    BY <2>1 DEF Answered, Failed
  <2>3. results = [i \in 1 .. size |-> <<batch, i>>]
    <3>1. results \in Seq(Nat \X Nat) /\ Len(results) = size
      BY <1>2 DEF AllReceived, TypeOK
    <3>2. \A i \in DOMAIN results : results[i] = <<batch, i>>
      BY DEF OrderInv, CleanBatchInOrder
    <3>3. DOMAIN results = 1 .. size /\ results = [i \in DOMAIN results |-> results[i]]
      BY <3>1
    <3> QED BY <3>2, <3>3
  <2>4. Busy' = FALSE
    BY <2>1 DEF Busy
  <2>5. Service!Answer
    BY <2>1, <2>2, <2>3, <2>4, ServiceDefs
  <2> QED BY <2>5, ServiceDefs
<1>3. CASE ThreadPath
  <2>1. /\ Busy /\ ~Busy' /\ UNCHANGED <<batch, size>>
        /\ outcome' = "fallback" \/ ("err" \in Fates /\ outcome' = "failed")
    BY <1>3 DEF ThreadPath, Busy, Answering
  <2>2. \/ Answered' = [i \in 1 .. size |-> <<batch, i>>] /\ Failed' = FALSE
        \/ "err" \in Fates /\ Answered' = <<>> /\ Failed' = TRUE
    BY <2>1 DEF Answered, Failed
  <2>3. Busy' = FALSE
    BY <2>1 DEF Busy
  <2>4. Service!Answer
    BY <2>1, <2>2, <2>3, ServiceDefs
  <2> QED BY <2>4, ServiceDefs
<1>4. CASE \/ SendTask \/ SendFails \/ AllSent
           \/ \E w \in Worker : RecvOk(w) \/ RecvErr(w) \/ RecvFails(w)
  <2>1. /\ UNCHANGED <<batch, size, outcome>> /\ pc \in {"send", "recv"}
        /\ pc' \in {"send", "recv", "shutdown", "thread"} /\ goal' # "drop"
    BY <1>4 DEF SendTask, SendFails, AllSent, RecvOk, RecvErr, RecvFails, Waiting, GiveUp, Answering
  <2>2. Busy /\ Busy' /\ outcome = "none"
    BY <2>1 DEF Busy, Answering
  <2> QED BY <1>0, <2>1, <2>2, AnswerStays
<1>5. CASE WriteShutdown \/ Reap
  <2>1. /\ UNCHANGED <<batch, size, outcome, results, goal>>
        /\ pc \in {"shutdown", "reap"} /\ pc' \in {"shutdown", "reap", "spawn", "closed"}
        /\ pc' = "closed" => goal = "drop"
    BY <1>5 DEF WriteShutdown, Reap
  <2>2. Busy' = Busy
    BY <2>1 DEF Busy
  <2> QED BY <1>0, <2>1, <2>2, AnswerStays
<1>6. CASE Spawn \/ Handshake \/ SpawnFails
  <2>1. /\ UNCHANGED <<batch, size, outcome, results>>
        /\ pc \in {"spawn", "handshake"} /\ pc' \in {"spawn", "handshake", "send", "thread"}
        /\ goal' # "drop" /\ goal # "drop"
    BY <1>6 DEF Spawn, Handshake, SpawnFails, GiveUp, Answering
  <2>2. Busy' = Busy
    BY <2>1 DEF Busy
  <2> QED BY <1>0, <2>1, <2>2, AnswerStays
<1>7. CASE DropPool
  <2>1. UNCHANGED <<batch, size, outcome, results>> /\ ~Busy /\ ~Busy'
    BY <1>7 DEF DropPool, Busy
  <2> QED BY <1>0, <2>1, AnswerStays DEF Busy
<1>8. CASE UNCHANGED parent
  <2>1. UNCHANGED <<pc, goal, batch, size, outcome, results>>
    BY <1>8 DEF parent
  <2>2. Busy' = Busy
    BY <2>1 DEF Busy
  <2> QED BY <1>0, <2>1, <2>2, AnswerStays
<1>9. CASE ParentMoves
  <2>1. ASSUME \E n \in 0 .. MaxSeeds : Submit(n)
        PROVE  Service!Next
    BY <1>1, <2>1, ServiceDefs
  <2>2. ASSUME AllReceived \/ ThreadPath
        PROVE  Service!Next \/ UNCHANGED Service!vars
    BY <1>2, <1>3, <2>2
  <2> QED BY <1>4, <1>5, <1>6, <1>7, <1>9, <2>1, <2>2 DEF ParentMoves, ParentStep
<1>10. CASE \E w \in Worker : WorkerMoves(w)
  BY <1>8, <1>10, WorkerStepLocal
<1>11. CASE UNCHANGED <<parent, links>>
  BY <1>8, <1>11 DEF vars
<1> QED BY <1>9, <1>10, <1>11, NextSplit

\* Every batch that finds the pool quiet is answered as BatchService promises, with
\* its own results in their order, whatever fails while it runs (submit_batch and
\* the fallback to threads in host.rs): only a batch that meets the replies of an
\* earlier one can break the promise.
THEOREM QuietPoolKeepsPromise ==
    Spec => Service!Init /\ [][clean => Service!Next]_(Service!vars)
<1>1. Init => Service!Init
  <2> SUFFICES ASSUME Init
               PROVE  Service!Init
    OBVIOUS
  <2>1. batch = 0 /\ size = 0 /\ Busy = FALSE /\ Answered = <<>> /\ Failed = FALSE
    BY DEF Init, Busy, Answered, Failed
  <2> QED BY <2>1, ServiceDefs
<1>2. TypeOK /\ OrderInv /\ Answering /\ [Next]_vars => [clean => Service!Next]_(Service!vars)
  BY PromiseStep
<1> QED BY <1>1, <1>2, TypeCorrect, OrderCorrect, AnsweringCorrect, PTL DEF Spec

-----------------------------------------------------------------------------
(* A pool in which nothing fails finds itself quiet at every batch.        *)

\* What leaves a ready worker ready: it has nothing to read, and does not die.
LEMMA ReadyStays ==
    ASSUME MaxFaults = 0, TypeOK, NEW w \in Worker, WorkerMoves(w), NEW v \in Worker, Ready(v)
    PROVE  Ready(v)'
<1>1. UNCHANGED slot
  BY WorkerStepLocal DEF parent
<1>2. CASE v # w
  BY <1>1, <1>2, WorkerStepLocal DEF Ready
<1>3. CASE v = w
  BY <1>3 DEF Ready, WorkerMoves, WorkerRead, WorkerExec, WorkerWrite, WorkerDies, TypeOK
<1> QED BY <1>2, <1>3

\* A worker of a clean batch reads only tasks, and its tasks succeed.
LEMMA ServingStays ==
    ASSUME MaxFaults = 0, Fates = {"ok"}, TypeOK, NEW w \in Worker, WorkerMoves(w),
           NEW v \in Worker, Serving(v), QueuesInOrder(v)
    PROVE  Serving(v)'
<1>1. UNCHANGED slot
  BY WorkerStepLocal DEF parent
<1>2. CASE v # w
  BY <1>1, <1>2, WorkerStepLocal DEF Serving
<1>3. CASE v = w
  <2>0. /\ inq \in [Worker -> Seq(Message)] /\ outq \in [Worker -> Seq(Message)]
        /\ proc \in [Worker -> Live \cup {"none", "dead"}] /\ cur \in [Worker -> Message]
        /\ slot[v] /\ proc[v] \in {"read", "exec", "write"}
        /\ inq[v] \in Seq(Message) /\ outq[v] \in Seq(Message)
    BY DEF TypeOK, Serving
  <2>1. CASE WorkerRead(v)
    <3>1. 1 \in 1 .. Len(inq[v]) /\ Head(inq[v]) = inq[v][1]
      BY <2>0, <2>1, TailFacts DEF WorkerRead
    <3>2. Head(inq[v]).kind = "exec"
      BY <3>1 DEF QueuesInOrder
    <3>3. proc'[v] = "exec" /\ outq'[v] = outq[v]
      BY <2>0, <2>1, <3>2 DEF WorkerRead, AfterRead
    <3> QED BY <1>1, <2>0, <3>3 DEF Serving
  <2>2. CASE WorkerExec(v)
    <3>1. proc'[v] = "write" /\ outq'[v] = outq[v] /\ cur'[v].kind = "ok"
      BY <2>0, <2>2 DEF WorkerExec, Executed
    <3> QED BY <1>1, <2>0, <3>1 DEF Serving
  <2>3. CASE WorkerWrite(v)
    <3>1. cur[v].kind = "ok" /\ Reply(cur[v]) = cur[v] /\ cur[v] \in Message
      BY <2>0, <2>3 DEF WorkerWrite, Serving, Reply
    <3>2. proc'[v] = "read" /\ outq'[v] = Append(outq[v], cur[v])
      BY <2>0, <2>3, <3>1 DEF WorkerWrite
    <3>3. PICK q \in Seq(Message) : q = outq[v]
      BY <2>0
    <3>4. PICK m \in Message : m = cur[v]
      BY <3>1
    <3>5. /\ Len(Append(q, m)) = Len(q) + 1 /\ Append(q, m)[Len(q) + 1] = m
          /\ \A i \in 1 .. Len(q) : Append(q, m)[i] = q[i]
      BY AppendFacts
    <3>6. \A i \in 1 .. Len(q) + 1 : i \in 1 .. Len(q) \/ i = Len(q) + 1
      OBVIOUS
    <3>7. \A i \in 1 .. Len(outq'[v]) : outq'[v][i].kind = "ok"
      BY <3>1, <3>2, <3>3, <3>4, <3>5, <3>6 DEF Serving
    <3> QED BY <1>1, <2>0, <3>2, <3>7 DEF Serving
  <2>4. CASE WorkerDies(v)
    BY <2>4 DEF WorkerDies, TypeOK
  <2> QED BY <1>3, <2>1, <2>2, <2>3, <2>4 DEF WorkerMoves
<1> QED BY <1>2, <1>3

\* After its handshake a worker that lives has nothing to do.
LEMMA HandshakeReady ==
    ASSUME TypeOK, Handshaking, Handshake, proc[at] # "dead"
    PROVE  /\ slot'[at] /\ proc'[at] = "read" /\ inq'[at] = <<>> /\ outq'[at] = <<>>
           /\ \A w \in Worker \ {at} : Ready(w) => Ready(w)'
<1>1. /\ inq[at] \in Seq(Message) /\ outq[at] \in Seq(Message) /\ at \in Worker
      /\ Len(inq[at]) \in Nat /\ Len(outq[at]) \in Nat
  BY DEF TypeOK
<1>2. Len(inq[at]) + Len(outq[at]) <= 1 /\ outq[at] # <<>> /\ proc[at] = "read"
  BY DEF Handshake, Handshaking
<1>3. Len(outq[at]) >= 1
  BY <1>1, <1>2, LengthZero
<1>4. Len(outq[at]) = 1 /\ Len(inq[at]) = 0
  BY <1>1, <1>2, <1>3, SumAtMostOneSecond
<1>5. Tail(outq[at]) \in Seq(Message) /\ Len(Tail(outq[at])) = 0
  BY <1>1, <1>4, TailOfOne
<1>6. Tail(outq[at]) = <<>> /\ inq[at] = <<>>
  BY <1>1, <1>4, <1>5, LengthZero
<1>7. /\ outq'[at] = Tail(outq[at]) /\ inq'[at] = inq[at] /\ proc'[at] = proc[at] /\ slot'[at]
      /\ \A w \in Worker \ {at} : /\ outq'[w] = outq[w] /\ inq'[w] = inq[w]
                                  /\ proc'[w] = proc[w] /\ slot'[w] = slot[w]
  BY <1>1 DEF Handshake, TypeOK
<1>8. \A w \in Worker \ {at} : Ready(w) => Ready(w)'
  BY <1>7 DEF Ready
<1> QED BY <1>2, <1>6, <1>7, <1>8

LEMMA ReadyServes ==
    ASSUME NEW w \in Worker, Ready(w)
    PROVE  Serving(w) /\ Idle(w)
<1>1. Len(outq[w]) = 0 /\ \A i \in 1 .. 0 : FALSE
  BY DEF Ready
<1> QED BY <1>1 DEF Ready, Serving, Idle

LEMMA ReadyServesNext ==
    ASSUME NEW w \in Worker, Ready(w)'
    PROVE  Serving(w)'
<1>1. Len(outq'[w]) = 0 /\ \A i \in 1 .. 0 : FALSE
  BY DEF Ready
<1> QED BY <1>1 DEF Ready, Serving

LEMMA NothingFailsStep ==
    ASSUME MaxFaults = 0, Fates = {"ok"}, TypeOK, OrderInv, NothingFails, [Next]_vars, OrderInv'
    PROVE  NothingFails'
<1>0. clean /\ Handshaking /\ NewPool /\ Phases /\ AllInOrder
  BY DEF OrderInv, NothingFails
<1>1. ASSUME NEW n \in 0 .. MaxSeeds, Submit(n)
      PROVE  NothingFails'
  <2>1. /\ pc = "idle" /\ UNCHANGED <<exists, slot, proc, cur, inq, outq>>
        /\ pc' \in {"thread", "send", "spawn"}
        /\ pc' = "send" => exists
        /\ pc' = "spawn" => goal' = "new" /\ at' = 0
    BY <1>1 DEF Submit, links
  <2>2. exists => \A w \in Worker : Ready(w) /\ Serving(w) /\ Idle(w)
    BY <2>1, ReadyServes DEF NothingFails
  <2>3. clean'
    BY <1>1, <2>2 DEF Submit
  <2>4. \A w \in Worker : ~(w < 0)
    BY DEF Worker
  <2>5. exists' => \A w \in Worker : Ready(w)' /\ Serving(w)'
    BY <2>1, <2>2 DEF Ready, Serving
  <2> QED BY <2>1, <2>3, <2>4, <2>5 DEF NothingFails
<1>2. CASE SendTask
  <2>1. /\ pc = "send" /\ UNCHANGED <<pc, exists, clean, slot, proc, cur, outq>>
    BY <1>2 DEF SendTask
  <2>2. \A w \in Worker : Serving(w)'
    BY <2>1 DEF NothingFails, Serving
  <2> QED BY <1>0, <2>1, <2>2 DEF NothingFails
<1>3. CASE SendFails
  <2>1. Turn \in Worker /\ Serving(Turn)
    BY <1>3, TurnInWorker DEF SendFails, NothingFails
  <2> QED BY <1>3, <2>1 DEF SendFails, Serving, Alive, Live
<1>4. CASE AllSent
  <2>1. pc = "send" /\ pc' = "recv" /\ UNCHANGED <<clean, slot, proc, cur, outq>>
    BY <1>4 DEF AllSent, links
  <2>2. \A w \in Worker : Serving(w)'
    BY <2>1 DEF NothingFails, Serving
  <2> QED BY <1>0, <2>1, <2>2 DEF NothingFails
<1>5. ASSUME NEW w \in Worker, RecvOk(w)
      PROVE  NothingFails'
  <2>1. /\ pc = "recv" /\ UNCHANGED <<pc, clean, slot, proc, cur>>
        /\ outq' = [outq EXCEPT ![w] = Tail(@)] /\ outq[w] # <<>>
    BY <1>5 DEF RecvOk, Waiting
  <2>2. /\ outq \in [Worker -> Seq(Message)] /\ outq[w] \in Seq(Message)
    BY DEF TypeOK
  <2>3. \A i \in 1 .. Len(Tail(outq[w])) : i + 1 \in 1 .. Len(outq[w]) /\ Tail(outq[w])[i] = outq[w][i + 1]
    BY <2>1, <2>2, TailFacts
  <2>4. \A v \in Worker : Serving(v)
    BY <2>1 DEF NothingFails
  <2>5. ASSUME NEW v \in Worker
        PROVE  Serving(v)'
    <3>1. CASE v # w
      BY <2>1, <2>2, <2>4, <3>1 DEF Serving
    <3>2. CASE v = w
      <4>1. outq'[v] = Tail(outq[w])
        BY <2>1, <2>2, <3>2
      <4>2. \A i \in 1 .. Len(outq'[v]) : outq'[v][i].kind = "ok"
        BY <2>3, <2>4, <3>2, <4>1 DEF Serving
      <4> QED BY <2>1, <2>4, <4>2 DEF Serving
    <3> QED BY <3>1, <3>2
  <2> QED BY <1>0, <2>1, <2>5 DEF NothingFails
<1>6. ASSUME NEW w \in Worker, RecvErr(w) \/ RecvFails(w)
      PROVE  FALSE
  <2>1. Serving(w)
    BY <1>6 DEF RecvErr, RecvFails, Waiting, NothingFails
  <2>2. Alive(w)
    BY <2>1 DEF Serving, Alive, Live
  <2>3. outq[w] \in Seq(Message)
    BY DEF TypeOK
  <2>4. outq[w] # <<>> /\ Head(outq[w]).kind \in {"err", "pong", "big"}
    BY <1>6, <2>2 DEF RecvErr, RecvFails
  <2>5. 1 \in 1 .. Len(outq[w]) /\ Head(outq[w]) = outq[w][1]
    BY <2>3, <2>4, TailFacts
  <2> QED BY <2>1, <2>4, <2>5 DEF Serving
<1>7. CASE AllReceived
  <2>1. /\ pc = "recv" /\ pc' = "idle" /\ outcome' = "native"
        /\ UNCHANGED <<clean, slot, proc, cur, inq, outq>>
    BY <1>7 DEF AllReceived, links
  <2>2. \A w \in Worker : Serving(w)
    BY <2>1 DEF NothingFails
  <2>3. \A w \in Worker : Idle(w)'
    BY <1>0, <2>1 DEF OrderInv, NativeLeavesClean
  <2>4. \A w \in Worker : Ready(w)'
    BY <2>1, <2>2, <2>3 DEF Idle, Serving, Ready
  <2> QED BY <1>0, <2>1, <2>4 DEF NothingFails
<1>8. CASE ThreadPath
  <2>1. pc = "thread" /\ pc' = "idle" /\ UNCHANGED <<exists, clean, slot, proc, inq, outq>>
    BY <1>8 DEF ThreadPath, links
  <2> QED BY <1>0, <2>1 DEF NothingFails, Ready
<1>9. CASE WriteShutdown \/ Reap \/ DropPool
  <2>1. /\ UNCHANGED clean /\ pc' \in {"shutdown", "reap", "closed"} /\ goal' = "drop"
    BY <1>9 DEF WriteShutdown, Reap, DropPool, NothingFails
  <2> QED BY <1>0, <2>1 DEF NothingFails
<1>10. CASE Spawn
  <2>1. /\ pc = "spawn" /\ pc' = "handshake" /\ UNCHANGED <<clean, goal, at, slot>>
        /\ proc'[at] = "read" /\ at \in Worker
        /\ \A w \in Worker \ {at} : proc'[w] = proc[w] /\ inq'[w] = inq[w] /\ outq'[w] = outq[w]
    BY <1>10 DEF Spawn, TypeOK
  <2>2. \A w \in Worker : w < at => w # at /\ Ready(w)
    BY <2>1 DEF NothingFails, Worker
  <2>3. \A w \in Worker : w < at => Ready(w)'
    BY <2>1, <2>2 DEF Ready
  <2> QED BY <1>0, <2>1, <2>3 DEF NothingFails
<1>11. CASE Handshake
  <2>1. /\ goal = "new" /\ pc = "handshake" /\ proc[at] # "dead" /\ at \in Worker /\ UNCHANGED clean
        /\ \A w \in Worker : w < at => Ready(w)
    BY <1>11 DEF Handshake, NothingFails, TypeOK
  <2>2. /\ slot'[at] /\ proc'[at] = "read" /\ inq'[at] = <<>> /\ outq'[at] = <<>>
        /\ \A w \in Worker \ {at} : Ready(w) => Ready(w)'
    BY <1>0, <1>11, <2>1, HandshakeReady
  <2>3. \A w \in {at} : Ready(w)'
    BY <2>2 DEF Ready
  <2>4. \A w \in Worker : w < at + 1 => w < at \/ w = at
    BY <2>1 DEF Worker
  <2>5. \A w \in Worker : w < at => w # at
    BY <2>1 DEF Worker
  <2>6. \A w \in Worker : w < at + 1 => Ready(w)'
    BY <2>1, <2>2, <2>3, <2>4, <2>5
  <2>7. CASE pc' = "spawn" /\ at' = at + 1 /\ goal' = goal
    BY <1>0, <2>1, <2>6, <2>7 DEF NothingFails
  <2>8. CASE pc' = "send" /\ at = N - 1
    <3>1. \A w \in Worker : w < at + 1
      BY <2>8 DEF Worker
    <3>2. \A w \in Worker : Serving(w)'
      BY <2>6, <3>1, ReadyServesNext
    <3> QED BY <1>0, <2>1, <2>8, <3>2 DEF NothingFails
  <2> QED BY <1>11, <2>1, <2>7, <2>8 DEF Handshake
<1>12. CASE SpawnFails
  <2>1. pc = "handshake" /\ ~Alive(at)
    BY <1>12 DEF SpawnFails, TypeOK
  <2> QED BY <1>0, <2>1 DEF Handshaking, NothingFails, Alive, Live
<1>13. ASSUME NEW w \in Worker, WorkerMoves(w)
      PROVE  NothingFails'
  <2>1. UNCHANGED <<pc, exists, goal, at, clean>>
    BY <1>13, WorkerStepLocal DEF parent
  <2>2. \A v \in Worker : Ready(v) => Ready(v)'
    BY <1>13, ReadyStays
  <2>3. ASSUME pc = "handshake"
        PROVE  proc'[at] # "dead"
    <3>1. CASE at # w
      <4>1. proc'[at] = proc[at]
        BY <1>13, <3>1, WorkerStepLocal DEF TypeOK
      <4> QED BY <2>3, <4>1 DEF NothingFails
    <3>2. CASE at = w
      <4>1. CASE WorkerRead(w)
        <5>1. inq[w] \in Seq(Message) /\ inq[w] # <<>>
          BY <4>1 DEF WorkerRead, TypeOK
        <5>2. Head(inq[w]) = inq[w][1]
          BY <5>1, TailFacts
        <5>3. Head(inq[w]).kind = "ping"
          BY <1>0, <2>3, <3>2, <5>1, <5>2 DEF Handshaking, Control
        <5> QED BY <3>2, <4>1, <5>3 DEF WorkerRead, AfterRead, TypeOK
      <4>2. CASE WorkerExec(w)
        BY <3>2, <4>2 DEF WorkerExec, TypeOK
      <4>3. CASE WorkerWrite(w)
        BY <3>2, <4>3 DEF WorkerWrite, TypeOK
      <4>4. CASE WorkerDies(w)
        BY <4>4 DEF WorkerDies, TypeOK
      <4> QED BY <1>13, <4>1, <4>2, <4>3, <4>4 DEF WorkerMoves
    <3> QED BY <3>1, <3>2
  <2>4. ASSUME pc \in {"send", "recv"}, NEW v \in Worker
        PROVE  Serving(v)'
    <3>1. Serving(v) /\ QueuesInOrder(v)
      BY <1>0, <2>4 DEF NothingFails, AllInOrder
    <3> QED BY <1>13, <3>1, ServingStays
  <2> QED BY <1>0, <2>1, <2>2, <2>3, <2>4 DEF NothingFails
<1>14. CASE UNCHANGED <<parent, links>>
  <2>1. UNCHANGED <<pc, exists, goal, at, clean, slot, proc, cur, inq, outq>>
    BY <1>14 DEF vars, parent, links
  <2> QED BY <2>1 DEF NothingFails, Ready, Serving
<1>15. CASE ParentMoves
  BY <1>1, <1>2, <1>3, <1>4, <1>5, <1>6, <1>7, <1>8, <1>9, <1>10, <1>11, <1>12, <1>15
  DEF ParentMoves, ParentStep
<1> QED BY <1>13, <1>14, <1>15, NextSplit

\* Without deaths, failed creations and failing tasks, every batch finds the pool quiet.
THEOREM NothingFailsCorrect ==
    ASSUME MaxFaults = 0, Fates = {"ok"}
    PROVE  Spec => []NothingFails
<1>1. Init => NothingFails
  BY DEF Init, NothingFails
<1>2. TypeOK /\ OrderInv /\ NothingFails /\ [Next]_vars /\ OrderInv' => NothingFails'
  BY NothingFailsStep
<1> QED BY <1>1, <1>2, TypeCorrect, OrderCorrect, PTL DEF Spec

\* A pool in which nothing fails implements BatchService, fairness aside: its first
\* state is one of the service, and each of its steps is one of the service or a stutter.
THEOREM SoundPoolImplementsService ==
    ASSUME MaxFaults = 0, Fates = {"ok"}
    PROVE  Spec => Service!Init /\ [][Service!Next]_(Service!vars)
<1>1. NothingFails /\ [clean => Service!Next]_(Service!vars) => [Service!Next]_(Service!vars)
  BY DEF NothingFails
<1> QED BY <1>1, NothingFailsCorrect, QuietPoolKeepsPromise, PTL
=============================================================================
