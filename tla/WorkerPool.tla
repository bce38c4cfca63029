----------------------------- MODULE WorkerPool -----------------------------
(***************************************************************************)
(* The pool of `catnip worker` processes behind the ND process mode:       *)
(* catnip_rs/src/nd/worker_pool.rs (the parent), the worker loop of        *)
(* catnip_rs/src/bin/run.rs, and the caller in catnip_rs/src/vm/host.rs.   *)
(* Parent and worker talk over two pipes of bounded capacity; a worker may *)
(* die at any moment.  A message is the task it belongs to: the number of  *)
(* the batch and the position of the seed in it.                           *)
(***************************************************************************)
EXTENDS Integers, Sequences, FiniteSets

CONSTANTS
    N,           \* number of workers in the pool
    Cap,         \* messages a pipe holds before a write to it blocks
    MaxBatches,  \* bound: batches the caller submits
    MaxSeeds,    \* bound: seeds of a batch
    MaxFaults,   \* bound: worker deaths and failed process creations
    Fates        \* how executing a task may end

ASSUME NAssumption == N \in Nat \ {0}
ASSUME CapAssumption == Cap \in Nat \ {0}
ASSUME BoundAssumption == MaxBatches \in Nat /\ MaxSeeds \in Nat /\ MaxFaults \in Nat
ASSUME FatesAssumption == Fates \subseteq {"ok", "err", "big"}

Worker == 0 .. N - 1

\* "ok", "err" and "big" are replies to a task; "big" is a reply larger than
\* MAX_MESSAGE_SIZE, which the parent refuses and no pipe can hold.
Kinds == {"exec", "ping", "shutdown", "ok", "err", "big", "pong"}
Message == [kind : Kinds, batch : Nat, idx : Nat]
Control(k) == [kind |-> k, batch |-> 0, idx |-> 0]
Task(b, i) == [kind |-> "exec", batch |-> b, idx |-> i]
Nothing == Control("ping")

VARIABLES
    \* the parent
    pc,       \* where the parent is in submit_batch, spawn, shutdown or drop
    goal,     \* who asked for the spawn or shutdown under way
    at,       \* the worker being spawned or shut down
    exists,   \* the host holds a pool
    slot,     \* slot[w]: workers[w] is Some
    next,     \* the round-robin cursor
    batch, size,   \* the batch being served and its number of seeds
    assign,   \* worker of each task sent so far
    results,  \* the tasks whose results were collected so far
    outcome,  \* how the last batch ended: "native", "fallback", "failed" or "none"
    \* the workers
    proc,     \* proc[w]: what the process of worker w is doing
    cur,      \* cur[w]: the message it is working on
    inq,      \* inq[w]: commands in its stdin pipe
    outq,     \* outq[w]: replies in its stdout pipe
    \* processes the pool has dropped without waiting for them
    strays,   \* how many of them still run, their stdin at its end of file
    zombies,  \* how many have ended, and are never waited for
    \* bookkeeping of the model
    faults,   \* faults so far
    clean     \* no message was in transit when the batch was submitted

parent == <<pc, goal, at, exists, slot, next, batch, size, assign, results, outcome, clean>>
links == <<proc, cur, inq, outq>>
vars == <<parent, links, faults, strays, zombies>>

-----------------------------------------------------------------------------

Live == {"read", "exec", "write", "stuck"}
Alive(w) == proc[w] \in Live

\* The worker to which the next task goes, and the cursor after a batch.
Turn == (next + Len(assign)) % N

AdvanceUnwrapped == next + size
Advance == (next + size) % N

\* Worker w has nothing to do and nothing to say.
Idle(w) == inq[w] = <<>> /\ outq[w] = <<>> /\ proc[w] \notin {"exec", "write", "stuck"}

Init ==
    /\ pc = "idle" /\ goal = "none" /\ at = 0
    /\ exists = FALSE
    /\ slot = [w \in Worker |-> FALSE]
    /\ next = 0
    /\ batch = 0 /\ size = 0
    /\ assign = <<>> /\ results = <<>>
    /\ outcome = "none"
    /\ proc = [w \in Worker |-> "none"]
    /\ cur = [w \in Worker |-> Nothing]
    /\ inq = [w \in Worker |-> <<>>]
    /\ outq = [w \in Worker |-> <<>>]
    /\ faults = 0 /\ strays = 0 /\ zombies = 0
    /\ clean = TRUE

-----------------------------------------------------------------------------
(* The parent: submitting a batch.                                         *)

\* A new batch of n seeds.  What cannot be frozen (the lambda, a capture, a
\* seed, a shadowed builtin, a struct type) never reaches the pool; the first
\* batch that can creates the pool.
Submit(n) ==
    /\ pc = "idle"
    /\ batch < MaxBatches
    /\ batch' = batch + 1 /\ size' = n
    /\ assign' = <<>> /\ results' = <<>>
    /\ outcome' = "none"
    /\ clean' = (exists => \A w \in Worker : Idle(w))
    /\ \/ pc' = "thread" /\ UNCHANGED <<goal, at>>
       \/ exists /\ pc' = "send" /\ UNCHANGED <<goal, at>>
       \/ ~exists /\ pc' = "spawn" /\ goal' = "new" /\ at' = 0
    /\ UNCHANGED <<exists, slot, next, links, faults, strays, zombies>>

\* The submission loop writes the next task to the worker whose turn it is;
\* the write blocks while that worker lives and its pipe is full.
SendTask ==
    /\ pc = "send" /\ Len(assign) < size
    /\ slot[Turn] /\ Alive(Turn) /\ Len(inq[Turn]) < Cap
    /\ assign' = Append(assign, Turn)
    /\ inq' = [inq EXCEPT ![Turn] = Append(@, Task(batch, Len(assign) + 1))]
    /\ UNCHANGED <<pc, goal, at, exists, slot, next, batch, size, results, outcome,
                   clean, proc, cur, outq, faults, strays, zombies>>

\* The slot is empty or the pipe is broken: the worker is respawned and the
\* batch given up, the cursor staying where it was.
SendFails ==
    /\ pc = "send" /\ Len(assign) < size
    /\ ~slot[Turn] \/ ~Alive(Turn)
    /\ pc' = "shutdown" /\ goal' = "respawn" /\ at' = Turn
    /\ UNCHANGED <<exists, slot, next, batch, size, assign, results, outcome, clean,
                   links, faults, strays, zombies>>

AllSent ==
    /\ pc = "send" /\ Len(assign) = size
    /\ next' = Advance
    /\ pc' = "recv"
    /\ UNCHANGED <<goal, at, exists, slot, batch, size, assign, results, outcome,
                   clean, links, faults, strays, zombies>>

-----------------------------------------------------------------------------
(* The parent: collecting the results in submission order.                 *)

WaitingReversed(w) ==
    pc = "recv" /\ Len(results) < size /\ w = assign[size - Len(results)]
Waiting(w) == pc = "recv" /\ Len(results) < size /\ w = assign[Len(results) + 1]

RecvOk(w) ==
    /\ Waiting(w)
    /\ outq[w] # <<>> /\ Head(outq[w]).kind = "ok"
    /\ results' = Append(results, <<Head(outq[w]).batch, Head(outq[w]).idx>>)
    /\ outq' = [outq EXCEPT ![w] = Tail(@)]
    /\ UNCHANGED <<pc, goal, at, exists, slot, next, batch, size, assign, outcome,
                   clean, proc, cur, inq, faults, strays, zombies>>

GiveUpAsNative == pc' = "idle" /\ goal' = "none" /\ outcome' = "native"
GiveUpRetrySend ==
    /\ pc' = IF pc = "handshake" /\ Len(assign) < size THEN "send" ELSE "thread"
    /\ goal' = "none"
    /\ UNCHANGED outcome

\* The pool returns an error, and the host turns to the thread path.
GiveUp == pc' = "thread" /\ goal' = "none" /\ UNCHANGED outcome

\* The thread path computes the whole batch again, or raises the error of a seed
\* whose task fails.
ThreadPath ==
    /\ pc = "thread"
    /\ pc' = "idle"
    /\ \/ outcome' = "fallback"
       \/ "err" \in Fates /\ outcome' = "failed"
    /\ UNCHANGED <<goal, at, exists, slot, next, batch, size, assign, results, clean,
                   links, faults, strays, zombies>>

\* A reply that is not a result ends the batch at once; the replies still owed
\* by the other workers stay in their pipes.
RecvErr(w) ==
    /\ Waiting(w)
    /\ outq[w] # <<>> /\ Head(outq[w]).kind \in {"err", "pong"}
    /\ outq' = [outq EXCEPT ![w] = Tail(@)]
    /\ GiveUp
    /\ UNCHANGED <<at, exists, slot, next, batch, size, assign, results, clean,
                   proc, cur, inq, faults, strays, zombies>>

\* End of file, or a reply too large to be read: the worker is respawned.
RecvFails(w) ==
    /\ Waiting(w)
    /\ \/ outq[w] = <<>> /\ ~Alive(w)
       \/ outq[w] # <<>> /\ Head(outq[w]).kind = "big"
    /\ pc' = "shutdown" /\ goal' = "respawn" /\ at' = w
    /\ UNCHANGED <<exists, slot, next, batch, size, assign, results, outcome, clean,
                   links, faults, strays, zombies>>

AllReceived ==
    /\ pc = "recv" /\ Len(results) = size
    /\ pc' = "idle" /\ outcome' = "native"
    /\ UNCHANGED <<goal, at, exists, slot, next, batch, size, assign, results, clean,
                   links, faults, strays, zombies>>

-----------------------------------------------------------------------------
(* The parent: shutting a worker down, spawning one, dropping the pool.    *)

\* shutdown() takes the worker out of its slot and writes Shutdown, blocking
\* while the pipe of a live worker is full and ignoring a broken one.  An
\* empty slot has nothing to shut down.
WriteShutdown ==
    /\ pc = "shutdown"
    /\ \/ ~slot[at] /\ UNCHANGED <<inq, slot>>
       \/ /\ slot[at] /\ Alive(at) /\ Len(inq[at]) < Cap
          /\ inq' = [inq EXCEPT ![at] = Append(@, Control("shutdown"))]
          /\ slot' = [slot EXCEPT ![at] = FALSE]
       \/ /\ slot[at] /\ ~Alive(at)
          /\ slot' = [slot EXCEPT ![at] = FALSE]
          /\ UNCHANGED inq
    /\ pc' = "reap"
    /\ UNCHANGED <<goal, at, exists, next, batch, size, assign, results, outcome, clean,
                   proc, cur, outq, faults, strays, zombies>>

\* child.wait() returns when the process is gone; the handles are dropped.
Reap ==
    /\ pc = "reap" /\ ~Alive(at)
    /\ proc' = [proc EXCEPT ![at] = "none"]
    /\ inq' = [inq EXCEPT ![at] = <<>>]
    /\ outq' = [outq EXCEPT ![at] = <<>>]
    /\ \/ goal = "respawn" /\ pc' = "spawn" /\ UNCHANGED at
       \/ goal = "drop" /\ at < N - 1 /\ pc' = "shutdown" /\ at' = at + 1
       \/ goal = "drop" /\ at = N - 1 /\ pc' = "closed" /\ UNCHANGED at
    /\ UNCHANGED <<goal, exists, slot, next, batch, size, assign, results, outcome, clean,
                   cur, faults, strays, zombies>>

\* The process is created and Ping written to its fresh pipe.
Spawn ==
    /\ pc = "spawn"
    /\ pc' = "handshake"
    /\ proc' = [proc EXCEPT ![at] = "read"]
    /\ cur' = [cur EXCEPT ![at] = Nothing]
    /\ inq' = [inq EXCEPT ![at] = <<Control("ping")>>]
    /\ outq' = [outq EXCEPT ![at] = <<>>]
    /\ UNCHANGED <<goal, at, exists, slot, next, batch, size, assign, results, outcome,
                   clean, faults, strays, zombies>>

\* Pong came: the worker takes its slot.  A new pool goes on with its next
\* worker and, once complete, with the batch; a respawn ends the batch.
Handshake ==
    /\ pc = "handshake"
    /\ outq[at] # <<>>
    /\ outq' = [outq EXCEPT ![at] = Tail(@)]
    /\ slot' = [slot EXCEPT ![at] = TRUE]
    /\ \/ /\ goal = "new" /\ at < N - 1
          /\ pc' = "spawn" /\ at' = at + 1
          /\ UNCHANGED <<goal, exists, next, outcome>>
       \/ /\ goal = "new" /\ at = N - 1
          /\ exists' = TRUE /\ next' = 0
          /\ pc' = "send" /\ goal' = "none"
          /\ UNCHANGED <<at, outcome>>
       \/ /\ goal = "respawn"
          /\ GiveUp
          /\ UNCHANGED <<at, exists, next>>
    /\ UNCHANGED <<batch, size, assign, results, clean, proc, cur, inq, faults, strays, zombies>>

\* The workers a failed spawn drops.
DroppedNone == {}
Dropped == IF goal = "new" THEN Worker ELSE {at}

\* The process could not be created, or ended before Pong.  A respawn leaves the
\* slot empty; a new pool drops the workers it had.  To drop a worker closes its
\* pipes: nobody kills its process or waits for it.
SpawnFails ==
    /\ \/ /\ pc = "spawn" /\ faults < MaxFaults /\ faults' = faults + 1
       \/ /\ pc = "handshake" /\ outq[at] = <<>> /\ ~Alive(at) /\ UNCHANGED faults
    /\ slot' = [w \in Worker |-> slot[w] /\ w \notin Dropped]
    /\ strays' = strays + Cardinality({w \in Dropped : Alive(w)})
    /\ zombies' = zombies + Cardinality({w \in Dropped : proc[w] = "dead"})
    /\ proc' = [w \in Worker |-> IF w \in Dropped THEN "none" ELSE proc[w]]
    /\ inq' = [w \in Worker |-> IF w \in Dropped THEN <<>> ELSE inq[w]]
    /\ outq' = [w \in Worker |-> IF w \in Dropped THEN <<>> ELSE outq[w]]
    /\ GiveUp
    /\ UNCHANGED <<at, exists, next, batch, size, assign, results, clean, cur>>

\* A dropped worker reads the end of its stdin and returns from its loop.
StrayEnds ==
    /\ strays > 0
    /\ strays' = strays - 1 /\ zombies' = zombies + 1
    /\ UNCHANGED <<parent, links, faults>>

\* The host is dropped: every worker is shut down in turn.
DropPool ==
    /\ pc = "idle" /\ exists
    /\ pc' = "shutdown" /\ goal' = "drop" /\ at' = 0
    /\ UNCHANGED <<exists, slot, next, batch, size, assign, results, outcome, clean,
                   links, faults, strays, zombies>>

-----------------------------------------------------------------------------
(* A worker process: read a command, execute it, write the reply.          *)

AfterReadKeepsOn(m) ==
    IF m.kind = "ping" THEN "write" ELSE IF m.kind = "exec" THEN "exec" ELSE "read"
AfterRead(m) ==
    IF m.kind = "ping" THEN "write" ELSE IF m.kind = "exec" THEN "exec" ELSE "dead"

WorkerRead(w) ==
    /\ proc[w] = "read" /\ inq[w] # <<>>
    /\ cur' = [cur EXCEPT ![w] = Head(inq[w])]
    /\ proc' = [proc EXCEPT ![w] = AfterRead(Head(inq[w]))]
    /\ inq' = [inq EXCEPT ![w] = Tail(@)]
    /\ UNCHANGED <<parent, outq, faults, strays, zombies>>

Executed(m, f) == [kind |-> f, batch |-> m.batch, idx |-> m.idx]

WorkerExec(w) ==
    /\ proc[w] = "exec"
    /\ \E f \in Fates : cur' = [cur EXCEPT ![w] = Executed(cur[w], f)]
    /\ proc' = [proc EXCEPT ![w] = "write"]
    /\ UNCHANGED <<parent, inq, outq, faults, strays, zombies>>

Reply(m) == IF m.kind = "ping" THEN Control("pong") ELSE m

\* A reply larger than a pipe is never completely written: the worker stays
\* in the write until its process ends.
WorkerWrite(w) ==
    /\ proc[w] = "write" /\ Len(outq[w]) < Cap
    /\ outq' = [outq EXCEPT ![w] = Append(@, Reply(cur[w]))]
    /\ proc' = [proc EXCEPT ![w] = IF cur[w].kind = "big" THEN "stuck" ELSE "read"]
    /\ UNCHANGED <<parent, cur, inq, faults, strays, zombies>>

\* The process dies; what it had written can still be read.
WorkerDies(w) ==
    /\ Alive(w) /\ faults < MaxFaults
    /\ faults' = faults + 1
    /\ proc' = [proc EXCEPT ![w] = "dead"]
    /\ inq' = [inq EXCEPT ![w] = <<>>]
    /\ UNCHANGED <<parent, cur, outq, strays, zombies>>

-----------------------------------------------------------------------------

ParentStep ==
    \/ SendTask \/ SendFails \/ AllSent
    \/ \E w \in Worker : RecvOk(w) \/ RecvErr(w) \/ RecvFails(w)
    \/ AllReceived \/ ThreadPath
    \/ WriteShutdown \/ Reap \/ Spawn \/ Handshake

WorkerStep(w) == WorkerRead(w) \/ WorkerExec(w) \/ WorkerWrite(w)

\* The host is gone, or it has submitted all its batches and never had a pool.
Ended ==
    /\ pc = "closed" \/ (pc = "idle" /\ ~exists /\ batch = MaxBatches)
    /\ UNCHANGED vars

Next ==
    \/ \E n \in 0 .. MaxSeeds : Submit(n)
    \/ ParentStep
    \/ SpawnFails
    \/ DropPool
    \/ \E w \in Worker : WorkerStep(w) \/ WorkerDies(w)
    \/ StrayEnds
    \/ Ended

\* The parent and the workers are threads of running processes: a step that
\* can be taken is taken.  Nothing makes a worker die or the host submit.
Fairness ==
    /\ WF_vars(ParentStep \/ (pc = "handshake" /\ SpawnFails))
    /\ \A w \in Worker : WF_vars(WorkerStep(w))

Spec == Init /\ [][Next]_vars
FairSpec == Spec /\ Fairness

-----------------------------------------------------------------------------
(* Properties                                                              *)

TypeOK ==
    /\ pc \in {"idle", "send", "recv", "thread", "shutdown", "reap", "spawn", "handshake",
               "closed"}
    /\ goal \in {"none", "new", "respawn", "drop"}
    /\ at \in Worker
    /\ exists \in BOOLEAN
    /\ slot \in [Worker -> BOOLEAN]
    /\ next \in Worker
    /\ batch \in Nat /\ size \in Nat
    /\ assign \in Seq(Worker) /\ Len(assign) <= size
    /\ results \in Seq(Nat \X Nat) /\ Len(results) <= size
    /\ outcome \in {"none", "native", "fallback", "failed"}
    /\ proc \in [Worker -> Live \cup {"none", "dead"}]
    /\ cur \in [Worker -> Message]
    /\ inq \in [Worker -> Seq(Message)]
    /\ outq \in [Worker -> Seq(Message)]
    /\ faults \in Nat /\ strays \in Nat /\ zombies \in Nat
    /\ clean \in BOOLEAN

\* A batch submitted to a pool in which nothing was in transit collects, seed
\* by seed, the results of its own seeds in the order of the seeds
\* (submit_batch, "collect results in order"), whatever its workers do.
CleanBatchInOrder ==
    clean => \A i \in DOMAIN results : results[i] = <<batch, i>>

\* A clean batch that ends with its results leaves nothing in transit: only a
\* batch that was given up can leave replies behind for the next one.
NativeLeavesClean ==
    clean /\ pc = "idle" /\ outcome = "native" => \A w \in Worker : Idle(w)

\* The parent never waits for a reply that no living worker owes it: the
\* recv of submit_batch cannot hang because the commands went to a process
\* that is gone ("deadlock the next recv" in the comment of the send loop).
InTransit(w) == Len(inq[w]) + Len(outq[w]) + (IF proc[w] \in {"exec", "write"} THEN 1 ELSE 0)
NoOrphanWait ==
    \A w \in Worker : Waiting(w) /\ proc[w] # "dead" => InTransit(w) > 0

\* No worker process is lost without a fault.  Between batches a process the pool
\* holds is in a slot, and none is left when the pool is gone: shutdown waits for
\* those.  The ones that were only dropped, of which nobody is told (new and respawn
\* return early), are at most N for each process that died or could not be created.
OnlyFaultsLose ==
    /\ pc = "idle" => \A w \in Worker : proc[w] # "none" <=> slot[w]
    /\ pc = "closed" => \A w \in Worker : proc[w] = "none"
    /\ strays + zombies <= N * faults

\* Why a clean batch is collected in order.  While it is sent and collected,
\* what is in transit to and from worker w belongs to seeds of this batch that
\* were given to w and are not collected yet, in increasing order, replies
\* before the task at work and that before the commands; and no such seed is
\* missing, except those a dead worker took with it.
Working(w) == proc[w] \in {"exec", "write"}
Pending(w, m) ==
    /\ m.batch = batch
    /\ m.idx \in Len(results) + 1 .. Len(assign)
    /\ assign[m.idx] = w
Increasing(q) == \A i, j \in 1 .. Len(q) : i < j => q[i].idx < q[j].idx
QueuesInOrder(w) ==
    /\ Increasing(inq[w]) /\ Increasing(outq[w])
    /\ \A i \in 1 .. Len(inq[w]) : Pending(w, inq[w][i]) /\ inq[w][i].kind = "exec"
    /\ \A i \in 1 .. Len(outq[w]) : Pending(w, outq[w][i])
    /\ \A i \in 1 .. Len(outq[w]), j \in 1 .. Len(inq[w]) : outq[w][i].idx < inq[w][j].idx
    /\ Working(w) =>
        /\ Pending(w, cur[w]) /\ cur[w].kind # "ping"
        /\ \A i \in 1 .. Len(outq[w]) : outq[w][i].idx < cur[w].idx
        /\ \A i \in 1 .. Len(inq[w]) : cur[w].idx < inq[w][i].idx
Accounted(w, j) ==
    \/ \E i \in 1 .. Len(inq[w]) : inq[w][i].idx = j
    \/ Working(w) /\ cur[w].idx = j
    \/ \E i \in 1 .. Len(outq[w]) : outq[w][i].idx = j
    \/ ~Alive(w) /\ \A i \in 1 .. Len(outq[w]) : outq[w][i].idx < j
NoneMissing(w) ==
    \A j \in Len(results) + 1 .. Len(assign) : assign[j] = w => Accounted(w, j)
AllInOrder ==
    clean /\ pc \in {"send", "recv"} =>
        \A w \in Worker : QueuesInOrder(w) /\ NoneMissing(w)
StuckOnBig ==
    \A w \in Worker : proc[w] = "stuck" =>
        outq[w] # <<>> /\ outq[w][Len(outq[w])].kind = "big"
Handshaking ==
    pc = "handshake" =>
        /\ proc[at] \in {"read", "write", "dead"}
        /\ Len(inq[at]) + Len(outq[at]) <= 1
        /\ inq[at] # <<>> => inq[at][1] = Control("ping")
        /\ proc[at] = "write" => cur[at] = Control("ping") /\ inq[at] = <<>> /\ outq[at] = <<>>
NewPool ==
    /\ goal = "new" /\ pc \in {"spawn", "handshake"} => ~exists
    /\ ~exists =>
        /\ pc \in {"idle", "thread"} \/ (goal = "new" /\ pc \in {"spawn", "handshake"})
        /\ outcome # "native"
        /\ pc \in {"spawn", "handshake"} => assign = <<>> /\ results = <<>>
        /\ \A w \in Worker : Idle(w) \/ (w = at /\ pc = "handshake")
Phases ==
    /\ pc = "recv" => Len(assign) = size
    /\ pc = "send" => results = <<>>
OrderInv ==
    /\ Handshaking /\ NewPool /\ Phases
    /\ StuckOnBig /\ AllInOrder
    /\ CleanBatchInOrder /\ NativeLeavesClean

\* Every batch the caller submits, and the drop of the pool, comes to an end.
BatchEnds == pc \notin {"idle", "closed"} ~> pc \in {"idle", "closed"}

\* The promise to the caller.  The thread path computes the results of its own
\* seeds, or raises.
Service == INSTANCE BatchService WITH
    busy <- pc \notin {"idle", "closed"} /\ goal # "drop",
    answer <- CASE outcome = "native" -> results
                [] outcome = "fallback" -> [i \in 1 .. size |-> <<batch, i>>]
                [] OTHER -> <<>>,
    failed <- outcome = "failed",
    MayFail <- "err" \in Fates

\* The pool keeps the promise of BatchService.
KeepsPromise == Service!Spec
=============================================================================
