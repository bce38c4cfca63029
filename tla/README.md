# Catnip: a verification development

TLA+ models of the parts of Catnip that keep state across calls, processes and
crashes, the TLC runs that check them, and TLAPS proofs about them. Every
definition is translated from the Rust source; `PROJECT.json` maps each one to
the lines it stands for.

Contents: [the system](#the-system) · [the models](#the-models) ·
[the runs](#the-runs) · [fairness](#fairness) · [the proofs](#the-proofs) ·
[what the code does otherwise than it says](#what-the-code-does-otherwise-than-it-says) ·
[what is not modelled](#what-is-not-modelled) · [plan](#plan)

To run: `tlc -config <run>.cfg MC<Module>.tla` with the module the table of
[the runs](#the-runs) names; `tlapm <Module>Proofs.tla` (`StructRegistryProofs` takes about
ten minutes, the others up to three).

## The system

Catnip is a scripting language: a tree-sitter grammar, transforms to an IR, a
semantic pass with, optionally, a CFG in SSA form, bytecode, and two VMs. The *Python VM*
(`catnip_rs`) lives inside a Python process and shares values with it; the *pure
VM* (`catnip_vm`) needs no Python. Around them are caches, a JIT, a module
loader, parallel broadcasts ("ND" operations) over threads and processes, debuggers,
an MCP server, a language server, a REPL, a formatter and a linter. Most of that
is a pure function from text or tree to tree, graph or text. What is hard lies
where state outlives a call.

| Component | State | Operations | Interacts with | Hard behaviour | Correct when |
|---|---|---|---|---|---|
| ND worker pool (`nd/worker_pool.rs`, `bin/run.rs`, `vm/host.rs`) | slots, cursor, two bounded pipes per worker, the worker loops | submit a batch, collect, respawn, drop | the host gives it batches and falls back to threads | workers interleave, fail, die; pipes fill up; replies outlive a failed batch | a batch gets its own results in order, every batch ends, no process is left behind |
| Disk cache (`cache/disk.rs`) | files `catnip_*` and their `.tmp` | get, set, delete, clear, prune | other processes on the same directory, without a lock | every system call is a point of interleaving; crashes; time | what is returned is whole and fresh, the size limit holds, eviction follows use |
| Struct registry (`vm/structs.rs`, `vm/frame.rs`, `vm/value.rs`) | slots with reference counts, free list, Python proxies, one registry per nested call | create, load, store, release, convert to and from Python, call, return, fail | VM instructions, Python's reference counts, callbacks | two reference-counting regimes; a callee works on a copy whose new slots are transplanted back | count = owners, free list exact, callees isolated |
| MCP debug session (`catnip_mcp/src/debug_session.rs`, `tools/debug.rs`, `catnip_vm/src/vm/debug.rs`) | VM thread, event and command channels, session map, step mode, breakpoints | start, continue, step, breakpoint | an agent's requests, possibly concurrent, with deadlines at both ends | three deadlines race with answers; dropped sessions; late commands | one request at a time has the session, commands reach the pause they answer, the program ends |
| Module loader of the pure VM (`catnip_vm/src/loader.rs`, `plugin.rs`, `pipeline/mod.rs`) | module cache and marks of imports in progress, shared by child loaders; reference-counted namespaces; function and struct tables of each VM; plugin registry | import whole, by names, of a plugin; end or fail of a module; clear, reset, reload | child pipelines, the tables of the VM that imports | recursion through user code, failure half way, cycles, a cleared cache under live closures, indices that move between tables | one namespace per file, a failed import leaves nothing, what is reachable keeps its globals and its functions |
| ND recursion (`nd/vm_decl.rs`, `vm/core/mod.rs`) | memo and depth counter of a handle, `nd_recur_stack` of each dispatch, thread-local abort flag | call of `recur` (as a frame, or through a child VM), return, error, catch | VM frames, broadcasts that run callbacks in between, Python | three records of one recursion kept in step by hand on every return, error and isolated sub-dispatch | the result is the lambda's own, depth and flag are back at rest |
| CFG, SSA and code motion (`catnip_core/src/cfg/`) | a graph, its dominators, the SSA form | build, licm, dse, gvn | the semantic pipeline | headers sealed late, conditional definitions, conditions and constructs that are not in the SSA form, names that calls read | the program means what it meant |
| ND worker's environment (`pipeline/executor.rs`, `freeze.rs`) | globals, types, imports a worker keeps between tasks | install, register | worker pool | reuse | a task sees its own batch's environment only |
| Memory cache, memoization (`cache/mod.rs`, `cache/memoization.rs`) | FIFO map, index of function names | get, set, invalidate | user's backends | limit, eviction behind the index | within the limit; invalidation is complete |
| JIT life cycle (`catnip_core/src/jit/`) | counters, hot and compiled sets, recorder, trace files | count, trace, abort, compile, guard failure | VM loop, disk | reuse over several programs, shared files | a compiled loop is the right program's |
| Python debug session and console (`catnip_rs/src/debug/`) | event and command channels, the thread, breakpoints, last pause; the GIL | start, send, wait, drop; prompt, REPL, quit | VM thread, the callback, Python code that owns the session | commands ahead or late, 5 × 60 s of retries, the lock held while waiting | as for the MCP session; dropping a session ends |
| Pure VM, Python VM cores | frames, stack, heap | opcodes | everything | calls back into Python | in part, through the components above |
| Parser, transforms, other semantic passes, compilers | none across calls | translate | the pipeline | – | meaning preserved |
| MRO, scopes, patterns, broadcast, deltas, freeze encoding | none, or one call's | pure algorithms | the VMs | – | proved in part in Coq (`proof/`) |
| LSP, REPL, formatter, linter, CLI, config, policy, libraries | documents, history, settings | request and reply | editor, terminal, OS | – | – |

## The models

Fourteen modules of the system and its promises, the `MC` modules that give the
constants their values, and a `...Proofs` module for each component but the CFG passes,
with `Facts` for the lemmas on sequences, numbers, sums and finite sets they share. Each
component's module stands alone; what belongs to a layer below has a module of its own (`CacheFiles` under `DiskCache`,
`VmDebug` under `McpDebug`, `IrCfg` and `BraunSsa` under `CfgPasses`), and
`BatchService` and `CacheMap` are the abstract specifications that `WorkerPool` and `DiskCache`
are checked against.

### WorkerPool, BatchService

The parent is `pc`: `submit_batch` is *send* then *recv*, and every blocking point
is a state of its own: a write to a full pipe (`SendTask`, `WriteShutdown`), a read
(`RecvOk`), `wait()` for a process (`Reap`), the handshake of a new process. A
worker is `proc[w]`: read, execute, write, as in `run_worker`. The two pipes of a
worker are sequences of at most `Cap` messages; a message is the task it belongs
to, `<<batch, seed>>`, and how it ended: `ok`, `err`, or `big` for a reply over
`MAX_MESSAGE_SIZE`. `Submit` picks the thread path, the existing pool or a new pool
nondeterministically, which stands for everything that may not be frozen.
`WorkerDies` can happen at any step of a live worker, `SpawnFails` at any spawn,
up to `MaxFaults` of both. What a failed spawn drops is not stopped: `Worker` has no
`Drop`, nobody kills the process or waits for it. It leaves its slot and is counted in
`strays` until it reads the end of its stdin (`StrayEnds`), in `zombies` from then on.

`BatchService` is what the caller sees: submit *n* seeds, get one answer, the
results of those seeds in order, or the error of one of its tasks. The refinement maps
*busy* to the parent's state and *answer* to the collected results, or to what the thread
path has recomputed: the batch's own results, or, if tasks may fail, its error (`MayFail`,
*failed*).

Properties: `CleanBatchInOrder` and `NativeLeavesClean` together say that order is
only lost after a batch that was given up; `NoOrphanWait` that the parent never
waits for a reply no living process owes; `OnlyFaultsLose` that between batches and after
the pool every process has a slot, but for those that failed creations dropped, at most
*N* for each; `BatchEnds`; `KeepsPromise`.

### CacheFiles, DiskCache, CacheMap

`CacheFiles` has the directory and the system calls on it. `fs::write` is two
steps (truncate, then the bytes), and an open file follows a rename, as on POSIX.
`DiskCache` has the calls of the cache, one step per system call that another
process can observe: *get* is `exists`, load, age, and perhaps a rewrite or a
removal; *set* is the rewrite, then a walk that measures the directory and, over
the limit, a walk that prunes it. `Crash` ends a process between any two steps and
leaves its files. Time is a counter; `stored` in an entry and `used` are history
variables, which no action reads.

`CacheMap` is what a process that has the directory to itself may take it for: a map from keys
to what was stored and when. A set changes it at one instant, the rename, or not at all if
the process dies before it; a get returns what was stored last, and misses only what has
passed its ttl; a clear that returns leaves nothing; no call fails. The refinement
(`ActsAsMap`) maps the map to the files under the entries' names, without their access
times, and the call at work to the step the process is at: rewriting an entry to refresh its
access time, tmp files, and every step of a walk that removes no entry are invisible. Time is
in it, because a get may refresh an entry that expires before the get returns.

Abstractions: a write of the bytes of one file is one step, so two writers who
share a temporary file are seen to truncate each other but not to mix bytes; `ttl`
and `max_size` are set (with `None` the code just skips the steps that use them);
the file-system timestamps used for entries of older versions, and `stats`, are
left out.

### StructRegistry

The stack of registries `regs`: the outermost VM's and one per nested call. An
operation runs under the GIL and is one step, cascade included. A struct has one
field: nil, a heap object whose global count is `obj`, or a struct. `root[i]`
counts the references to slot *i* on the VM's own stack and locals, which is the
caller-side truth the counts are compared to. A proxy has the registry it is anchored
on (`at`, 0 when that registry is gone), its slot, and the child registry that recorded
it (`by`, 0 if none) under which slot (`rec`), which is what `transplant_to_parent`
re-anchors by.

`Call` copies the caller's registry (`clone_from_parent`); `ReturnStruct` and
`ReturnOther` transplant the new slots back and drop the callee; `Fail` drops it
without. These are whole: transplant, re-anchoring, the proxies of the result, the
release of the VM's count, and the drop of the callee's registry are one action,
as they are one call.

`Taints` is a history variable's condition: it marks the calls after which copying
counts is *not* a transfer of ownership. The properties on counts hold up to the
first such call; what happens after one is the finding of `structs_uaf` and the
entries below. The condition is stated on the two registries at the return, not on
the effects, so `RefcountIsOwners` still says that every other call is right.

Abstractions: one field per struct; no cycles of structs (their conversion to
Python would not end); no types, methods, traits or frozen flag; a `__del__` that
runs inside a cascade; the globals map that caller and callee share: a VM's
roots are its stack and locals; and the return of `__call__` when an argument cannot be
converted (`frame.rs:1671-1674`), which leaves the thread's registry pointer at the callee's
(`from_pyobject` gives an error only if Python fails to read a float).

### VmDebug, McpDebug

`VmDebug` has the debugger's decisions as operators on a state: which instruction
pauses and what a command changes. `McpDebug` has the VM thread, which executes an
arbitrary instruction sequence given as a constant, the hook with its deadline, the
two channels (unbounded, as `mpsc` is), the session's place (in the map, held by a
request, dropped), and the requests of any number of callers. Every deadline is an
action that may be taken as soon as the awaited thing is missing, which covers
every duration; `late` and `slow` record that a deadline passed. A command carries,
as history, the number of the pause its caller had been shown.

Sessions share nothing but the map, so one session is modelled. `inspect` and
`eval` only read the last pause.

### PyDebug

The debugger of the Python VM has the same two channels as the MCP session, and a
lock: everything but waiting on a channel needs the GIL. `gil` is who has it; what a
thread does in one hold of it is one step, and `Yields` is the place where a
running program hands it over. The frontend is one of two: a *session*, an object
on which its owner may call `send`, `wait_for_event` and the destructor in any
order, or the *console*, a loop that prompts at each pause, with a REPL that reads
its input with the GIL held. The dispatch loop differs from the pure VM's (the
pause comes after the instruction, and instructions whose handlers continue the loop
themselves never reach it), so its decisions are here and not in `VmDebug`.

`late` and `ahead` are history: the callback went on by itself, a command was sent
with no pause to answer. A command carries the number of the pause its sender saw.

Abstractions: one start per session; a breakpoint is a source byte (the conversion
from a line is a function of the text); printing, `eval` and listing the variables
only read; a failing program may fail at any instruction; every instruction is
interpreted, as loops the JIT has compiled run without the debugger's test.

### Loader

`vms` is the stack of pipelines: the user's and one per module being imported. `env`
has, per module, its globals, and once it is loaded the namespace that holds them,
with its reference count. An import runs user code, so it is not one step:
`Enter` marks the module and starts its pipeline, the module's own statements are
imports (`CacheHit`, `LoadPlugin`, `Enter`) and deletions (`Forget`) in any order, and
`Finish` (tables appended, functions re-indexed, namespace built, cached, unmarked,
applied to the importer) or `Fail` ends it. `Define` and `Reset` (`clear_cache`, then
a new VM) are the user's. A global is a namespace or a function with the index of its
templates in the tables of the VM that runs it; `OwnImportsResolve` says the index is
right where it is used.

A module is what the cache knows it by: the text of the path that `resolve` returns. Two
such paths may lead to one file (`File`, a constant): a package's directory and its entry
file, a relative path that was not canonicalized. `OneNamespacePerPath` is therefore about
paths, and `OneNamespacePerFile`, about files, is violated (`loader_file`).

Abstractions: what a module exports is all it has, or what it defined itself
(`META.exports`, `__all__`); how a name becomes a path (a pure function, mapped as far as
the choice between plugin and file goes); a plugin's functions are names, found in the registry of the VM that calls; struct
and enum types move between tables by the same code as functions and are not told apart.

### NdRecur

The dispatches alive on one thread, innermost last, each with its frames and its
`nd_recur_stack`. `recur(v)` runs as a frame of the running dispatch (`RecurFrame`)
or through Python in a child VM (`RecurChild`); in between, broadcasts and other
calls run callbacks in an isolated sub-dispatch. An error unwinds to a handler of
the dispatch, or leaves it for whoever started it. The lambda is pure, and its
result at *v* is the token *v*, so that a result that belongs to another argument
can be told: `got` records the last call that returned, what was asked and what came.

What holds differs before and after a handler has unwound a frame of `recur`
(see below); `stale` is a history of that, and `OwnUntilUnwound` is conditional on
it. One handle is modelled. The hash is a constant, as the memo is keyed by it alone:
`OwnUntilUnwound` says that a result is that of an argument with the same hash, which is the
caller's own wherever hashes differ, as they do in `nd`; that it is always the caller's own
(`RecurReturnsOwn`) is violated by a collision (`nd_hash`) and by an unwound frame
(`nd_unwound`).

### IrCfg, BraunSsa, CfgPasses

`IrCfg` builds the graph as `IRCFGBuilder` does, in the same order of blocks and
edges. `BraunSsa` constructs the SSA form of one variable; the variables of a
program do not meet there except in the sealing of blocks. `CfgPasses` picks a
program, lowers its dominators to the fixpoint one block at a time in any order (the
code iterates over a `HashMap`), fills the straight blocks with text and applies one
pass, or dead stores and then value numbering. Then the program before and after
run side by side on every path, with the values as tokens of where they were
computed; wherever something can tell the variables apart, `ok` records whether they agree.

What can is the same for every pass: a call; an operation, or a condition on one, which may
fail or run a user's operator that reads any variable by name; an error; the end.
`prog.native` says that the program's values have operations that do neither.
`prog.kept` says that the variables have values from before, as in a later input of the REPL;
otherwise none is assigned, and to read one that is not (a copy too) raises `NameError`
and ends both programs, with their variables compared.

`UsesReachDefs` compares the SSA form with reaching definitions computed on the
graph by their definition. The other three say that a pass preserves the program, with
the premises that the code needs and does not have: `HoistPreserves` holds of native
operations and until an unassigned variable is read; `DsePreserves` leaves out reads that the
use counts miss (`Miscounted`) and what its tests on the text do not see (`Unforeseen`: a copy or condition
that raises, a removed copy that would have, a condition on a value from before); `GvnPreserves` leaves out the same after
stores were removed, and variables that a match arm assigns. The configurations `cfg_overload`, `cfg_unbound`,
`cfg_counts` and `cfg_arms` have the properties without these premises and find the
programs that break them.

Abstractions: two variables; the variable of a `for` exists before its loop, so that programs with
one are run with `kept` only; the arms of a `match` set one variable or none; operations are one
pure form; what a hoisted operation itself sees is not compared; code motion is not
composed with the other two passes.

## The runs

Bounds are the constants of the configurations. Every passing run explores its
state space completely.

| Run (`MC` module) | States | Shows | Bounds, and why they are enough |
|---|---|---|---|
| `pool_safety` (`MCWorkerPool`) | 89 363 | type invariant, order, residue, waiting, processes, under failing tasks and one fault; and that every batch and the drop end | 2 workers, 2 batches of 0 to 3 seeds: a worker gets two tasks of one batch, another none; a fault falls in any phase and is followed by a batch. Pipes of 6 hold two batches of 3, so that a full pipe does not hide the rest. The proofs lift all but the liveness to every bound |
| `pool_promise` (`MCWorkerPool`) | 2 286 | refinement of `BatchService`, with liveness, without failures | 3 batches: the cursor takes every position, pools are reused twice; pipes of 2 messages fill |
| `pool_stale` (`MCWorkerPool`) | violation | a result of batch 1 is returned for a seed of batch 2 | one failing task suffices |
| `disk_alone` (`MCDiskCache`) | 307 498 | the promises to a process alone: it finds a map (refinement of `CacheMap`), limit, order of eviction, with expiry and one crash at any step | 2 keys, 2 sizes, limit 2 (two smalls fit, a big and a small do not), ttl 3, refresh 2, 4 instants: before, at and after each boundary |
| `disk_shared` (`MCDiskCache`) | 160 104 | what two processes on one key still have: freshness, and a partial file has a writer | 1 key: processes that use different keys meet only in the walks, and there a name that appears or vanishes under the walker is already the second process's doing on the one key |
| `structs` (`MCStructRegistry`) | 611 232 | counts, heap objects, free list, isolation with callbacks inside callbacks | 2 slots, 1 proxy, 2 references per slot, 3 registries: a struct that refers to a struct, an old and a new slot at a return, reuse of an index, a proxy re-anchored twice. The proofs lift all four to every bound; two proxies with two registries, and two proxies with three registries and one reference per slot, were also checked |
| `structs_uaf` (`MCStructRegistry`) | violation | a struct the caller owns is freed | the first call suffices |
| `mcp_session` (`MCMcpDebug`) | 506 744 | ownership of the session, commands, results, order of pauses, stepping, termination | 2 callers, so that a request can meet another's; a program with a call that returns to the same source byte, and one with two Breakpoint opcodes |
| `py_session` (`MCPyDebug`) | 452 352 | commands, the end of a session, a console and a program, visits of a breakpoint | both frontends; a program of 5 instructions with a call and a byte visited twice, one of 3 with Breakpoint opcodes; 2 retries instead of 5, since a retry only counts; one command ahead, as a second one is taken like the first |
| `loader` (`MCLoader`) | 590 940 | marks, cache, reference counts, late-bound globals, indices | 2 modules, one of them closed, and a plugin: a cycle, a chain, and the user's own import of what a module imports; tables of 3 entries, so that both modules' templates are shifted |
| `nd` (`MCNdRecur`) | 1 893 274 | own results, entries, depth, abort flag | 2 arguments, depth limit 2, 4 frames over all dispatches: a recursion inside a callback inside a recursion, the limit reached from both paths, an error at each level |
| `cfg` (`MCCfgPasses`) | 120 010 | reaching definitions, and that each pass preserves the program | 24 shapes with every construct alone, in sequence and nested, times 11 texts of up to 2 instructions for each straight block; operations native or not, variables assigned before or not; 4 turns of a loop |

Deadlock is checked except in `structs` and `structs_uaf` (a VM with nothing left
to do, or at a bound), the runs of the debug sessions (a session that is over), of the
loader (a pipeline at its bound) and of the passes (a program that has ended).

More configurations are kept for the counterexample that TLC finds in each, within a
minute: what a comment or a page of the documentation says and the code does not keep, or a
property without one of its premises (see "What the code does otherwise than it says"). They
are not among the runs of `PROJECT.json`. `pool_full.cfg` does without the deadlock check, as the
deadlock is the counterexample to its property.

| Configuration (`MC` module) | Violated | Counterexample |
|---|---|---|
| `pool_full` (`MCWorkerPool`) | `BatchEnds` | parent and worker block in two writes: one worker, pipes of one message, four seeds |
| `disk_torn` (`MCDiskCache`) | `EntriesWhole` | an entry is published half-written by two writers of one key, without a crash |
| `mcp_timeout` (`MCMcpDebug`) | `TimeoutKeepsSession` | the timeout of the first request drops the session of a running program |
| `py_repl` (`MCPyDebug`) | `ProgramEndsInRepl` | the program stays suspended while somebody is in the REPL |
| `loader_file` (`MCLoader`) | `OneNamespacePerFile` | two paths to one file, imported one after the other, have two namespaces |
| `loader_nested` (`MCLoader`) | `ImportsResolve` | a module that a failed one had imported is cached, with functions whose table is gone |
| `nd_hash`, `nd_unwound` (`MCNdRecur`) | `RecurReturnsOwn` | a recur returns another argument's result: by a collision of hashes, after a caught error |
| `cfg_overload` (`MCCfgPasses`) | `HoistHiddenFromOperators` | a user's operator finds a hoisted variable set too early |
| `cfg_unbound` (`MCCfgPasses`) | `DseHiddenFromErrors` | a store is gone when the copy that was to kill it raises |
| `cfg_counts` (`MCCfgPasses`) | `DseCountsEveryRead` | a store that a condition reads is removed |
| `cfg_arms` (`MCCfgPasses`) | `GvnSeesArms` | a value from before a match is reused although an arm has set the name |

Each property of a passing run has a mutant of a mapped definition that breaks it:
results read in reverse, a cursor not wrapped, a temporary file written in place, an
access that renews an entry, holes of a transplant forgotten, an error not sent, a
mark not removed, an entry popped by the wrong return, a session joined with the GIL held,
and so on. Where a mutant is written out beside its definition, it is marked
as a fault and nothing uses it.

## Fairness

- `WorkerPool.FairSpec`: weak fairness of the parent's steps and of each worker's.
  They are processes that the operating system schedules; a blocked read or write
  is a disabled action. Nothing is assumed of deaths, failed spawns or the caller,
  except that a handshake with a dead process fails in the end (end of file).
- `BatchService`: an answer comes in the end; this is what `KeepsPromise` checks
  of the pool by way of the above.
- `McpDebug.FairSpec`: weak fairness of the VM thread, whose waits all have
  deadlines, and of the end of each wait of a request, for the same reason. Nobody
  is assumed to send a command. That a debugged program terminates by itself is
  built in: the programs are finite sequences.
- `PyDebug.FairSpec`: weak fairness of the VM thread and of the frontend's own
  steps: threads that can run do, the GIL reaches who waits for it (the interpreter
  makes a running thread give it up), deadlines pass. The calls of a session's owner
  and what is typed at the prompt are not assumed to come. `ProgramEnds` has the
  premise that somebody in the REPL leaves it for good; without it the property is false.
- `DiskCache`, `StructRegistry`, `Loader`, `NdRecur` and `CfgPasses` state safety
  only: their operations are calls that return, none waits for another party.

## The proofs

Each is about `Spec`, the module's specification without fairness, and holds for every
value of the constants its assumptions allow. The assumptions are named, in the
component's module, and TLC evaluates them on every run: bounds are natural numbers,
programs are not empty, the proxies and the modules are finite sets, "absent" and "half
written" are no entries. A theorem with a hypothesis of its own is marked below; each
hypothesis is what the code can promise at most, and a run shows the failure without it.

A proof has the same shape everywhere: an inductive invariant, one lemma per conjunct
or per action for its step, and the properties of the runs as its consequences. The
invariants are definitions of the `...Proofs` modules and were checked with TLC before
they were proved.

**WorkerPoolProofs**: any number of workers, capacity, bounds.

- `CleanBatchCorrect`, `NativeLeavesCleanCorrect`, from `OrderInv` (`OrderCorrect`).
  `CleanBatchInOrder` says what was collected, not that the next reply is the right one.
  `OrderInv` adds, for each worker of a clean batch, that what is in transit belongs to
  seeds given to it and not yet collected, in increasing order across its reply pipe, the
  task at work and its command pipe (`QueuesInOrder`), and that no such seed is missing
  unless a death took it (`NoneMissing`). So the head of the pipe that is read next is the
  least seed outstanding there, which is the one waited for (`NextReply`). The rest is
  about phases: a handshake in transit, a new pool that has served nothing, a worker stuck
  in an oversized reply.
- `OnlyFaultsLoseCorrect`, from `ProcessesHeld` (`ProcessesCorrect`: a worker has a process
  exactly when its slot holds one, but for the one that is being replaced or created, and a
  pool that is dropped has none left before it) and a bound on the processes that nobody waits
  for: a failed creation drops at most *N*, and no other step drops any.
- `NoOrphanWaitCorrect`, from `DebtsInTransit` (`DebtsCorrect`): what a living worker owes
  is never more than what is in its pipes and its hands. It is a count, so it holds for
  batches that met an earlier one's replies too, of which `OrderInv` says nothing.
- `QuietPoolKeepsPromise`: the first state is one of `BatchService`, and each step of a
  batch that found the pool quiet is a step of `BatchService` or a stutter, whatever fails,
  on the thread path too (from `OrderInv` and `Answering`). `SoundPoolImplementsService` is the refinement itself,
  of a pool with no faults and no failing task (`MaxFaults = 0`, `Fates = {"ok"}`;
  otherwise `pool_stale` refutes it), where `NothingFails` has every batch find the pool quiet.

**McpDebugProofs**: any callers, any programs. `SessionInv` (`SessionCorrect`) has who waits for the
session (`Ownership`), what the event channel holds (`EventsInOrder`: the pauses after the
last one shown, then the result), whose turn it is until a command is late (`TakeTurns`),
and that the debugger's state is what the last command made of it (`StepsAsTold`). From it
`OneOwnerCorrect`, `CommandsCorrect`, `ResultCorrect`, and the action properties
`PausesInOrder` (`NoPauseSkipped`) and `StepsCorrect` (`StepStaysShallow`).

**PyDebugProofs**: any programs and breakpoints, any number of commands ahead. `TurnInv`
(`TurnCorrect`) finds the one unanswered pause in one place: an event, with the frontend, or
the command that answers it; hence `CommandsCorrect`. `VisitInv` (`VisitCorrect`) relates the byte
the debugger remembers to the stretch of the program executed since it was entered, in both
directions; hence `VisitsCorrect`, that a breakpoint pauses on every visit and once.

**DiskCacheProofs**: any keys, sizes, ages. First for any number of processes: `SharedInv`
(`SharedCorrect`) knows that a file lies under its entry's key, that an entry in hand was
stored when it says, and that an open file is being written by a process at work on that
key; hence `HitsCorrect` (an action property) and, while nobody has crashed, `WritersCorrect`. Then
for one process, the hypothesis `Alone`: `AloneInv`
(`AloneCorrect`) has what the process holds lie unchanged in the directory
(`NothingMoves`) and an entry's access time less than `Bump` behind its last use
(`LastUse`); hence `EntriesCorrect`, wherever the process dies, and `EvictionCorrect` (with
`Bump > 0`, as the code's 60 s are). With two processes `EntriesWhole`, what `EntriesCorrect` proves
for one, is violated (`disk_torn`).

`WalkInv` (`WalkCorrect`) follows the two walks of a set: the running total is the size of what
`get_cache_size` has visited, and every file that still lies in the directory is one that prune
has yet to visit, visits or has read; hence `LimitCorrect`, the tmp files of a process that died
included. The sum over a set of files that both walks stop on is the cardinality of a pile with
one element per byte (`Facts!Weight`), which can be split without induction on the set. That
the directory is finite, without which the sum has no meaning, is not an assumption: a
step makes at most one file (`FiniteListing`).

`ServeInv` (`ServeCorrect`) is what the refinement of `CacheMap` needs besides: what the process
finds is there at its next step, what it evicts is the entry it read and has expired, and a clear has
removed what it has visited. From it `MapCorrect`: every step is a step of `CacheMap` or a stutter,
and the steps in which a call fails never happen (`NothingFails`).

**NdRecurProofs**: any limits, any values. `RecurInv` (`StepsInStep`) says that
each frame of `recur` has its entry, in order, and no other entry exists until one is
unwound (`StackInv`), and that the entries and child VMs whose depth will be given back
never exceed the counter, with equality until an error is caught (`OwedInv`, a cardinality over all
dispatches). From it `EntriesCorrect`, `AbortCorrect`, `TypeCorrect` (the counter is never negative,
which is not inductive by itself), and `DepthCorrect`, by a bijection of entries and
frames. `OwnCorrect` adds what the memo holds (`MemoInv`), for any hash: an entry is the result
of some argument with that hash, and so is what a recur returns (`SameKey`).

**LoaderProofs**: any modules, plugins and table sizes. `MarkInv` (`StackCorrect`) makes the
marks the paths of the pipelines on the stack, each once, and the cache disjoint from
them; hence `MarksCorrect`. `EnvInv` (`EnvCorrect`) counts references: each namespace has as
many as globals and exports hold it, plus one from the cache. In the middle of a step counts are also
owed by values being dropped, so the lemmas carry an outside reference count per
namespace (`Counted(E, C)`), and the cascade of drops is followed round by round. A reset
frees everything only because no namespaces refer to each other in a circle (`Acyclic`)
and nothing refers out of the cache (`Reaches`). Hence `RefcountCorrect`, `NamespacesCorrect`,
`ClosuresCorrect`. `OwnInv` (`TablesCorrect`) follows the functions of the modules that the
user's pipeline imports itself from table to table: while such a module runs, second on the stack,
they are indexed by its own table; when it ends, its table is appended to the user's and every
global and export shifted by what was there before; and no pipeline further down the stack
has any of them in its table, so that no other remap touches them. What a release drops can only
take functions away (`Fades`). Hence `OwnImportsCorrect`, since whatever the user's code
reaches, however many namespaces deep, some module still holds (`ReachedHeld`).

**StructRegistryProofs**: any slots, depth, roots, proxies. `Sound` (`SoundCorrect`) has the
types and the free list of every registry on the stack; hence `FreeListCorrect`,
`IsolatedCorrect`. `CountsHold` (`CountsCorrect`) has, until `tainted`:

- in every registry, a struct's count is the fields, roots and proxies *of that level* that
  name it, and at least that for a copy of a caller's struct, whose count was copied with it;
- the outermost registry has no copies;
- a proxy names no copy, unless it is still under the name a child recorded, which is what the
  child's return re-anchors; a proxy is never anchored below the registry that recorded it;
- the heap object's count is the number of fields, over all registries, that hold it.

A release carries one reference that is due (`Due`) down a chain of structs, as a recursive
function on the slots that are left; its effect on all counts is followed with an outside
count per slot that loses one. The sharp cases are the returns: new slots move to the caller's
table, their counts with them, fields that name copies become the caller's own references, and
every proxy of the level is re-anchored or let go (`ReturnStruct`, `ReturnOther`, `Fail`).
Hence `RefcountCorrect`, `ObjectCountCorrect` and `OwnedWhileApart`: until a call mixes the structs
of two registries, nothing that is owned is freed, so the taint is the only way to the
counterexample of `structs_uaf`.

The folds and recursive functions (rounds of drops, chains of releases, the memo, what the user's
code reaches) are reasoned about by `Facts!Induction` and `Facts!IterationExists`. The first states
induction for a set of numbers and not for an operator, and needs a set to be written for each
use; the second gives the function that a recursion of bounded depth defines.

Model-checked only:

- liveness (`BatchEnds`, the fairness half of `KeepsPromise`, `ProgramEnds`, `SessionGoesAway`,
  `ConsoleSeesEnd`): it rests on fairness, thus ENABLED, which the prover does not handle;
- the properties of `CfgPasses`: with `IrCfg` and `BraunSsa` it is written with RECURSIVE
  operators, over programs that are trees, which the prover does not take.

## What the code does otherwise than it says

An entry that names a configuration in brackets has its counterexample there; those of the
runs `pool_stale` and `structs_uaf` are listed in `findings`. The others were seen while
modelling; the module with the bound or the property named shows them, or reading the lines does.

*Pool.* A failed task ends the batch with other replies in the pipes, which the next batch takes
for its own (`worker_pool.rs:133-138`; `pool_stale`). A batch larger than its pipes blocks parent
and worker in two writes (`worker_pool.rs:109`; `pool_full`). When the creation of a worker fails,
the workers before it are dropped and never waited for (`worker_pool.rs:74-75`). `respawn` is commented "Drop
old worker (kills process)" (`worker_pool.rs:164`), but `shutdown` writes a command and
waits: a worker in the middle of a reply over `MAX_MESSAGE_SIZE` never reads it, and the
parent waits for ever (the fate `big`).

*Disk.* The temporary name is made from the entry's name only (`disk.rs:388`): the first of two writers to
rename publishes what the second has written so far (`disk_torn`), and the second's rename fails;
`docs/dev/CACHE.md:110` promises atomic writes with several processes. `jit/trace_cache.rs:123` has
the same protocol (`CACHE.md:253`). `get` removes a file it found corrupt or expired by
name (`disk.rs:99`, `:112`); by then another process may have stored a good one.

*Structs.* A slot the caller loses during a call is transplanted back without an
owner, since "new" means "the caller has no such slot now" (`structs.rs:1299`; `structs_uaf`).
For the same reason a callee that frees one of its copies and creates a struct at
that index returns the caller's unrelated struct (`frame.rs:1695`). A proxy made
inside a callee is not trusted there (`value.rs:1492`, comment at `:1487`): the
struct is re-created and its identity lost.

*MCP.* `docs/tools/mcp.md:205` and `:208` describe a status "timeout" after which
"l'agent peut réessayer"; `tools/debug.rs:77-97` takes the session out of the map
and puts it back only after a pause, so a timeout drops it (`mcp_timeout`). A pipeline that
cannot be created is reported as "Timeout waiting for breakpoint handle"
(`debug_session.rs:95-101`, `:137-139`), its error unread. After the hook's 60 s,
a later command resumes a pause its caller has not seen, and `inspect` shows an
older one. A command sent after the program has finished fails on the closed
channel and the result, waiting in the event channel, is dropped.

*Python debugger.*
- Breakpoints set while paused never reach the VM: `add_debug_breakpoint` needs the VM
  object mutably (`lib.rs:240-247`), which `execute` has borrowed (`lib.rs:266`) for the whole run;
  `session.rs:377` says "at runtime (while paused)". The console ignores the error and
  prints that the breakpoint is set (`console.rs:109-122`).
- The REPL waits for its input with the GIL held (`console.rs:476`): the thread's 300 s
  pass, but it cannot go on. `docs/tools/debug.md` gives them as the guard against
  suspending for ever (`py_repl`: `ProgramEnds` without its premise).
- The console's *quit* leaves the thread running and restores `vm_mode` under it; a
  `DebugSession` never restores it, though `docs/tools/debug.md` (limitation 4) says so.
- Instructions whose handler continues the loop (calls, returns, loads by name) never
  reach the pause: a breakpoint is met at the next plain instruction of its byte.
- A command sent ahead, or after the callback has gone on, is taken by another pause;
  the event channel never disconnects, as the VM object keeps the callback's sender;
  a second `start` is not refused.

*Loader.*
- The cache is keyed by the text of the path (`loader.rs:193-204`, `:279-292`), which is a package's
  directory or its entry file depending on how the package is named (`:444`, `resolve.rs:160-175`),
  and as it was written for a relative path (`resolve.rs:199-222`): one file can be loaded twice, and
  its state exists twice (`loader_file`).
- The remap leaves namespaces as they are (`loader.rs:885`; the comment at `:528-531`
  has closures deep-remapped): functions of a module that a module imports keep indices into the
  importing module's own tables, which its importer copies elsewhere, and the shared cache hands them to other
  pipelines (`loader_nested`: `OwnImportsResolve` without `by = 1`).
- `execute_output` re-indexes functions of an input in top-level constants only
  (`vm/core/mod.rs:376-406`); a module that fails after it has imported another
  leaves that one cached, with indices into tables that are gone.
- A child pipeline gets a plugin registry of its own (`pipeline/mod.rs:214-217`) although
  `loader.rs:127` shares it: a plugin first imported by a module is in the shared cache, and
  its functions are found in that module's pipeline only (`host/mod.rs:454-462`).

*ND recursion.*
- An error caught inside a recursion pops frames of `recur` and leaves their entries
  (`vm/core/mod.rs:7475-7489`): a later return at the same depth stores another function's
  result under the failed argument (`docs/lang/ND_RECURSION.md:230` says otherwise; `nd_unwound`).
- The memo's key is the 64-bit hash alone (`vm_decl.rs:165`, `:190`; `vm/core/mod.rs:3738`), and
  Python gives -1 and -2 one hash (`nd_hash`).
- A failed child VM or sub-dispatch clears its entries and does not give their depth back
  (`vm/core/mod.rs:1740`, `:1798`). After a caught depth error every error is worded as
  that one until the outermost call ends (`frame.rs:1688`). The parallel handle sets the
  flag on pool threads, where nothing clears it (`vm_decl.rs:319`).
- `docs/lang/ND_RECURSION.md:298` gives the limit as 200, `constants.rs:157` has 300; memoization is on in
  context mode (`host.rs:635`) though `nd_memoize` defaults to False (`PRAGMAS.md:49`).

*CFG* (the passes run behind `CATNIP_CFG_INTERNAL`). Each but the last is a premise of a property:
- Dead stores, uses: an operand of a phi that is read and then overwritten in its block is
  counted as unused (`ssa_dse.rs:333`): `if c {x = 1} else {x = 2}; y = x; x = 3`.
  Conditions are not among the uses (`:252`): `x = 1; if x {...} else {...}; x = 2` (`cfg_counts`).
  Targets of a `for` do not make a condition on them opaque (`:157`).
- Dead stores, kills: a copy is taken not to fail if its name is assigned anywhere in the program
  (`:86`): `if c {y = 1}; y = x; x = 2` loses `y = 1`, which is missed when `y = x` raises
  (`cfg_unbound`). A condition on a name that is only set to literals is taken for scalar, though the
  name may have a value from before, with a `__bool__` of its own.
- Value numbering: an assignment in a match arm has no SSA definition, so an expression
  is reused across it (`cfg_arms`). Code motion and dead stores account for it (`ssa_licm.rs:150-155`).
- Code motion takes operations as unable to fail or dispatch, which `ssa_dse.rs:13-14` and
  `ssa_cse.rs:50-54` say they can (`cfg_overload`).
- Without effect on the programs checked: nothing is moved out of an outer loop of a
  nest, as trivial phis are removed in their own block only; `idom` is always the entry block
  (`analysis.rs:111-119`); unreachable blocks are dominated by all and make loop headers.

## What is not modelled

Listed in `PROJECT.json` with the reason for each. The map covers a few percent of the
repository's lines, and a large part of the rest has no state that outlives a call:

- Parser, transforms, semantic passes other than the three above, bytecode compilers,
  formatter, linter, deltas, C3 linearization, and the encoding of frozen values are pure functions over
  unbounded trees or bytes, which TLC cannot enumerate in an interesting size; the
  repository treats them in Coq (`proof/`) and by property tests.
- The opcodes of the two VMs are sequential computation over values. They appear as far
  as they touch structs, ND recursion, imports and the debugger. A model of the rest would
  repeat the program.
- The JIT's code generation and guards need a semantics of machine code; the counting and
  recording before it only has a meaning together with them.
- LSP, REPL, CLI, configuration and libraries are input and output around the rest.
- The worker's tasks are opaque: what a reused worker knows from earlier tasks grows with
  every program and depends on no interleaving. The memory cache and its index are
  sequential and tested; the trace cache has the disk cache's protocol.

Partly modelled components leave out: of the structs, types, methods, cycles and the
shared globals map; of the loader, the Python VM's and the search path; of ND recursion, the
handles of Python callables and of the pool threads; of the CFG, liveness, regions,
induction variables and the reconstruction of the tree.

## Plan

The system's modules are written, and every safety property of the components but the CFG passes
is proved. Liveness and the properties of `CfgPasses` stay with TLC. What would add
most: abstract specifications of the loader (a map from paths to namespaces, one
import at a time) and of the debug sessions (one pause, one command), as the pool and the disk
cache have, and the proof that the modules implement them.
