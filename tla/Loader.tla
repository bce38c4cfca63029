------------------------------- MODULE Loader -------------------------------
(***************************************************************************)
(* Imports of the pure VM (catnip_vm/src/loader.rs).  A module runs in a   *)
(* child pipeline of its own, whose loader shares the cache and the marks  *)
(* of imports in progress; when it is done its function templates and      *)
(* types are appended to the tables of the VM that imported it, and what   *)
(* it exports becomes a namespace.                                         *)
(*                                                                         *)
(* vms is the stack of pipelines, vms[1] the user's.  env[k] is the map of *)
(* globals of module k and, once it is loaded, the namespace that keeps    *)
(* them; env[User] has the user's globals.  A global is <<"ns", k, 0>>, a  *)
(* namespace, or <<"fn", k, at>>, a function of k whose code refers to the *)
(* templates of its module at index `at` of the tables of the VM that runs *)
(* it.  What a native plugin exports are names, looked up in the plugin    *)
(* registry of the VM that calls: no global refers to them.                *)
(***************************************************************************)
EXTENDS Integers, FiniteSets, SequencesExt

CONSTANTS Mods,      \* the paths imports of .cat files resolve to: the keys of the cache
          File,      \* File[k]: the file that is read for k.  A package by its name is the
                     \* path of its directory, its entry file by a dotted name another path
          Closed,    \* those that export only what they define (META.exports, __all__)
          Plugins,   \* the native modules
          MaxTable   \* bound: entries of a VM's tables

VARIABLES vms, env,
          cache,     \* the keys in the cache
          marks      \* in_progress

vars == <<vms, env, cache, marks>>

User == "user"
Keys == Mods \cup Plugins

ASSUME LoaderConstants == MaxTable \in Nat /\ Closed \subseteq Mods
                          /\ Mods \cap Plugins = {} /\ User \notin Keys /\ IsFiniteSet(Keys)

ASSUME FileAssumption == DOMAIN File = Mods

\* A ModuleNamespace, or the globals of a module that runs; `by` is the level of the
\* pipeline that imported it (history).
Unused  == [st |-> "unused", refs |-> 0, globals |-> {}, exports |-> {}, by |-> 0]
UserEnv == [Unused EXCEPT !.st = "running"]
\* PurePipeline::new: empty tables, an empty plugin registry.
UserVM  == [key |-> User, table |-> <<>>, plugins |-> {}]

Init == /\ vms = <<UserVM>>
        /\ env = [k \in Keys \cup {User} |-> IF k = User THEN UserEnv ELSE Unused]
        /\ cache = {} /\ marks = {}

Depth  == Len(vms)
Cur    == vms[Depth]
Caller == vms[Depth - 1]
Spaces(S) == {g[2] : g \in {h \in S : h[1] = "ns"}}
-----------------------------------------------------------------------------
\* Reference counts of namespaces.

\* A fault: the cache's reference is forgotten.
FaultNotPinned == 1
\* A new namespace is owned by its importer and by the cache.
OwnersAtBirth == 2

Incref(E, S) == [k \in DOMAIN E |-> IF k \in S THEN [E[k] EXCEPT !.refs = @ + 1] ELSE E[k]]

\* Drop for ModuleNamespace: release the exported values, then drain the globals.
DropDead(E) ==
    LET dead == {d \in Keys : E[d].st = "live" /\ E[d].refs = 0}
        lost(k) == Cardinality({d \in dead : k \in Spaces(E[d].exports)})
                   + Cardinality({d \in dead : k \in Spaces(E[d].globals)})
    IN  [k \in DOMAIN E |-> IF k \in dead THEN Unused ELSE [E[k] EXCEPT !.refs = @ - lost(k)]]

\* Value::decref of each member of S, with what that drops in turn.
Decref(E, S) ==
    LET start == [k \in DOMAIN E |-> IF k \in S THEN [E[k] EXCEPT !.refs = @ - 1] ELSE E[k]]
        after[n \in 0..Cardinality(Keys)] == IF n = 0 THEN start ELSE DropDead(after[n - 1])
    IN  after[Cardinality(Keys)]

\* A fault: what is overwritten is not released.
FaultOverwrite(E, to, S) ==
    LET names == {<<g[1], g[2]>> : g \in S}
    IN  [E EXCEPT ![to].globals = {g \in @ : <<g[1], g[2]>> \notin names} \cup S]
\* store_global of owned values: what they replace under the same name is released.
Stored(E, to, S) ==
    LET names == {<<g[1], g[2]>> : g \in S}
        old   == {g \in E[to].globals : <<g[1], g[2]>> \in names}
    IN  Decref([E EXCEPT ![to].globals = (@ \ old) \cup S], Spaces(old))

\* apply_import_mode on an owned reference to the namespace of k: the whole namespace,
\* some of its names (or, wild, all), or a name it lacks.
Applied(E, to, k, mode) ==
    CASE mode.form = "whole"   -> Stored(E, to, {<<"ns", k, 0>>})
      [] mode.form = "missing" -> Decref(E, {k})
      [] mode.form = "names"   -> Stored(Decref(Incref(E, Spaces(mode.names)), {k}), to, mode.names)

Modes(exports) == [form : {"whole", "missing"}, names : {{}}]
                  \cup [form : {"names"}, names : ({exports} \cup {{g} : g \in exports}) \ {{}}]
-----------------------------------------------------------------------------
\* load_with_params: the running module imports k.

CacheHit(k) ==
    /\ k \in cache
    /\ \E mode \in Modes(env[k].exports) : env' = Applied(Incref(env, {k}), Cur.key, k, mode)
    /\ UNCHANGED <<vms, cache, marks>>

\* try_load_stdlib_plugin and the Native branch: into the registry of this pipeline.
LoadPlugin(k) ==
    /\ k \in Plugins \ (cache \cup Cur.plugins)
    /\ LET E == [env EXCEPT ![k] = [Unused EXCEPT !.st = "live", !.refs = OwnersAtBirth, !.by = Depth]]
       IN  \E mode \in Modes({}) : env' = Applied(E, Cur.key, k, mode)
    /\ cache' = cache \cup {k}
    /\ vms' = [vms EXCEPT ![Depth].plugins = @ \cup {k}]
    /\ UNCHANGED marks

\* A path: refused if marked, else marked, and a child pipeline starts on it.  Its
\* own plugin registry replaces the shared one (set_import_loader), its own code is
\* compiled first.
Enter(k) ==
    /\ k \in Mods \ (cache \cup marks)
    /\ marks' = marks \cup {k}
    /\ env' = [env EXCEPT ![k] = [Unused EXCEPT !.st = "running", !.globals = {<<"fn", k, 1>>}, !.by = Depth]]
    /\ vms' = Append(vms, [key |-> k, table |-> <<k>>, plugins |-> {}])
    /\ UNCHANGED cache
-----------------------------------------------------------------------------
\* The end of load_cat_file.

Resolves(g, table) == g[3] \in DOMAIN table /\ table[g[3]] = g[2]

\* A fault: the remap leaves functions alone.
FaultNoRemap(S, table, base) == S
\* ClosureGraphRemap::value on the child's globals: functions whose code is one of
\* the child's templates follow it into the caller's table; namespaces are left.
Remapped(S, table, base) ==
    {IF g[1] = "fn" /\ Resolves(g, table) THEN <<"fn", g[2], g[3] + base>> ELSE g : g \in S}

HasCaller == Depth > 1
\* transplant_functions, transplant_structs, transplant_enums.
Transplanted == Caller.table \o Cur.table
Popped(table) == Append(Front(Front(vms)), [Caller EXCEPT !.table = table])
\* A fault: the mark of a finished or failed import stays.
FaultMarkStays == marks
Unmarked == marks \ {Cur.key}

\* The module ran: a namespace with what it exports; a reference for the cache and one
\* for the importer, who applies the mode.
Finish ==
    /\ HasCaller /\ Len(Transplanted) <= MaxTable
    /\ LET k       == Cur.key
           globals == Remapped(env[k].globals, Cur.table, Len(Caller.table))
           exports == IF k \in Closed THEN {g \in globals : g[2] = k} ELSE globals
           E       == [env EXCEPT ![k] = [@ EXCEPT !.st = "live", !.refs = OwnersAtBirth,
                                                   !.globals = globals, !.exports = exports]]
       IN  /\ \E mode \in Modes(exports) :
                  env' = Applied(Incref(E, Spaces(exports)), Caller.key, k, mode)
           /\ cache' = cache \cup {k}
    /\ vms' = Popped(Transplanted)
    /\ marks' = Unmarked

\* clear_globals of the child's host, whose map nobody else keeps.
Cleared(E, k) == Decref([E EXCEPT ![k] = Unused], Spaces(E[k].globals))

\* An error while it ran, or one in META.exports, after its tables were transplanted.
Fail(late) ==
    /\ HasCaller /\ (late => Len(Transplanted) <= MaxTable)
    /\ env' = Cleared(env, Cur.key)
    /\ vms' = Popped(IF late THEN Transplanted ELSE Caller.table)
    /\ marks' = Unmarked
    /\ UNCHANGED cache

\* A global is overwritten or deleted.
Forget(g) ==
    /\ g \in env[Cur.key].globals
    /\ env' = Decref([env EXCEPT ![Cur.key].globals = @ \ {g}], Spaces({g}))
    /\ UNCHANGED <<vms, cache, marks>>

\* execute_output: another statement of the user's, which defines a function.
Define ==
    /\ Depth = 1 /\ Len(Cur.table) < MaxTable
    /\ vms' = [vms EXCEPT ![1].table = Append(@, User)]
    /\ UNCHANGED <<env, cache, marks>>

\* A fault: the user's globals survive a reset.
FaultKeepsGlobals ==
    /\ Depth = 1
    /\ env' = Decref(env, cache) /\ cache' = {} /\ vms' = <<UserVM>> /\ UNCHANGED marks
\* clear_cache releases what the cache holds; reset then drops the plugin registry,
\* the VM and the user's globals.
Reset ==
    /\ Depth = 1
    /\ env' = Decref([Decref(env, cache) EXCEPT ![User] = UserEnv], Spaces(env[User].globals))
    /\ cache' = {}
    /\ vms' = <<UserVM>>
    /\ UNCHANGED marks

Next == \/ Finish
        \/ \E k \in Keys : CacheHit(k) \/ LoadPlugin(k) \/ Enter(k)
        \/ \E late \in BOOLEAN : Fail(late)
        \/ \E g \in env[Cur.key].globals : Forget(g)
        \/ Define
        \/ Reset

Spec == Init /\ [][Next]_vars
-----------------------------------------------------------------------------
\* Properties.

Modules == Keys \cup {User}
Globals == ({"ns"} \X Keys \X {0}) \cup ({"fn"} \X Mods \X Nat)
Entries == [st : {"unused", "running", "live"}, refs : Int, by : Nat,
            globals : SUBSET Globals, exports : SUBSET Globals]
VMs     == [key : Modules, table : Seq(Modules), plugins : SUBSET Plugins]
TypeOK  == /\ vms \in Seq(VMs) \ {<<>>} /\ env \in [Modules -> Entries]
           /\ cache \subseteq Keys /\ marks \subseteq Mods

Live == {k \in Keys : env[k].st = "live"}
Running == {vms[d].key : d \in 2..Depth}

\* load, load_with_params: the marks are the modules running now, each once, whatever
\* failed or was refused before; a module is never entered under its own import.
MarksAreRunning ==
    /\ marks = Running
    /\ Cardinality(marks) = Depth - 1

\* "Cache hit by absolute path" (load_with_params): a namespace that is alive anywhere is
\* in the cache, so its path is not loaded a second time beside it; and neither a failed
\* load nor one under way has an entry.
OneNamespacePerPath == cache = Live /\ cache \cap Running = {}

\* "Un module chargé une fois est cached. Les appels suivants retournent le même objet"
\* (MODULE_LOADING.md): a file has one namespace, however it is named.
OneNamespacePerFile == \A j, k \in Live \cap Mods : File[j] = File[k] => j = k

\* Ownership contracts of load_with_params, apply_import_mode, load_cat_file and the
\* error paths: a namespace has one reference per owner, so none leaks, none is freed early.
RefcountIsOwners ==
    \A k \in Live :
        env[k].refs = (IF k \in cache THEN 1 ELSE 0)
                      + Cardinality({j \in DOMAIN env : k \in Spaces(env[j].globals)})
                      + Cardinality({j \in DOMAIN env : k \in Spaces(env[j].exports)})

\* "the namespace must outlive the closures it exported" (apply_import_mode): whatever a
\* global refers to, its own map of globals has not been drained.
ClosuresKeepGlobals ==
    \A k \in DOMAIN env : \A g \in env[k].globals : env[g[2]].st # "unused"

\* What the user's code reaches: the user's globals, those of the namespaces and
\* functions found there, and so on.
Reached ==
    LET Step(S) == S \cup UNION {env[g[2]].globals \cup env[g[2]].exports : g \in S}
        after[n \in 0..Cardinality(Keys)] == IF n = 0 THEN env[User].globals ELSE Step(after[n - 1])
    IN  {g \in after[Cardinality(Keys)] : g[1] = "fn"}

\* transplant_functions and the remap: the functions of a module the user's pipeline
\* loaded itself find their own templates there, then and ever after.
OwnImportsResolve ==
    Depth = 1 => \A g \in Reached : env[g[2]].by = 1 => Resolves(g, Cur.table)

\* "Remap VMFunc/StructType/Enum indices in child globals so closures resolve correctly"
\* (load_cat_file): so do the functions of the modules that those import.
ImportsResolve == Depth = 1 => \A g \in Reached : Resolves(g, Cur.table)
=============================================================================
