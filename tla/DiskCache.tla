----------------------------- MODULE DiskCache ------------------------------
(***************************************************************************)
(* catnip_rs/src/cache/disk.rs: processes that share one cache directory,  *)
(* each with its own DiskCache handle and no lock.  Every system call that *)
(* another process can observe is a step of its own; what a handle does    *)
(* between two of them is part of the step.  A miss that reads nothing     *)
(* (`exists` is false) changes nothing and is not a step.                  *)
(***************************************************************************)
EXTENDS CacheFiles, Integers, FiniteSetsExt

CONSTANTS Values,     \* what a caller stores
          SizeOf,     \* [Values -> bytes of the pickled entry]
          MaxSize,    \* max_size_bytes
          TTL,        \* ttl_seconds
          Bump,       \* ACCESS_BUMP_SECS
          MaxTime,    \* bound: the clock stops there
          MaxCrash    \* bound: processes that die, or I/O errors

VARIABLES now,        \* SystemTime, in the unit of TTL and Bump
          job,        \* what each process is doing: see Job
          used,       \* history: when each key was last stored or returned
          crashes

vars == <<file, fd, now, job, used, crashes>>

ASSUME DiskConstants ==
    /\ SizeOf \in [Values -> Nat] /\ MaxSize \in Nat
    /\ TTL \in Nat /\ Bump \in Nat /\ MaxTime \in Nat /\ MaxCrash \in Nat

Times == 0..MaxTime

\* The pickled dict.  `stored` is a history field: when the value was given to set.
Entries == [key : Keys, value : Values, created : Times, accessed : Times, stored : Times]
ASSUME FileContents == Absent # Empty /\ Absent \notin Entries /\ Empty \notin Entries
Size(c) == IF c = Empty THEN 0 ELSE SizeOf[c.value]

\* pc: the next step.  key, ent: the key and the dict in hand.  todo: the names still to
\* visit in the directory; name: the one being visited; held: prune's entries; at: prune's
\* `now`; sum: get_cache_size's total; op: the call; res: how the last call ended.
IdleJob(r) == [pc |-> "idle", op |-> "none", key |-> Nameless, ent |-> Empty, todo |-> {},
               name |-> Nameless, held |-> {}, at |-> 0, sum |-> 0, res |-> r]

Init == /\ EmptyDirectory
        /\ now = 0
        /\ job = [p \in Procs |-> IdleJob("none")]
        /\ used = [k \in Keys |-> 0]
        /\ crashes = 0

Become(p, j) == job' = [job EXCEPT ![p] = j]
Goto(p, l)   == Become(p, [job[p] EXCEPT !.pc = l])
Return(p, r) == Become(p, IdleJob(r))
At(p, l)     == job[p].pc = l
Call(op, l)  == [IdleJob("none") EXCEPT !.pc = l, !.op = op]
FilesSame    == UNCHANGED <<file, fd>>
OthersSame   == UNCHANGED <<now, used, crashes>>

\* remove_file in code that ignores its error.
RemoveIfThere(n) == IF file[n] = Absent THEN FilesSame ELSE RemoveFile(n)
-----------------------------------------------------------------------------
Expired(ent, t) == t - ent.created >= TTL       \* saturating: the clock never runs back

\* get, `file_path.exists()`: a miss ends here, without a trace.
Get(p, k) == /\ At(p, "idle") /\ file[Entry(k)] # Absent
             /\ Become(p, [Call("get", "load") EXCEPT !.key = k])
             /\ FilesSame /\ OthersSame

\* get, load_entry_dict: a vanished or partial file counts as corrupt.
Load(p) == /\ At(p, "load")
           /\ LET c == file[Entry(job[p].key)]
              IN  IF c \in {Absent, Empty} THEN Goto(p, "evict")
                  ELSE Become(p, [job[p] EXCEPT !.pc = "age", !.ent = c])
           /\ FilesSame /\ OthersSame

\* The call ends with the entry in hand: returned by get, or stored by set.
Used(p) == used' = [used EXCEPT ![job[p].key] = job[p].ent.accessed]

\* The dict with its access time refreshed, as rewrite_entry stores it.
TouchedRenews(ent, t) == [ent EXCEPT !.accessed = t, !.created = t]        \* fault: a read renews the entry
Touched(ent, t) == [ent EXCEPT !.accessed = t]
StaleLate(ent, t) == t - ent.accessed > Bump                               \* fault: one second late
Stale(ent, t)   == t - ent.accessed >= Bump

\* get, from `now_secs()` on: expired, or a hit that may refresh the access time first.
Age(p) == /\ At(p, "age")
          /\ LET ent == job[p].ent
             IN  IF Expired(ent, now) THEN Goto(p, "evict") /\ UNCHANGED used
                 ELSE IF Stale(ent, now)
                 THEN /\ Become(p, [job[p] EXCEPT !.pc = "open", !.ent = Touched(ent, now)])
                      /\ UNCHANGED used
                 ELSE Return(p, "hit") /\ used' = [used EXCEPT ![job[p].key] = now]
          /\ FilesSame /\ UNCHANGED <<now, crashes>>

\* get, `let _ = fs::remove_file(&file_path)`: whatever the file holds by now.
Evict(p) == /\ At(p, "evict")
            /\ RemoveIfThere(Entry(job[p].key))
            /\ Return(p, "miss") /\ OthersSame
-----------------------------------------------------------------------------
\* set, up to the call of rewrite_entry.
Set(p, k, v) ==
    /\ At(p, "idle")
    /\ Become(p, [Call("set", "open") EXCEPT !.key = k,
                  !.ent = [key |-> k, value |-> v, created |-> now, accessed |-> now, stored |-> now]])
    /\ FilesSame /\ OthersSame

\* rewrite_entry: fs::write in two steps, then fs::rename.
Open(p) == /\ At(p, "open")
           /\ OpenTmp(p, job[p].key) /\ Goto(p, "data") /\ OthersSame

DataUnwritten(p) == At(p, "data") /\ CloseFile(p) /\ Goto(p, "rename") /\ OthersSame   \* fault: failed write ignored
Data(p) == /\ At(p, "data")
           /\ WriteBytes(p, job[p].ent) /\ Goto(p, "rename") /\ OthersSame

\* After the rename: a get returns its hit, a set measures the directory.
AfterRename(p) == IF job[p].op = "get" THEN IdleJob("hit") ELSE Call("set", "list")

Rename(p) == /\ At(p, "rename") /\ file[Tmp(job[p].key)] # Absent
             /\ RenameTmp(job[p].key) /\ Used(p) /\ Become(p, AfterRename(p))
             /\ UNCHANGED <<now, crashes>>

\* The tmp file is gone: get ignores the error, set returns it.
RenameFails(p) == /\ At(p, "rename") /\ file[Tmp(job[p].key)] = Absent
                  /\ Return(p, IF job[p].op = "get" THEN "hit" ELSE "error")
                  /\ FilesSame /\ OthersSame
-----------------------------------------------------------------------------
\* A walk of the directory: get_cache_size ("size"), prune ("scan") and clear ("clear").
\* `path.is_file()` is one call, what is done with the file is the next.
Walks == {"size", "scan", "clear"}
OwnedEntries == {Entry(k) : k \in Keys}     \* fault: tmp files are not counted
Owned == Names     \* is_owned_file: every name starts with "catnip_", the tmp files too

StartWalk(op, l) == [Call(op, l) EXCEPT !.todo = Listing \cap Owned, !.at = now]
SizeWalk(p) == /\ At(p, "list") /\ Become(p, StartWalk("set", "size")) /\ FilesSame /\ OthersSame
Prune(p) == /\ At(p, "idle") /\ Become(p, StartWalk("prune", "scan")) /\ FilesSame /\ OthersSame
Clear(p) == /\ At(p, "idle") /\ Become(p, StartWalk("clear", "clear")) /\ FilesSame /\ OthersSame

Visit(p, n) ==
    /\ job[p].pc \in Walks /\ job[p].name = Nameless /\ n \in job[p].todo
    /\ Become(p, [job[p] EXCEPT !.todo = @ \ {n}, !.name = IF file[n] = Absent THEN Nameless ELSE n])
    /\ FilesSame /\ OthersSame

Visiting(p, l) == At(p, l) /\ job[p].name # Nameless
Done(p, l)     == At(p, l) /\ job[p].name = Nameless /\ job[p].todo = {}

\* `fs::metadata(&path)?` and clear's `fs::remove_file(path)?`: the error ends the call.
Vanished(p) == /\ job[p].pc \in Walks /\ job[p].name # Nameless /\ file[job[p].name] = Absent
               /\ Return(p, "error") /\ FilesSame /\ OthersSame

Measure(p) == /\ Visiting(p, "size") /\ file[job[p].name] # Absent
              /\ Become(p, [job[p] EXCEPT !.sum = @ + Size(file[job[p].name]), !.name = Nameless])
              /\ FilesSame /\ OthersSame

\* prune_if_needed.
Measured(p) == /\ Done(p, "size")
               /\ IF job[p].sum > MaxSize THEN Become(p, StartWalk("set", "scan"))
                  ELSE Return(p, "stored")
               /\ FilesSame /\ OthersSame

\* prune, first loop: size and dict of one file; a corrupt one is removed next.
Scan(p) == /\ Visiting(p, "scan") /\ file[job[p].name] # Absent
           /\ LET n == job[p].name
                  c == file[n]
              IN  IF c = Empty THEN Goto(p, "drop")
                  ELSE Become(p, [job[p] EXCEPT !.name = Nameless, !.held = @ \cup {[name |-> n, ent |-> c]}])
           /\ FilesSame /\ OthersSame

Drop(p) == /\ At(p, "drop")
           /\ RemoveIfThere(job[p].name)
           /\ Become(p, [job[p] EXCEPT !.pc = "scan", !.name = Nameless]) /\ OthersSame

\* prune, `entries.retain`, then the size limit: oldest access first.
TooOld(p) == {h \in job[p].held : Expired(h.ent, job[p].at)}
Total(H)  == MapThenSumSet(LAMBDA h : Size(h.ent), H)
Oldest(H) == {h \in H : \A g \in H : h.ent.accessed <= g.ent.accessed}

ToRemove(p) == IF TooOld(p) # {} THEN TooOld(p)
               ELSE IF Total(job[p].held) > MaxSize THEN Oldest(job[p].held) ELSE {}

Discard(p, h) == /\ Done(p, "scan") /\ h \in ToRemove(p)
                 /\ RemoveIfThere(h.name)
                 /\ Become(p, [job[p] EXCEPT !.held = @ \ {h}]) /\ OthersSame

Pruned(p) == /\ Done(p, "scan") /\ ToRemove(p) = {}
             /\ Return(p, IF job[p].op = "set" THEN "stored" ELSE "pruned")
             /\ FilesSame /\ OthersSame

ClearOne(p) == /\ Visiting(p, "clear") /\ file[job[p].name] # Absent
               /\ RemoveFile(job[p].name)
               /\ Become(p, [job[p] EXCEPT !.name = Nameless]) /\ OthersSame

Cleared(p) == /\ Done(p, "clear") /\ Return(p, "cleared") /\ FilesSame /\ OthersSame
-----------------------------------------------------------------------------
\* delete: `exists`, then `remove_file(..)?`.
Delete(p, k) == /\ At(p, "idle") /\ file[Entry(k)] # Absent
                /\ Become(p, [Call("delete", "unlink") EXCEPT !.key = k])
                /\ FilesSame /\ OthersSame

Unlink(p) == /\ At(p, "unlink")
             /\ RemoveIfThere(Entry(job[p].key))
             /\ Return(p, IF file[Entry(job[p].key)] = Absent THEN "error" ELSE "deleted")
             /\ OthersSame

\* The process dies, or fs::write reports an error half way: the files stay as they are.
Crash(p) == /\ ~At(p, "idle") /\ crashes < MaxCrash
            /\ CloseFile(p) /\ Return(p, "died")
            /\ crashes' = crashes + 1 /\ UNCHANGED <<now, used>>

Tick == /\ now < MaxTime /\ now' = now + 1
        /\ FilesSame /\ UNCHANGED <<job, used, crashes>>

Step(p) ==
    \/ \E k \in Keys : Get(p, k) \/ Delete(p, k) \/ \E v \in Values : Set(p, k, v)
    \/ Load(p) \/ Age(p) \/ Evict(p) \/ Open(p) \/ Data(p) \/ Rename(p) \/ RenameFails(p)
    \/ SizeWalk(p) \/ Prune(p) \/ Clear(p) \/ \E n \in Names : Visit(p, n)
    \/ Vanished(p) \/ Measure(p) \/ Measured(p) \/ Scan(p) \/ Drop(p)
    \/ \E h \in job[p].held : Discard(p, h)
    \/ Pruned(p) \/ ClearOne(p) \/ Cleared(p) \/ Unlink(p) \/ Crash(p)

Next == Tick \/ \E p \in Procs : Step(p)

Spec == Init /\ [][Next]_vars
-----------------------------------------------------------------------------
\* What a process may be doing; `key` and `ent` stay Nameless and Empty while there is none.
Jobs == [pc : {"idle", "load", "age", "evict", "open", "data", "rename", "list", "size", "scan",
               "drop", "clear", "unlink"},
         op : {"none", "get", "set", "prune", "clear", "delete"},
         key : Keys \cup {Nameless}, ent : Entries \cup {Empty},
         todo : SUBSET Names, name : Names \cup {Nameless}, held : SUBSET [name : Names, ent : Entries],
         at : Times, sum : Nat,
         res : {"none", "hit", "miss", "stored", "pruned", "cleared", "deleted", "error", "died"}]

TypeOK == /\ file \in [Names -> Entries \cup {Absent, Empty}]
          /\ fd \in [Procs -> Names \cup {Nameless}]
          /\ now \in Times /\ crashes \in 0..MaxCrash
          /\ used \in [Keys -> Times]
          /\ job \in [Procs -> Jobs]

\* What a get returns was stored under that very key less than ttl_seconds before, however
\* many reads refreshed the file since and whoever else writes the directory.
HitsAreFresh == [][\A p \in Procs :
    At(p, "age") /\ (job'[p].pc = "open" \/ job'[p].res = "hit") =>
        job[p].ent.key = job[p].key /\ now - job[p].ent.stored < TTL]_vars

\* "Atomic writes (temp + rename) pour sécurité multiprocessus" (docs/dev/CACHE.md): what lies
\* under the name of an entry is whole.
EntriesWhole == \A k \in Keys : file[Entry(k)] # Empty

\* A partly written entry still has its writer, who completes it.
PartialHasWriter == \A k \in Keys : file[Entry(k)] = Empty => \E p \in Procs : fd[p] = Entry(k)

\* A set that returned left the directory, tmp files of dead processes included, within
\* max_size_bytes.
SetEndsWithinLimit == \A p \in Procs : job[p].pc = "idle" /\ job[p].res = "stored" =>
    MapThenSumSet(LAMBDA n : Size(file[n]), Listing) <= MaxSize

\* The size limit evicts in order of last use, up to ACCESS_BUMP_SECS: an entry is not
\* removed for its size while one last used Bump earlier is kept.
EvictsLeastRecent == [][\A p \in Procs : \A h \in job[p].held :
    Discard(p, h) /\ ~Expired(h.ent, job[p].at) /\ h.name = Entry(h.ent.key) =>
        \A g \in job[p].held : g.name = Entry(g.ent.key) => used[h.ent.key] - used[g.ent.key] < Bump]_vars

-----------------------------------------------------------------------------
\* The process that has the directory to itself; an entry without its access time; what lies
\* under the keys; and what the step a process is at means to its caller.
Me      == CHOOSE p \in Procs : TRUE
Item(c) == IF c = Empty THEN Empty ELSE [value |-> c.value, at |-> c.created]
Stored  == [k \in {l \in Keys : file[Entry(l)] # Absent} |-> Item(file[Entry(k)])]
Phase(j) == CASE j.pc = "idle"   -> <<"nothing">>
              [] j.pc = "load"   -> <<"get", j.key>>
              [] j.pc = "unlink" -> <<"delete", j.key>>
              [] j.pc \in {"age", "evict"} -> <<"read", j.key, Item(j.ent)>>
              [] j.pc \in {"open", "data", "rename"} ->
                     <<IF j.op = "get" THEN "hit" ELSE "set", j.key, Item(j.ent)>>
              [] OTHER -> <<CASE j.op = "set"   -> "stored"
                              [] j.op = "prune" -> "pruned"
                              [] OTHER          -> "cleared">>

Map == INSTANCE CacheMap WITH store <- Stored, call <- Phase(job[Me]), result <- job[Me].res

\* "Serialize and write atomically (temp file + rename)": to a process that has the directory
\* to itself the files are a map, wherever it dies.  A half-written entry would be one that
\* nobody has stored.
ActsAsMap == Map!Spec
=============================================================================
