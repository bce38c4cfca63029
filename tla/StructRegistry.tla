--------------------------- MODULE StructRegistry ---------------------------
(***************************************************************************)
(* Struct instances of the Python-hosted VM (catnip_rs/src/vm/structs.rs)  *)
(* and the re-entrant call (VMFunction::__call__, vm/frame.rs) that runs a *)
(* callback in a child VM on a copy of its caller's registry.              *)
(*                                                                         *)
(* regs is the stack of live registries, regs[1] the outermost; the last   *)
(* one is the thread-local STRUCT_REGISTRY.  Everything runs under the     *)
(* GIL, so an operation is one step.  Every struct has one field: nil, a   *)
(* heap object (one, whose global count is `obj`), or a struct.  A proxy   *)
(* (CatnipStructProxy) is anchored on the registry at level `at`, 0 when   *)
(* that registry is gone; `by` is the level of the child that recorded it  *)
(* (MATERIALIZED_PROXIES) under the index `rec`, 0 if none did.            *)
(***************************************************************************)
EXTENDS Integers, FiniteSets, SequencesExt

CONSTANTS MaxSlots,   \* bound: slots of a registry
          MaxDepth,   \* bound: nested calls, the outermost VM included
          MaxRoots,   \* bound: references to one slot on a VM's stack and locals
          Proxies     \* Python proxies that may exist

VARIABLES regs,       \* the registries, the caller's below the callee's
          px,         \* the proxies
          obj,        \* the heap object's global count (OBJECT_TABLE, Arc)
          dead,       \* an incref or decref met a dead handle: the code panics
          tainted     \* history: see Taints

vars == <<regs, px, obj, dead, tainted>>

ASSUME RegistryConstants == /\ MaxSlots \in Nat \ {0} /\ MaxDepth \in Nat \ {0} /\ MaxRoots \in Nat
                            /\ IsFiniteSet(Proxies)

Idx    == 0..(MaxSlots - 1)
Nil    == -1
Obj    == -2
NoIdx  == -1
Fields == Idx \cup {Nil, Obj}

\* InstanceSlot; Free stands for None.
Slot(rc, field, snap) == [live |-> TRUE, rc |-> rc, field |-> field, snap |-> snap]
Free == [live |-> FALSE, rc |-> 0, field |-> Nil, snap |-> FALSE]

NewRegistry == [slot |-> [i \in Idx |-> Free], len |-> 0, free |-> <<>>, root |-> [i \in Idx |-> 0]]
NoProxy     == [used |-> FALSE, at |-> 0, idx |-> 0, by |-> 0, rec |-> NoIdx]

Init == /\ regs = <<NewRegistry>>
        /\ px = [x \in Proxies |-> NoProxy]
        /\ obj = 0 /\ dead = FALSE /\ tainted = FALSE

Top  == Len(regs)
Cur  == regs[Top]
Live(r) == {i \in Idx : r.slot[i].live}
-----------------------------------------------------------------------------
\* Registry operations, as functions of a registry.

HasRoom(r) == r.free # <<>> \/ r.len < MaxSlots
NextIdx(r) == IF r.free # <<>> THEN Last(r.free) ELSE r.len

\* create_instance: the last freed slot, else a new one; refcount 1.
Created(r, field) ==
    [r EXCEPT !.slot[NextIdx(r)] = Slot(1, field, FALSE),
              !.free = IF @ = <<>> THEN @ ELSE Front(@),
              !.len  = IF r.free = <<>> THEN @ + 1 ELSE @]

Incref(r, i) == [r EXCEPT !.slot[i].rc = @ + 1]
Rooted(r, i) == [r EXCEPT !.root[i] = @ + 1]
Unrooted(r, i) == [r EXCEPT !.root[i] = @ - 1]

\* decref to zero: the slot becomes None and goes on the free list.
Freed(r, i) == [r EXCEPT !.slot[i] = Free, !.free = Append(@, i)]

\* One release of cascade_decref_fields: m.todo is the value to release next.
ReleaseOne(m) ==
    IF m.todo = Nil THEN m
    ELSE IF m.todo = Obj THEN [m EXCEPT !.obj = @ - 1, !.todo = Nil]
    ELSE IF ~m.r.slot[m.todo].live THEN [m EXCEPT !.dead = TRUE, !.todo = Nil]
    ELSE IF m.r.slot[m.todo].rc = 1
         THEN [m EXCEPT !.r = Freed(m.r, m.todo), !.todo = m.r.slot[m.todo].field]
         ELSE [m EXCEPT !.r.slot[m.todo].rc = @ - 1, !.todo = Nil]

\* decref and cascade_decref_fields: a chain of at most MaxSlots frees.
Released(r, o, v) ==
    LET after[n \in 0..(MaxSlots + 2)] ==
            IF n = 0 THEN [r |-> r, obj |-> o, dead |-> FALSE, todo |-> v] ELSE ReleaseOne(after[n - 1])
    IN  after[MaxSlots + 2]

\* decref_slot, what proxies use: nothing if the slot is already free.
SlotReleased(r, o, i) == Released(r, o, IF r.slot[i].live THEN i ELSE Nil)

SetCur(r) == regs' = [regs EXCEPT ![Top] = r]
\* The effect of a release on the registry at level l.
Apply(l, m) == regs' = [regs EXCEPT ![l] = m.r] /\ obj' = m.obj /\ dead' = (dead \/ m.dead)

\* The structs reached from i through fields, i included.
Closed(r, S) == \A j \in S : r.slot[j].field \in Idx => r.slot[j].field \in S
Chain(r, i) == {j \in Idx : \A S \in SUBSET Idx : i \in S /\ Closed(r, S) => j \in S}
-----------------------------------------------------------------------------
\* Instructions of the running VM on its own registry.

\* A constructor call: its argument moves from the stack into the field.
Create(v) ==
    /\ HasRoom(Cur) /\ Cur.root[NextIdx(Cur)] < MaxRoots
    /\ v \in Idx => Cur.root[v] > 0
    /\ LET r == IF v \in Idx THEN Unrooted(Cur, v) ELSE Cur
       IN  SetCur(Rooted(Created(r, v), NextIdx(r)))
    /\ obj' = IF v = Obj THEN obj + 1 ELSE obj
    /\ UNCHANGED <<px, dead, tainted>>

\* A load of a local (clone_refcount).
Dup(i) == /\ Cur.root[i] \in 1..(MaxRoots - 1)
          /\ SetCur(Incref(Rooted(Cur, i), i)) /\ UNCHANGED <<px, obj, dead, tainted>>

\* A pop, an overwritten local or a frame teardown (decref_discard).
Release(i) == /\ Cur.root[i] > 0
              /\ Apply(Top, Released(Unrooted(Cur, i), obj, i)) /\ UNCHANGED <<px, tainted>>

\* GetAttr of a struct-valued field: the popped struct is released after the load.
GetField(i) ==
    /\ Cur.root[i] > 0 /\ Cur.slot[i].live /\ Cur.slot[i].field \in Live(Cur)
    /\ LET j == Cur.slot[i].field
       IN  Cur.root[j] < MaxRoots /\ Apply(Top, Released(Unrooted(Incref(Rooted(Cur, j), j), i), obj, i))
    /\ UNCHANGED <<px, tainted>>

\* SetAttr: the value moves from the stack into the field; the displaced one is released,
\* then the popped struct.  Bound: no cycle (a conversion to Python would not end on one).
SetField(i, v) ==
    /\ Cur.root[i] > 0 /\ Cur.slot[i].live
    /\ v \in Idx => Cur.root[v] > 0 /\ i \notin Chain(Cur, v)
    /\ LET r == [(IF v \in Idx THEN Unrooted(Cur, v) ELSE Cur) EXCEPT !.slot[i].field = v]
           m == Released(Unrooted(r, i), IF v = Obj THEN obj + 1 ELSE obj, Cur.slot[i].field)
           n == Released(m.r, m.obj, i)
       IN  Apply(Top, [n EXCEPT !.dead = @ \/ m.dead])
    /\ UNCHANGED <<px, tainted>>
-----------------------------------------------------------------------------
\* Proxies.

Unused == {x \in Proxies : ~px[x].used}
Level(l, i) == [used |-> TRUE, at |-> l, idx |-> i, by |-> IF l > 1 THEN l ELSE 0,
                rec |-> IF l > 1 THEN i ELSE NoIdx]

\* instance_to_pyobject: a proxy of the struct and of each struct below it, each with a
\* reference of its own; a broadcast child records them.  give assigns a proxy to each.
WithProxies(r, S) == [r EXCEPT !.slot = [i \in Idx |->
                         IF i \in S THEN [r.slot[i] EXCEPT !.rc = @ + 1] ELSE r.slot[i]]]
Named(pxs, l, give) == [x \in Proxies |-> IF \E i \in DOMAIN give : give[i] = x
                            THEN Level(l, CHOOSE i \in DOMAIN give : give[i] = x) ELSE pxs[x]]
Givings(S) == {g \in [S -> Unused] : \A i, j \in S : i # j => g[i] # g[j]}
\* Proxies are interchangeable: one assignment is enough.
OneGiving(S) == CHOOSE g \in Givings(S) : TRUE

Export(i) ==
    /\ Cur.root[i] > 0 /\ Cur.slot[i].live
    /\ Chain(Cur, i) \subseteq Live(Cur) /\ Cardinality(Chain(Cur, i)) <= Cardinality(Unused)
    /\ SetCur(WithProxies(Cur, Chain(Cur, i)))
    /\ px' = Named(px, Top, OneGiving(Chain(Cur, i)))
    /\ UNCHANGED <<obj, dead, tainted>>

\* Value::from_pyobject: origin_id is the outermost registry's, for every registry.
Trusted(x) == px[x].at = 1 /\ Cur.slot[px[x].idx].live

ImportTrusted(x) ==
    /\ px[x].used /\ Trusted(x) /\ Cur.root[px[x].idx] < MaxRoots
    /\ SetCur(Incref(Rooted(Cur, px[x].idx), px[x].idx))
    /\ UNCHANGED <<px, obj, dead, tainted>>

\* The orphan path: the struct is created anew in the running VM's registry and the proxy
\* moves to it, leaving its old slot.  A struct-valued field comes as a later SetField.
Recreated(v) == Incref(Rooted(Created(Cur, v), NextIdx(Cur)), NextIdx(Cur))

ImportOrphan(x, v) ==
    /\ px[x].used /\ ~Trusted(x) /\ v \notin Idx
    /\ HasRoom(Cur) /\ Cur.root[NextIdx(Cur)] < MaxRoots
    /\ LET o   == IF v = Obj THEN obj + 1 ELSE obj
           old == px[x].at
           rs  == [regs EXCEPT ![Top] = Recreated(v)]
           m   == SlotReleased(rs[old], o, px[x].idx)
       IN  IF old = 0 THEN regs' = rs /\ obj' = o /\ UNCHANGED dead
           ELSE regs' = [rs EXCEPT ![old] = m.r] /\ obj' = m.obj /\ dead' = (dead \/ m.dead)
    /\ px' = [px EXCEPT ![x].at = Top, ![x].idx = NextIdx(Cur)]
    /\ UNCHANGED tainted

\* Drop for CatnipStructProxy.  A recorded proxy is kept alive by the record.  (The proxies
\* of a struct's fields may go before it: __setattr__ replaces them.)
DropProxy(x) ==
    /\ px[x].used /\ px[x].by = 0
    /\ IF px[x].at = 0 THEN UNCHANGED <<regs, obj, dead>>
       ELSE Apply(px[x].at, SlotReleased(regs[px[x].at], obj, px[x].idx))
    /\ px' = [px EXCEPT ![x] = NoProxy] /\ UNCHANGED tainted
-----------------------------------------------------------------------------
\* VMFunction::__call__.

\* clone_from_parent: one count per heap object in a field, none per struct.
ObjFields(r, S) == Cardinality({i \in S : r.slot[i].field = Obj})
CloneOf(r) == [r EXCEPT !.slot = [i \in Idx |-> IF r.slot[i].live THEN [r.slot[i] EXCEPT !.snap = TRUE] ELSE Free],
                        !.root = [i \in Idx |-> 0]]

\* Bound: no further call once the counts are known to be off.
Call == /\ Top < MaxDepth /\ ~tainted
        /\ regs' = Append(regs, CloneOf(Cur))
        /\ obj' = obj + ObjFields(Cur, Live(Cur))
        /\ UNCHANGED <<px, dead, tainted>>

Caller == regs[Top - 1]

\* retain: the members of s that are not in S, in their order.
Without(s, S) ==
    LET kept[n \in 0..Len(s)] == IF n = 0 THEN <<>>
                                 ELSE IF s[n] \in S THEN kept[n - 1] ELSE Append(kept[n - 1], s[n])
    IN  kept[Len(s)]

\* transplant_to_parent: the slots the caller does not have, with the callee's counts.
FreshAll == Live(Cur)       \* fault: the caller's own slots are copied back too
Fresh == Live(Cur) \ Live(Caller)
NewLen == IF \E i \in Fresh : i >= Caller.len THEN 1 + CHOOSE i \in Fresh : \A j \in Fresh : j <= i
          ELSE Caller.len
HolesLost == <<>>           \* fault: the holes are not reclaimable
Holes == Without([n \in 1..(NewLen - Caller.len) |-> Caller.len + n - 1], Fresh)

Transplanted ==
    [Caller EXCEPT !.slot = [i \in Idx |-> IF i \in Fresh THEN [Cur.slot[i] EXCEPT !.snap = FALSE]
                                           ELSE Caller.slot[i]],
                   !.len  = NewLen,
                   !.free = Without(@, Fresh) \o Holes]

\* The recorded proxies of transplanted slots move to the caller (and are recorded again if
\* it is itself a callee); the callee's other records are dropped with it, and its other
\* proxies are left on a dead registry.
Follows(x) == px[x].by = Top /\ px[x].rec \in Fresh
Forgotten(p) == [p EXCEPT !.at  = IF @ = Top THEN 0 ELSE @,
                          !.by  = IF @ = Top THEN 0 ELSE @,
                          !.rec = IF p.by = Top THEN NoIdx ELSE @]
Reanchored == [x \in Proxies |->
    IF ~Follows(x) THEN Forgotten(px[x])
    ELSE IF Top - 1 > 1 THEN [px[x] EXCEPT !.at = Top - 1, !.by = Top - 1]
    ELSE [px[x] EXCEPT !.at = 1, !.by = 0, !.rec = NoIdx]]

\* Drop for StructRegistry of a callee: only the copies of the caller's slots release.
ObjKept(o) == o             \* fault: a dropped callee releases nothing
ObjAfterDrop(o) == o - ObjFields(Cur, {i \in Live(Cur) : Cur.slot[i].snap})

\* When the copy of counts is not a transfer of ownership: a new struct refers to one of the
\* caller's or one of the caller's to a new one; a slot the caller freed during the call
\* comes back; a new struct took the index of one the caller keeps; a proxy of a new struct
\* was not recorded for it; an error drops a new struct.
Taints(fails) ==
    LET Ours == Fresh
        Held == Live(Cur) \ Fresh
    IN  \/ \E i \in Ours : Cur.slot[i].field \in Held \/ Cur.slot[i].snap
        \/ \E i \in Held : Cur.slot[i].field \in Ours \/ ~Cur.slot[i].snap
        \/ \E x \in Proxies : px[x].used /\ px[x].at = Top /\ px[x].idx \in Ours /\ ~Follows(x)
        \/ fails /\ Ours # {}

\* What remains after the frames are gone: at most the result.
OnlyRoot(S) == \A i \in Idx : Cur.root[i] = IF i \in S THEN 1 ELSE 0

\* The result of a struct the caller already has: a new instance with the callee's field.
Materialized(r, i) ==
    LET f == Cur.slot[i].field
        s == IF f \in Idx THEN Incref(r, f) ELSE r
    IN  Created(s, f)

\* The count the callee's VM held on the result, released once the proxy has its own.
CountKept(r, o, i) == [r |-> r, obj |-> o, dead |-> FALSE, todo |-> Nil]    \* fault: the copied count stays
VmCount(r, o, i) == SlotReleased(r, o, i)

ReturnStruct(i) ==
    /\ Top > 1 /\ OnlyRoot({i}) /\ Cur.slot[i].live
    /\ i \notin Fresh => HasRoom(Transplanted)
    /\ LET new == i \in Fresh
           r1  == IF new THEN Transplanted ELSE Materialized(Transplanted, i)
           o1  == IF ~new /\ Cur.slot[i].field = Obj THEN obj + 1 ELSE obj
           res == IF new THEN i ELSE NextIdx(Transplanted)
           S   == Chain(r1, res)
           m   == VmCount(WithProxies(r1, S), o1, res)
       IN  /\ Cardinality(S) <= Cardinality(Unused)
           /\ regs' = [Front(regs) EXCEPT ![Top - 1] = m.r]
           /\ obj' = ObjAfterDrop(m.obj)
           /\ dead' = (dead \/ m.dead \/ ~(S \subseteq Live(r1)))
           /\ px' = Named(Reanchored, Top - 1, OneGiving(S))
           /\ tainted' = (tainted \/ Taints(FALSE))

ReturnOther ==
    /\ Top > 1 /\ OnlyRoot({})
    /\ regs' = [Front(regs) EXCEPT ![Top - 1] = Transplanted]
    /\ obj' = ObjAfterDrop(obj) /\ px' = Reanchored
    /\ tainted' = (tainted \/ Taints(FALSE)) /\ UNCHANGED dead

\* execute_with_host fails: nothing is transplanted, the callee is dropped.
Fail ==
    /\ Top > 1 /\ OnlyRoot({})
    /\ regs' = Front(regs)
    /\ obj' = ObjAfterDrop(obj)
    /\ px' = [x \in Proxies |-> Forgotten(px[x])]
    /\ tainted' = (tainted \/ Taints(TRUE)) /\ UNCHANGED dead

Step == \/ \E v \in Fields : Create(v)
        \/ \E i \in Idx : Dup(i) \/ Release(i) \/ GetField(i) \/ Export(i) \/ ReturnStruct(i)
        \/ \E i \in Idx, v \in Fields : SetField(i, v)
        \/ \E x \in Proxies : ImportTrusted(x) \/ DropProxy(x) \/ \E v \in Fields : ImportOrphan(x, v)
        \/ Call \/ ReturnOther \/ Fail

\* A dead handle is a panic: nothing follows.
Next == ~dead /\ Step

Spec == Init /\ [][Next]_vars
-----------------------------------------------------------------------------
Slots == [live : BOOLEAN, rc : Int, field : Fields, snap : BOOLEAN]
Registries == [slot : [Idx -> Slots], len : 0..MaxSlots, free : Seq(Idx), root : [Idx -> 0..MaxRoots]]
TypeOK == /\ regs \in Seq(Registries) /\ Top \in 1..MaxDepth
          /\ px \in [Proxies -> [used : BOOLEAN, at : 0..Top, idx : Idx, by : 0..Top, rec : Idx \cup {NoIdx}]]
          /\ obj \in Int /\ dead \in BOOLEAN /\ tainted \in BOOLEAN

\* Who refers to a slot of the outermost registry: its VM, live fields, proxies.
Owners(i) == LET r == regs[1] IN
    r.root[i] + Cardinality({j \in Live(r) : r.slot[j].field = i})
              + Cardinality({x \in Proxies : px[x].used /\ px[x].at = 1 /\ px[x].idx = i})

\* "The invariant is refcount = number of live owners": for every slot of the outermost
\* registry, at any depth of calls, as long as no call mixed the two registries' structs.
RefcountIsOwners == ~tainted => \A i \in Idx : regs[1].slot[i].rc = Owners(i)

\* With no call under way the heap object's count is the number of fields that hold it:
\* clones, transplants, errors and drops of registries neither leak nor double-release it.
ObjectCountIsFields == ~tainted /\ Top = 1 => obj = ObjFields(regs[1], Live(regs[1]))

\* A slot is live, or on the free list once, or was never used; in every registry, after
\* reuse, transplants with holes and frees in any order.  (A slot on the list that is live
\* would be handed out twice.)
FreeListExact == \A l \in 1..Top :
    LET r == regs[l]
    IN  /\ \A a, b \in DOMAIN r.free : r.free[a] = r.free[b] => a = b
        /\ ToSet(r.free) = {i \in 0..(r.len - 1) : ~r.slot[i].live}
        /\ Live(r) \subseteq 0..(r.len - 1)

\* A struct that the outermost VM's stack or locals, or a proxy, refers to is not freed: its
\* index would name a dead slot, or the next struct created in it.
OwnedIsLive == \A i \in Idx :
    regs[1].root[i] > 0 \/ (\E x \in Proxies : px[x].used /\ px[x].at = 1 /\ px[x].idx = i)
        => regs[1].slot[i].live

\* A callee works on a copy: while it runs and when it returns, no field of a struct a
\* caller keeps changes, whatever the callee does to its copies.
Isolated == [][\A l \in 1..(Top - 1), i \in Idx :
    regs[l].slot[i].live /\ regs'[l].slot[i].live
        => regs'[l].slot[i].field = regs[l].slot[i].field]_vars
=============================================================================
