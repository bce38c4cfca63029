------------------------------ MODULE CacheMap ------------------------------
(***************************************************************************)
(* What the disk cache promises to a process that has the directory to     *)
(* itself: a map from keys to what was stored under them and when.  A set  *)
(* changes the map at one instant, or not at all when the process dies     *)
(* before it; a get returns what was stored last, or drops it once TTL has *)
(* passed since; otherwise entries are lost only to prune, clear, delete   *)
(* and the pruning that ends a set.  No call fails.                        *)
(***************************************************************************)
EXTENDS Integers

CONSTANTS Keys, Values, TTL, MaxTime

VARIABLES store,   \* a function on the keys that have an entry: its value, and when it was stored
          call,    \* the call at work, and what it has in hand
          result,  \* how the last call ended
          now

vars == <<store, call, result, now>>

Rest == <<"nothing">>
Init == store = [k \in {} |-> {}] /\ call = Rest /\ result = "none" /\ now = 0

Begin(c)  == call = Rest /\ call' = c /\ result' = "none" /\ UNCHANGED <<store, now>>
Goto(c)   == call' = c /\ UNCHANGED <<store, result, now>>
End(r)    == call' = Rest /\ result' = r /\ UNCHANGED now
Lose(k)   == store' = [l \in DOMAIN store \ {k} |-> store[l]]
Fresh(k)  == now - store[k].at < TTL
Found(k)  == call = <<"read", k, store[k]>>
-----------------------------------------------------------------------------
\* Each but Set is about a key that has an entry: for another a get or a delete ends at once,
\* and is no step.
Get(k)    == Begin(<<"get", k>>)
Read(k)   == call = <<"get", k>> /\ Goto(<<"read", k, store[k]>>)

\* From here on the get returns the entry in hand, however long that takes.
Accept(k) == Found(k) /\ Fresh(k) /\ Goto(<<"hit", k, store[k]>>)
Hit(k)    == /\ (Found(k) /\ Fresh(k)) \/ call = <<"hit", k, store[k]>>
             /\ End("hit") /\ UNCHANGED store
Miss(k)   == Found(k) /\ ~Fresh(k) /\ Lose(k) /\ End("miss")

Set(k, v) == Begin(<<"set", k, [value |-> v, at |-> now]>>)

\* The instant at which a set takes effect; what is left of it may prune.
Put == /\ call[1] = "set"
       /\ store' = [l \in DOMAIN store \cup {call[2]} |-> IF l = call[2] THEN call[3] ELSE store[l]]
       /\ call' = <<"stored">> /\ UNCHANGED <<result, now>>

Delete(k) == Begin(<<"delete", k>>)
Remove(k) == call = <<"delete", k>> /\ Lose(k) /\ End("deleted")

Prune   == Begin(<<"pruned">>)
Clear   == Begin(<<"cleared">>)
Sweeps  == {"stored", "pruned", "cleared"}
Drop(k) == (\E r \in Sweeps : call = <<r>>) /\ Lose(k) /\ UNCHANGED <<call, result, now>>

\* A clear that returns leaves nothing.
Swept(r) == /\ call = <<r>>
            /\ r = "cleared" => DOMAIN store = {}
            /\ End(r) /\ UNCHANGED store

Die  == call # Rest /\ End("died") /\ UNCHANGED store
Tick == now < MaxTime /\ now' = now + 1 /\ UNCHANGED <<store, call, result>>

Next == \/ \E k \in DOMAIN store : \/ Get(k) \/ Read(k) \/ Accept(k) \/ Hit(k) \/ Miss(k)
                                   \/ Delete(k) \/ Remove(k) \/ Drop(k)
        \/ \E k \in Keys, v \in Values : Set(k, v)
        \/ Put \/ Prune \/ Clear
        \/ \E r \in Sweeps : Swept(r)
        \/ Die \/ Tick

Spec == Init /\ [][Next]_vars
=============================================================================
