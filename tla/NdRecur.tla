------------------------------ MODULE NdRecur -------------------------------
(***************************************************************************)
(* ND recursion `~~(seed, (v, recur) => ...)` in the VM of Python values:  *)
(* the recur handle (catnip_rs/src/nd/vm_decl.rs) with its memo and depth  *)
(* counter, and the two ways a call of it runs: as a frame of the running  *)
(* dispatch with an entry on nd_recur_stack (catnip_rs/src/vm/core/mod.rs, *)
(* the fast path of Call), or through Python in a child VM                 *)
(* (NDVmRecur::__call__).  The three are kept in step by hand on every     *)
(* return, error and isolated sub-dispatch.                                *)
(*                                                                         *)
(* The lambda is pure: its result at v is the token v.  What it calls, and *)
(* whether it fails, is open.  One handle is modelled, that of the call in *)
(* progress.                                                               *)
(***************************************************************************)
EXTENDS Integers, SequencesExt

CONSTANTS Values,      \* arguments of recur
          Hash,        \* [Values -> memo keys]: Python's hash, the memo's whole key
          MaxDepth,    \* ND_MAX_RECURSION_DEPTH
          MaxFrames,   \* bound: frames alive, over all dispatches
          Fn           \* a function other than the lambda, and its result

ASSUME NdConstants == /\ MaxDepth \in Nat \ {0} /\ MaxFrames \in Nat
                      /\ Fn \notin Values /\ DOMAIN Hash = Values

VARIABLES vms,      \* the dispatches running on this thread, innermost last
          depth,    \* NDVmRecur.depth
          memo,     \* NDVmRecur.cache: key -> result
          abort,    \* ND_ABORT of the thread
          err,      \* the error being propagated: "none", "deep" or "other"
          got,      \* history: the last recur call that returned
          caught,   \* history: an error was caught inside this recursion
          stale     \* history: and a recur frame of the dispatch that caught it was unwound

vars == <<vms, depth, memo, abort, err, got, caught, stale>>

Keys  == {Hash[v] : v \in Values}
Codes == Values \cup {Fn}

\* code: what runs in it (and its result); recur: pushed by the fast path of recur;
\* tries: the handlers it has set up.
Frame(c, r) == [code |-> c, recur |-> r, tries |-> 0]
\* by: who started it.  nd: its nd_recur_stack.
Dispatch(by, c) == [by |-> by, frames |-> <<Frame(c, FALSE)>>, nd |-> <<>>]
NoCall == [asked |-> Fn, result |-> Fn]

Init == /\ vms = <<>> /\ depth = 0 /\ memo = <<>>
        /\ abort = FALSE /\ err = "none" /\ got = NoCall /\ caught = FALSE /\ stale = FALSE

Top == Last(vms)
SetTop(d) == vms' = [vms EXCEPT ![Len(vms)] = d]
Running == vms # <<>> /\ err = "none"
Alive == FoldSeq(LAMBDA d, n : n + Len(d.frames), 0, vms)
Room == Alive < MaxFrames
Store(k, r) == memo' = [x \in DOMAIN memo \cup {k} |-> IF x = k THEN r ELSE memo[x]]
Got(v, r) == got' = [asked |-> v, result |-> r]

\* NDVmDecl.__call__: a fresh handle, the lambda in a VM of its own.
Start(v) == /\ vms = <<>>
            /\ vms' = <<Dispatch("decl", v)>>
            /\ depth' = 0 /\ memo' = <<>> /\ got' = NoCall
            /\ caught' = FALSE /\ stale' = FALSE
            /\ UNCHANGED <<abort, err>>
-----------------------------------------------------------------------------
\* recur(v), the part both paths share: depth guard, then the memo.
TooDeep == depth >= MaxDepth
RecurTooDeep == /\ Running /\ TooDeep
                /\ err' = "deep" /\ abort' = TRUE
                /\ UNCHANGED <<vms, depth, memo, got, caught, stale>>

Hit(v) == Hash[v] \in DOMAIN memo
RecurHit(v) == /\ Running /\ ~TooDeep /\ Hit(v)
               /\ Got(v, memo[Hash[v]])
               /\ UNCHANGED <<vms, depth, memo, abort, err, caught, stale>>

\* Call, fast path: the lambda becomes the current frame of this dispatch.
CallerDepth(d) == Len(d.frames) - 1       \* frame_stack.len(): the current frame is not on it
RecurFrame(v) ==
    /\ Running /\ ~TooDeep /\ ~Hit(v) /\ Room
    /\ depth' = depth + 1
    /\ SetTop([Top EXCEPT !.frames = Append(@, Frame(v, TRUE)),
                          !.nd = Append(@, [at |-> CallerDepth(Top), key |-> v])])
    /\ UNCHANGED <<memo, abort, err, got, caught, stale>>

\* NDVmRecur.__call__, from Python code or a tail call: the lambda in a child VM.
RecurChild(v) ==
    /\ Running /\ ~TooDeep /\ ~Hit(v) /\ Room
    /\ depth' = depth + 1
    /\ vms' = Append(vms, Dispatch("recur", v))
    /\ UNCHANGED <<memo, abort, err, got, caught, stale>>

\* Another function: a frame (Call) ...
CallFn == /\ Running /\ Room
          /\ SetTop([Top EXCEPT !.frames = Append(@, Frame(Fn, FALSE))])
          /\ UNCHANGED <<depth, memo, abort, err, got, caught, stale>>

\* ... or, as the callback of a broadcast, an isolated dispatch of this VM
\* (call_vmfunc_sync): the outer nd_recur_stack is set aside.
SyncShares == [Dispatch("sync", Fn) EXCEPT !.nd = Top.nd]     \* fault: not set aside
SyncDispatch == Dispatch("sync", Fn)
CallSync == /\ Running /\ Room
            /\ vms' = Append(vms, SyncDispatch)
            /\ UNCHANGED <<depth, memo, abort, err, got, caught, stale>>
-----------------------------------------------------------------------------
\* handle_nd_frame_pop, on the dispatch d that has returned to its caller's frame.
PopAny(d) == d.nd # <<>>                                                   \* fault: position not compared
PopsEntry(d) == d.nd # <<>> /\ Last(d.nd).at = CallerDepth(d)
DepthAfterPopKept == depth                                                 \* fault: not given back
DepthAfterPop == IF depth > 0 THEN depth - 1 ELSE depth
HandleNdFramePop(d, r) ==
    IF PopsEntry(d)
    THEN /\ SetTop([d EXCEPT !.nd = Front(@)])
         /\ depth' = DepthAfterPop
         /\ Store(Hash[Last(d.nd).key], r)
    ELSE SetTop(d) /\ UNCHANGED <<depth, memo>>

\* Return to a caller in the same dispatch.
Return == LET fr == Last(Top.frames)
          IN  /\ Running /\ Len(Top.frames) > 1
              /\ HandleNdFramePop([Top EXCEPT !.frames = Front(@)], fr.code)
              /\ IF fr.recur THEN Got(fr.code, fr.code) ELSE UNCHANGED got
              /\ UNCHANGED <<abort, err, caught, stale>>

\* The last frame of a dispatch returns: to the sync call, to NDVmRecur.__call__, to NDVmDecl.
ReturnSync == /\ Running /\ Len(Top.frames) = 1 /\ Top.by = "sync"
              /\ vms' = Front(vms)
              /\ UNCHANGED <<depth, memo, abort, err, got, caught, stale>>

ReturnChild == LET v == Top.frames[1].code
               IN  /\ Running /\ Len(Top.frames) = 1 /\ Top.by = "recur"
                   /\ vms' = Front(vms)
                   /\ depth' = depth - 1 /\ Store(Hash[v], v) /\ Got(v, v)
                   /\ UNCHANGED <<abort, err, caught, stale>>

\* clear_nd_abort, on success and on error.
AbortAfterOk(ok) == abort /\ ~ok          \* fault: cleared on success only
AbortAfter(ok) == FALSE
ReturnDecl == /\ Running /\ Len(Top.frames) = 1 /\ Top.by = "decl"
              /\ vms' = <<>> /\ abort' = AbortAfter(TRUE)
              /\ UNCHANGED <<depth, memo, err, got, caught, stale>>
-----------------------------------------------------------------------------
\* try ... except: SetupExcept and PopHandler.
Try == /\ Running /\ Last(Top.frames).tries = 0
       /\ SetTop([Top EXCEPT !.frames[Len(Top.frames)].tries = 1])
       /\ UNCHANGED <<depth, memo, abort, err, got, caught, stale>>
EndTry == /\ Running /\ Last(Top.frames).tries = 1
          /\ SetTop([Top EXCEPT !.frames[Len(Top.frames)].tries = 0])
          /\ UNCHANGED <<depth, memo, abort, err, got, caught, stale>>

Throw == /\ Running /\ err' = "other"
         /\ UNCHANGED <<vms, depth, memo, abort, got, caught, stale>>

RecurFramesOf(d) == {i \in DOMAIN d.frames : d.frames[i].recur}
Handlers(d) == {i \in DOMAIN d.frames : d.frames[i].tries = 1}
Innermost(d) == CHOOSE i \in Handlers(d) : \A j \in Handlers(d) : j <= i

\* unwind_exception: frames are popped down to the handler; nd_recur_stack is left as it is.
Catch == /\ err # "none" /\ Handlers(Top) # {}
         /\ LET i == Innermost(Top)
            IN  /\ SetTop([Top EXCEPT !.frames = [SubSeq(@, 1, i) EXCEPT ![i].tries = 0]])
                /\ stale' = (stale \/ \E j \in RecurFramesOf(Top) : j > i)
         /\ err' = "none" /\ caught' = TRUE
         /\ UNCHANGED <<depth, memo, abort, got>>

\* No handler: the dispatch ends.  Its nd_recur_stack is cleared (or the one set aside comes
\* back), the depth counter is not told.
FailSync == /\ err # "none" /\ Handlers(Top) = {} /\ Top.by = "sync"
            /\ vms' = Front(vms)
            /\ UNCHANGED <<depth, memo, abort, err, got, caught, stale>>

\* VMFunction.__call__ words any error as the depth error while ND_ABORT is set.
Worded == IF abort THEN "deep" ELSE err
\* NDVmRecur.__call__ gives its level back; Python code between may catch the error.
FailChild == /\ err # "none" /\ Handlers(Top) = {} /\ Top.by = "recur"
             /\ vms' = Front(vms) /\ depth' = depth - 1
             /\ \/ err' = Worded /\ UNCHANGED caught
                \/ err' = "none" /\ caught' = TRUE
             /\ UNCHANGED <<memo, abort, got, stale>>

FailDecl == /\ err # "none" /\ Handlers(Top) = {} /\ Top.by = "decl"
            /\ vms' = <<>> /\ err' = "none" /\ abort' = AbortAfter(FALSE)
            /\ UNCHANGED <<depth, memo, got, caught, stale>>

Next == \/ \E v \in Values : Start(v) \/ RecurHit(v) \/ RecurFrame(v) \/ RecurChild(v)
        \/ RecurTooDeep \/ CallFn \/ CallSync
        \/ Return \/ ReturnSync \/ ReturnChild \/ ReturnDecl
        \/ Try \/ EndTry \/ Throw \/ Catch \/ FailSync \/ FailChild \/ FailDecl

Spec == Init /\ [][Next]_vars
-----------------------------------------------------------------------------
Frames     == [code : Codes, recur : BOOLEAN, tries : {0, 1}]
Entries    == [at : Nat, key : Values]
Dispatches == [by : {"decl", "recur", "sync"}, frames : Seq(Frames) \ {<<>>}, nd : Seq(Entries)]
TypeOK == /\ vms \in Seq(Dispatches)
          /\ depth \in 0..MaxDepth /\ abort \in BOOLEAN /\ err \in {"none", "deep", "other"}
          /\ DOMAIN memo \subseteq Keys /\ memo \in [DOMAIN memo -> Codes]
          /\ got \in [asked : Codes, result : Codes]
          /\ caught \in BOOLEAN /\ stale \in BOOLEAN

\* A recur call returns the lambda's own result at that argument, from the memo too
\* (docs/lang/ND_RECURSION.md:230).
RecurReturnsOwn == got.result = got.asked

\* What holds of it.  As long as no handler of the same dispatch has unwound a recur
\* frame, a recur call returns the lambda's result at an argument with the same hash: its
\* own, unless two arguments share one.
SameKey(v, r) == r = v \/ (v \in Values /\ r \in Values /\ Hash[r] = Hash[v])
OwnUntilUnwound == ~stale => SameKey(got.asked, got.result)

\* The entries of a dispatch are those of its recur frames, in order, and nobody else's: a
\* return pops its own entry or none.  (A handler that unwinds recur frames leaves theirs behind.)
EntriesAreFrames == ~stale => \A n \in DOMAIN vms : LET d == vms[n] IN
    /\ Len(d.nd) = Cardinality(RecurFramesOf(d))
    /\ \A j \in DOMAIN d.nd : /\ d.nd[j].at + 2 \in RecurFramesOf(d)
                              /\ d.nd[j].key = d.frames[d.nd[j].at + 2].code
    /\ \A i, j \in DOMAIN d.nd : i < j => d.nd[i].at < d.nd[j].at

\* The depth counter never forgets a recur call in progress, so the guard bounds the native
\* stack; and until an error is caught inside the recursion it counts no other.
LiveIn(d) == RecurFramesOf(d) \cup IF d.by = "recur" THEN {0} ELSE {}
Live == Cardinality(UNION {{n} \X LiveIn(vms[n]) : n \in DOMAIN vms})
DepthCountsLive == /\ vms # <<>> => Live <= depth
                   /\ vms # <<>> /\ err = "none" /\ ~caught => Live = depth
                   /\ Live <= MaxDepth

\* The abort flag of the thread does not outlive the recursion that set it.
AbortAtRest == vms = <<>> => ~abort
=============================================================================
