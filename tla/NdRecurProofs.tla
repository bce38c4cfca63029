---------------------------- MODULE NdRecurProofs ----------------------------
(***************************************************************************)
(* Theorems about NdRecur.  The invariant relates three things the code    *)
(* keeps in step by hand: the frames of each dispatch, its nd_recur_stack, *)
(* and the depth counter of the handle.                                    *)
(***************************************************************************)
EXTENDS NdRecur, Facts, FiniteSetTheorems

-----------------------------------------------------------------------------
\* The invariant.

\* A dispatch starts in a frame that is not a recur call; one that recur started, in the lambda.
Shaped(d) == /\ ~d.frames[1].recur
             /\ d.by = "recur" => d.frames[1].code \in Values

\* A recur frame has its entry, whatever was unwound before.
HasEntries(d) == \A i \in RecurFramesOf(d) : \E j \in DOMAIN d.nd : d.nd[j].at + 2 = i

\* And the entries are those of the recur frames only, in order.
MatchingEntries(d) ==
    /\ \A j \in DOMAIN d.nd : /\ d.nd[j].at + 2 \in RecurFramesOf(d)
                              /\ d.nd[j].key = d.frames[d.nd[j].at + 2].code
    /\ \A i, j \in DOMAIN d.nd : i < j => d.nd[i].at < d.nd[j].at

StackInv == \A n \in DOMAIN vms : /\ Shaped(vms[n]) /\ HasEntries(vms[n])
                                  /\ ~stale => MatchingEntries(vms[n])

\* Only the recursion itself leaves an error or the abort flag.
RestInv == /\ vms # <<>> => vms[1].by = "decl"
           /\ vms = <<>> => ~abort /\ err = "none"
           /\ ~caught => ~stale

\* What the memo holds and what the last call returned.
MemoInv == ~stale => /\ SameKey(got.asked, got.result)
                     /\ \A v \in Values : Hash[v] \in DOMAIN memo => SameKey(v, memo[Hash[v]])

\* The levels of the depth counter that someone will give back: one for each entry, and one
\* for each child VM.  Errors lose some, never the counter's.
OwedIn(d) == DOMAIN d.nd \cup IF d.by = "recur" THEN {0} ELSE {}
OwedOf(s) == UNION {{n} \X OwedIn(s[n]) : n \in DOMAIN s}
OwedInv == /\ IsFiniteSet(OwedOf(vms))
           /\ Cardinality(OwedOf(vms)) <= depth
           /\ vms # <<>> /\ err = "none" /\ ~caught => Cardinality(OwedOf(vms)) = depth

\* TypeOK, but for the depth counter: that it is never negative is OwedInv's.
Typed == /\ vms \in Seq(Dispatches)
         /\ depth \in Int /\ depth <= MaxDepth /\ abort \in BOOLEAN /\ err \in {"none", "deep", "other"}
         /\ DOMAIN memo \subseteq Keys /\ memo \in [DOMAIN memo -> Codes]
         /\ got \in [asked : Codes, result : Codes]
         /\ caught \in BOOLEAN /\ stale \in BOOLEAN
-----------------------------------------------------------------------------
\* Sequences.

LEMMA FrontFacts ==
    ASSUME NEW S, NEW q \in Seq(S), q # <<>>
    PROVE  /\ Front(q) \in Seq(S) /\ Len(Front(q)) = Len(q) - 1
           /\ Len(q) \in Nat \ {0} /\ Len(q) \in DOMAIN q /\ DOMAIN q = 1 .. Len(q)
           /\ Last(q) \in S /\ Last(q) = q[Len(q)]
           /\ DOMAIN Front(q) = 1 .. (Len(q) - 1) /\ DOMAIN Front(q) = DOMAIN q \ {Len(q)}
           /\ \A i \in DOMAIN Front(q) : i \in DOMAIN q /\ Front(q)[i] = q[i]
  <1>1. /\ Len(q) \in Nat \ {0} /\ DOMAIN q = 1 .. Len(q) /\ Len(q) \in DOMAIN q
        /\ Last(q) \in S /\ Last(q) = q[Len(q)]
    BY DEF Last
  <1>2. /\ Front(q) \in Seq(S) /\ Len(Front(q)) = Len(q) - 1
        /\ \A i \in 1 .. (Len(q) - 1) : Front(q)[i] = q[i]
    BY <1>1 DEF Front
  <1>3. DOMAIN Front(q) = 1 .. (Len(q) - 1)
    BY <1>2
  <1>4. \A n \in Nat : 1 .. (n - 1) = (1 .. n) \ {n}
    OBVIOUS
  <1> QED
    BY <1>1, <1>2, <1>3, <1>4

WithRecur(d, v) == [d EXCEPT !.frames = Append(@, Frame(v, TRUE)),
                             !.nd = Append(@, [at |-> CallerDepth(d), key |-> v])]
WithFn(d)       == [d EXCEPT !.frames = Append(@, Frame(Fn, FALSE))]
WithTries(d, n) == [d EXCEPT !.frames[Len(d.frames)].tries = n]
Popped(d)       == [d EXCEPT !.frames = Front(@)]
AfterPop(d)     == IF PopsEntry(Popped(d)) THEN [Popped(d) EXCEPT !.nd = Front(@)] ELSE Popped(d)
Unwound(d)      == [d EXCEPT !.frames = [SubSeq(@, 1, Innermost(d)) EXCEPT ![Innermost(d)].tries = 0]]

\* The first m frames of d are those of e, but for the handlers they have set up.
SameFrames(d, e, m) ==
    /\ e.by = d.by /\ m \in 1 .. Len(d.frames) /\ Len(e.frames) = m
    /\ \A i \in 1 .. m : e.frames[i].recur = d.frames[i].recur /\ e.frames[i].code = d.frames[i].code

Sound(d) == Shaped(d) /\ HasEntries(d)

LEMMA DispatchFacts ==
    ASSUME NEW d \in Dispatches
    PROVE  /\ d.by \in {"decl", "recur", "sync"}
           /\ d.frames \in Seq(Frames) /\ d.frames # <<>>
           /\ Len(d.frames) \in Nat \ {0} /\ DOMAIN d.frames = 1 .. Len(d.frames)
           /\ d.nd \in Seq(Entries) /\ Len(d.nd) \in Nat /\ DOMAIN d.nd = 1 .. Len(d.nd)
           /\ \A i \in 1 .. Len(d.frames) : /\ d.frames[i].code \in Codes /\ d.frames[i].recur \in BOOLEAN
                                            /\ d.frames[i].tries \in {0, 1}
           /\ \A j \in DOMAIN d.nd : d.nd[j].at \in Nat /\ d.nd[j].key \in Values
           /\ RecurFramesOf(d) = {i \in 1 .. Len(d.frames) : d.frames[i].recur}
  <1>1. /\ d.by \in {"decl", "recur", "sync"}
        /\ d.frames \in Seq(Frames) /\ d.frames # <<>> /\ d.nd \in Seq(Entries)
    BY DEF Dispatches
  <1>2. \A S : \A q \in Seq(S) : /\ Len(q) \in Nat /\ DOMAIN q = 1 .. Len(q)
                                 /\ \A i \in 1 .. Len(q) : q[i] \in S
    OBVIOUS
  <1>3. /\ Len(d.frames) \in Nat \ {0} /\ DOMAIN d.frames = 1 .. Len(d.frames)
        /\ Len(d.nd) \in Nat /\ DOMAIN d.nd = 1 .. Len(d.nd)
        /\ \A i \in 1 .. Len(d.frames) : d.frames[i] \in Frames
        /\ \A j \in 1 .. Len(d.nd) : d.nd[j] \in Entries
    BY <1>1, <1>2, LengthZero
  <1>4. RecurFramesOf(d) = {i \in 1 .. Len(d.frames) : d.frames[i].recur}
    BY <1>3 DEF RecurFramesOf
  <1> QED
    BY <1>1, <1>3, <1>4 DEF Frames, Entries

LEMMA FrameType ==
    /\ \A v \in Values : Frame(v, TRUE) \in Frames /\ Frame(v, TRUE).recur /\ Frame(v, TRUE).code = v
    /\ Frame(Fn, FALSE) \in Frames /\ ~Frame(Fn, FALSE).recur
    /\ \A c \in Codes : Frame(c, FALSE) \in Frames /\ ~Frame(c, FALSE).recur /\ Frame(c, FALSE).code = c
  BY DEF Frame, Frames, Codes

LEMMA NewDispatch ==
    ASSUME NEW by \in {"decl", "recur", "sync"}, NEW c \in Codes, by = "recur" => c \in Values
    PROVE  LET d == Dispatch(by, c)
           IN  /\ d \in Dispatches /\ d.by = by /\ d.nd = <<>> /\ Len(d.frames) = 1
               /\ d.frames[1].code = c /\ RecurFramesOf(d) = {}
               /\ Sound(d) /\ MatchingEntries(d)
  <1> DEFINE d == Dispatch(by, c)
  <1>1. /\ d.by = by /\ d.nd = <<>> /\ d.frames = <<Frame(c, FALSE)>>
    BY DEF Dispatch
  <1>2. <<Frame(c, FALSE)>> \in Seq(Frames) \ {<<>>} /\ <<>> \in Seq(Entries)
    <2>1. <<>> \in Seq(Entries)
      OBVIOUS
    <2> QED
      BY <2>1, FrameType, OneElement
  <1>3. d \in Dispatches
    BY <1>2 DEF Dispatch, Dispatches
  <1>4. Len(d.frames) = 1 /\ d.frames[1].code = c /\ ~d.frames[1].recur /\ DOMAIN d.frames = 1 .. 1
    <2>1. Frame(c, FALSE) \in Frames /\ ~Frame(c, FALSE).recur /\ Frame(c, FALSE).code = c
      BY FrameType
    <2> QED
      BY <2>1, <1>1, OneElement
  <1> HIDE DEF d
  <1>5. RecurFramesOf(d) = {} /\ DOMAIN d.nd = {}
    <2>1. DOMAIN d.nd = {}
      BY <1>1
    <2>2. \A i \in DOMAIN d.frames : i = 1
      BY <1>4
    <2> QED
      BY <2>1, <2>2, <1>4 DEF RecurFramesOf
  <1>6. Sound(d) /\ MatchingEntries(d)
    BY <1>1, <1>4, <1>5 DEF Sound, Shaped, HasEntries, MatchingEntries
  <1> QED
    BY <1>1, <1>3, <1>4, <1>5, <1>6 DEF d

\* The fast path of recur: the frame and its entry are pushed together.
LEMMA RecurPushed ==
    ASSUME NEW d \in Dispatches, NEW v \in Values
    PROVE  LET e == WithRecur(d, v)
           IN  /\ e \in Dispatches /\ e.by = d.by
               /\ Len(d.nd) \in Nat /\ DOMAIN d.nd = 1 .. Len(d.nd)
               /\ DOMAIN e.nd = DOMAIN d.nd \cup {Len(d.nd) + 1}
               /\ Sound(d) => Sound(e)
               /\ Sound(d) /\ MatchingEntries(d) => MatchingEntries(e)
  <1> DEFINE e == WithRecur(d, v)
             n == Len(d.frames)
             k == Len(d.nd)
             x == [at |-> CallerDepth(d), key |-> v]
  <1>1. e.by = d.by /\ e.frames = Append(d.frames, Frame(v, TRUE)) /\ e.nd = Append(d.nd, x)
    BY DEF WithRecur, Dispatches
  <1>2. n \in Nat \ {0} /\ k \in Nat /\ DOMAIN d.frames = 1 .. n /\ DOMAIN d.nd = 1 .. k
    BY DispatchFacts
  <1>3. x \in Entries /\ x.at = n - 1 /\ x.key = v
    BY <1>2 DEF CallerDepth, Entries
  <1>4. /\ e.frames \in Seq(Frames) /\ e.frames # <<>> /\ Len(e.frames) = n + 1
        /\ DOMAIN e.frames = (1 .. n) \cup {n + 1}
        /\ e.frames[n + 1].recur /\ e.frames[n + 1].code = v
        /\ \A i \in 1 .. n : e.frames[i] = d.frames[i]
    <2> DEFINE f == Frame(v, TRUE)
    <2>1. d.frames \in Seq(Frames)
      BY DispatchFacts
    <2>2. f \in Frames /\ f.recur /\ f.code = v
      BY FrameType
    <2>3. e.frames = Append(d.frames, f)
      BY <1>1
    <2> HIDE DEF e, f
    <2>4. /\ e.frames \in Seq(Frames) /\ e.frames # <<>> /\ Len(e.frames) = n + 1
          /\ DOMAIN e.frames = (1 .. n) \cup {n + 1} /\ e.frames[n + 1] = f
          /\ \A i \in 1 .. n : e.frames[i] = d.frames[i]
      BY <2>1, <2>2, <2>3, <1>2, PushFacts
    <2> QED
      BY <2>2, <2>4
  <1>5. /\ e.nd \in Seq(Entries) /\ DOMAIN e.nd = (1 .. k) \cup {k + 1}
        /\ e.nd[k + 1].at = n - 1 /\ e.nd[k + 1].key = v /\ \A j \in 1 .. k : e.nd[j] = d.nd[j]
    <2> HIDE DEF x
    <2> QED
      BY <1>1, <1>2, <1>3, PushFacts, DispatchFacts
  <1>6. e \in Dispatches
    BY <1>1, <1>4, <1>5 DEF Dispatches, WithRecur
  <1> HIDE DEF e, x
  <1>7. RecurFramesOf(e) = RecurFramesOf(d) \cup {n + 1}
    <2>1. RecurFramesOf(d) = {i \in 1 .. n : d.frames[i].recur}
      BY <1>2 DEF RecurFramesOf
    <2>2. RecurFramesOf(e) = {i \in (1 .. n) \cup {n + 1} : e.frames[i].recur}
      BY <1>4 DEF RecurFramesOf
    <2> QED
      BY <2>1, <2>2, <1>4
  <1>8. RecurFramesOf(d) \subseteq 1 .. n
    BY <1>2 DEF RecurFramesOf
  <1>9. Sound(d) => Sound(e)
    <2> SUFFICES ASSUME Sound(d) PROVE Sound(e)
      OBVIOUS
    <2>1. Shaped(e)
      <3>1. 1 \in 1 .. n
        BY <1>2
      <3> QED
        BY <3>1, <1>1, <1>4 DEF Sound, Shaped
    <2>2. \A i \in RecurFramesOf(d) : \E j \in DOMAIN e.nd : e.nd[j].at + 2 = i
      BY <1>2, <1>5 DEF Sound, HasEntries
    <2>3. e.nd[k + 1].at + 2 = n + 1 /\ k + 1 \in DOMAIN e.nd
      BY <1>2, <1>5
    <2> QED
      BY <2>1, <2>2, <2>3, <1>7 DEF Sound, HasEntries
  <1>10. Sound(d) /\ MatchingEntries(d) => MatchingEntries(e)
    <2> SUFFICES ASSUME MatchingEntries(d) PROVE MatchingEntries(e)
      OBVIOUS
    <2>1. \A j \in 1 .. k : /\ d.nd[j].at \in Nat /\ d.nd[j].at + 2 \in 1 .. n
                            /\ d.nd[j].at + 2 \in RecurFramesOf(d)
                            /\ d.nd[j].key = d.frames[d.nd[j].at + 2].code
      BY <1>2, <1>8, DispatchFacts DEF MatchingEntries
    <2>2. \A j \in DOMAIN e.nd : /\ e.nd[j].at + 2 \in RecurFramesOf(e)
                                 /\ e.nd[j].key = e.frames[e.nd[j].at + 2].code
      <3>1. ASSUME NEW j \in 1 .. k
            PROVE  e.nd[j].at + 2 \in RecurFramesOf(e) /\ e.nd[j].key = e.frames[e.nd[j].at + 2].code
        <4>1. d.nd[j].at + 2 \in RecurFramesOf(e) /\ d.nd[j].key = e.frames[d.nd[j].at + 2].code
          BY <2>1, <1>4, <1>7
        <4> QED
          BY <4>1, <1>5
      <3>2. e.nd[k + 1].at + 2 = n + 1
        BY <1>2, <1>5
      <3> QED
        BY <3>1, <3>2, <1>4, <1>5, <1>7
    <2>3. ASSUME NEW i \in DOMAIN e.nd, NEW j \in DOMAIN e.nd, i < j
          PROVE  e.nd[i].at < e.nd[j].at
      <3>1. i \in 1 .. k
        BY <2>3, <1>2, <1>5
      <3>2. CASE j \in 1 .. k
        BY <2>3, <3>1, <3>2, <1>2, <1>5 DEF MatchingEntries
      <3>3. CASE j = k + 1
        <4>1. e.nd[i].at \in Nat /\ e.nd[i].at + 2 <= n
          BY <3>1, <2>1, <1>2, <1>5
        <4> QED
          BY <4>1, <3>3, <1>2, <1>5
      <3> QED
        BY <3>2, <3>3, <1>5
    <2> QED
      BY <2>2, <2>3 DEF MatchingEntries
  <1> QED
    BY <1>1, <1>2, <1>5, <1>6, <1>9, <1>10 DEF e

LEMMA FnPushed ==
    ASSUME NEW d \in Dispatches
    PROVE  LET e == WithFn(d)
           IN  /\ e \in Dispatches /\ e.by = d.by /\ e.nd = d.nd
               /\ Sound(d) => Sound(e)
               /\ MatchingEntries(d) => MatchingEntries(e)
  <1> DEFINE e == WithFn(d)
             n == Len(d.frames)
             f == Frame(Fn, FALSE)
  <1>1. e.by = d.by /\ e.frames = Append(d.frames, f) /\ e.nd = d.nd
    BY DEF WithFn, Dispatches
  <1>2. /\ n \in Nat \ {0} /\ DOMAIN d.frames = 1 .. n /\ d.frames \in Seq(Frames) /\ 1 \in 1 .. n
        /\ d.nd \in Seq(Entries)
    BY DispatchFacts
  <1>3. f \in Frames /\ ~f.recur
    BY FrameType
  <1> HIDE DEF f
  <1>4. /\ e.frames \in Seq(Frames) /\ e.frames # <<>> /\ DOMAIN e.frames = (1 .. n) \cup {n + 1}
        /\ e.frames[n + 1] = f /\ \A i \in 1 .. n : e.frames[i] = d.frames[i]
    BY <1>1, <1>2, <1>3, PushFacts
  <1>5. e \in Dispatches
    BY <1>1, <1>2, <1>4 DEF Dispatches, WithFn
  <1> HIDE DEF e
  <1>6. RecurFramesOf(e) = RecurFramesOf(d)
    <2>1. RecurFramesOf(d) = {i \in 1 .. n : d.frames[i].recur}
      BY <1>2 DEF RecurFramesOf
    <2>2. RecurFramesOf(e) = {i \in (1 .. n) \cup {n + 1} : e.frames[i].recur}
      BY <1>4 DEF RecurFramesOf
    <2> QED
      BY <2>1, <2>2, <1>3, <1>4
  <1>7. RecurFramesOf(d) \subseteq 1 .. n
    BY <1>2 DEF RecurFramesOf
  <1>8. Sound(d) => Sound(e)
    BY <1>1, <1>2, <1>4, <1>6 DEF Sound, Shaped, HasEntries
  <1>9. MatchingEntries(d) => MatchingEntries(e)
    BY <1>1, <1>4, <1>6, <1>7 DEF MatchingEntries
  <1> QED
    BY <1>1, <1>5, <1>8, <1>9 DEF e

\* Handlers set up or taken down, frames unwound: the entries stay.
LEMMA SameEntries ==
    ASSUME NEW d \in Dispatches, NEW e \in Dispatches, NEW m, SameFrames(d, e, m), e.nd = d.nd
    PROVE  /\ Sound(d) => Sound(e)
           /\ MatchingEntries(d) /\ (\A i \in RecurFramesOf(d) : i <= m) => MatchingEntries(e)
  <1> DEFINE n == Len(d.frames)
  <1>1. /\ n \in Nat \ {0} /\ m \in 1 .. n /\ DOMAIN d.frames = 1 .. n /\ DOMAIN e.frames = 1 .. m
        /\ 1 \in 1 .. m /\ 1 .. m \subseteq 1 .. n
    BY DispatchFacts DEF SameFrames
  <1>2. \A i \in 1 .. m : e.frames[i].recur = d.frames[i].recur /\ e.frames[i].code = d.frames[i].code
    BY DEF SameFrames
  <1>3. RecurFramesOf(e) = {i \in RecurFramesOf(d) : i <= m}
    <2>1. RecurFramesOf(d) = {i \in 1 .. n : d.frames[i].recur}
      BY <1>1 DEF RecurFramesOf
    <2>2. RecurFramesOf(e) = {i \in 1 .. m : e.frames[i].recur}
      BY <1>1 DEF RecurFramesOf
    <2>3. \A i : i \in 1 .. m <=> i \in 1 .. n /\ i <= m
      BY <1>1
    <2> QED
      BY <2>1, <2>2, <2>3, <1>2
  <1>4. Sound(d) => Sound(e)
    BY <1>1, <1>2, <1>3 DEF Sound, Shaped, HasEntries, SameFrames
  <1>5. ASSUME MatchingEntries(d), \A i \in RecurFramesOf(d) : i <= m
        PROVE  MatchingEntries(e)
    <2>1. RecurFramesOf(e) = RecurFramesOf(d) /\ RecurFramesOf(e) \subseteq 1 .. m
      BY <1>1, <1>3, <1>5 DEF RecurFramesOf
    <2> QED
      BY <2>1, <1>2, <1>5 DEF MatchingEntries
  <1> QED
    BY <1>4, <1>5

LEMMA EntriesFront ==
    \A q \in Seq(Entries) : q # <<>> =>
        /\ Front(q) \in Seq(Entries) /\ DOMAIN Front(q) = 1 .. (Len(q) - 1)
        /\ Len(q) \in DOMAIN q /\ Last(q) = q[Len(q)] /\ Last(q) \in Entries
        /\ DOMAIN Front(q) = DOMAIN q \ {Len(q)}
        /\ \A j \in DOMAIN Front(q) : j \in DOMAIN q /\ Front(q)[j] = q[j]
  BY FrontFacts

\* A frame returns: its entry goes with it, and no other's.
LEMMA FramePopped ==
    ASSUME NEW d \in Dispatches, Len(d.frames) > 1, Sound(d)
    PROVE  LET e == AfterPop(d)
           IN  /\ e \in Dispatches /\ Sound(e) /\ e.by = d.by
               /\ PopsEntry(Popped(d)) => /\ d.nd # <<>> /\ e.nd = Front(d.nd)
                                          /\ Last(d.nd).key \in Values
                                          /\ MatchingEntries(d) => Last(d.nd).key = Last(d.frames).code
               /\ ~PopsEntry(Popped(d)) => e.nd = d.nd
               /\ MatchingEntries(d) => MatchingEntries(e)
               /\ MatchingEntries(d) => (PopsEntry(Popped(d)) <=> Last(d.frames).recur)
  <1> DEFINE e == AfterPop(d)
             p == Popped(d)
             n == Len(d.frames)
             k == Len(d.nd)
  <1>1. p.by = d.by /\ p.frames = Front(d.frames) /\ p.nd = d.nd
    BY DEF Popped, Dispatches
  <1>2. /\ e.by = d.by /\ e.frames = p.frames
        /\ PopsEntry(p) => e.nd = Front(d.nd)
        /\ ~PopsEntry(p) => e.nd = d.nd
    BY <1>1 DEF AfterPop, Popped, Dispatches
  <1>3. /\ n \in Nat /\ n > 1 /\ DOMAIN d.frames = 1 .. n /\ d.frames \in Seq(Frames) /\ d.frames # <<>>
        /\ k \in Nat /\ DOMAIN d.nd = 1 .. k /\ d.nd \in Seq(Entries) /\ n - 1 \in Nat \ {0}
    BY DispatchFacts
  <1>4. /\ e.frames \in Seq(Frames) /\ Len(e.frames) = n - 1 /\ e.frames # <<>>
        /\ DOMAIN e.frames = 1 .. (n - 1) /\ \A i \in 1 .. (n - 1) : e.frames[i] = d.frames[i]
        /\ Last(d.frames) = d.frames[n] /\ n \in 1 .. n
    <2>1. /\ Front(d.frames) \in Seq(Frames) /\ Len(Front(d.frames)) = n - 1
          /\ DOMAIN Front(d.frames) = 1 .. (n - 1) /\ Last(d.frames) = d.frames[n]
          /\ \A i \in DOMAIN Front(d.frames) : Front(d.frames)[i] = d.frames[i]
      BY <1>3, FrontFacts
    <2>2. e.frames = Front(d.frames)
      BY <1>1, <1>2
    <2>3. e.frames # <<>> /\ n \in 1 .. n
      BY <2>1, <2>2, <1>3
    <2> QED
      BY <2>1, <2>2, <2>3
  <1>5. PopsEntry(p) <=> d.nd # <<>> /\ Last(d.nd).at = n - 2
    <2>1. Len(p.frames) = n - 1
      BY <1>2, <1>4
    <2>2. CallerDepth(p) = n - 2
      BY <2>1, <1>3 DEF CallerDepth
    <2> QED
      BY <2>2, <1>1 DEF PopsEntry
  <1>6. d.nd # <<>> => /\ Front(d.nd) \in Seq(Entries) /\ DOMAIN Front(d.nd) = 1 .. (k - 1)
                       /\ k \in DOMAIN d.nd /\ Last(d.nd) = d.nd[k] /\ Last(d.nd) \in Entries
                       /\ DOMAIN Front(d.nd) = DOMAIN d.nd \ {k}
                       /\ \A j \in DOMAIN Front(d.nd) : j \in DOMAIN d.nd /\ Front(d.nd)[j] = d.nd[j]
    BY <1>3, EntriesFront, Zenon
  <1>7. e \in Dispatches
    <2>1. e.nd \in Seq(Entries)
      BY <1>2, <1>3, <1>5, <1>6
    <2> QED
      BY <2>1, <1>2, <1>4 DEF Dispatches, AfterPop, Popped
  <1>8. /\ PopsEntry(p) => DOMAIN e.nd = DOMAIN d.nd \ {k} /\ k \in DOMAIN d.nd /\ d.nd[k].at = n - 2
        /\ ~PopsEntry(p) => DOMAIN e.nd = DOMAIN d.nd
        /\ \A j \in DOMAIN e.nd : j \in DOMAIN d.nd /\ e.nd[j] = d.nd[j]
    BY <1>2, <1>5, <1>6
  <1> HIDE DEF e, p
  <1>9. RecurFramesOf(e) = RecurFramesOf(d) \ {n} /\ RecurFramesOf(d) \subseteq 1 .. n
    <2>1. RecurFramesOf(d) = {i \in 1 .. n : d.frames[i].recur}
      BY <1>3 DEF RecurFramesOf
    <2>2. RecurFramesOf(e) = {i \in 1 .. (n - 1) : e.frames[i].recur}
      BY <1>4 DEF RecurFramesOf
    <2>3. \A i : i \in 1 .. (n - 1) <=> i \in 1 .. n /\ i # n
      BY <1>3
    <2> QED
      BY <2>1, <2>2, <2>3, <1>4
  <1>10. Sound(e)
    <2>1. Shaped(e)
      <3>1. 1 \in 1 .. (n - 1)
        BY <1>3
      <3> QED
        BY <3>1, <1>2, <1>4 DEF Sound, Shaped
    <2>2. ASSUME NEW i \in RecurFramesOf(e) PROVE \E j \in DOMAIN e.nd : e.nd[j].at + 2 = i
      <3>1. PICK j \in DOMAIN d.nd : d.nd[j].at + 2 = i
        BY <2>2, <1>9 DEF Sound, HasEntries
      <3>2. d.nd[j].at \in Nat /\ d.nd[j].at + 2 # n
        BY <3>1, <1>3, <1>9, <2>2, DispatchFacts
      <3>3. d.nd[j].at # n - 2
        BY <3>2, <1>3
      <3>4. j \in DOMAIN e.nd
        BY <3>3, <1>8
      <3> QED
        BY <3>1, <3>4, <1>8
    <2> QED
      BY <2>1, <2>2 DEF Sound, HasEntries
  <1>11. ASSUME MatchingEntries(d)
         PROVE  PopsEntry(p) <=> d.frames[n].recur
    <2>1. \A j \in 1 .. k : /\ d.nd[j].at \in Nat /\ d.nd[j].at + 2 \in 1 .. n
                            /\ d.nd[j].at + 2 \in RecurFramesOf(d)
      BY <1>3, <1>9, <1>11, DispatchFacts DEF MatchingEntries
    <2>2. ASSUME PopsEntry(p) PROVE d.frames[n].recur
      <3>1. d.nd[k].at + 2 = n /\ k \in 1 .. k
        BY <2>2, <1>3, <1>8
      <3> QED
        BY <3>1, <2>1 DEF RecurFramesOf
    <2>3. ASSUME d.frames[n].recur PROVE PopsEntry(p)
      <3>1. n \in RecurFramesOf(d)
        BY <2>3, <1>3, <1>4 DEF RecurFramesOf
      <3>2. PICK j \in 1 .. k : d.nd[j].at + 2 = n
        BY <3>1, <1>3 DEF Sound, HasEntries
      <3>3. k \in 1 .. k /\ d.nd # <<>>
        BY <3>2, <1>3
      <3>4. j = k
        <4>1. ASSUME j # k PROVE FALSE
          <5>1. j < k
            BY <4>1, <1>3
          <5>2. d.nd[j].at < d.nd[k].at
            BY <5>1, <3>3, <1>3, <1>11 DEF MatchingEntries
          <5>3. d.nd[k].at \in Nat /\ d.nd[j].at \in Nat /\ d.nd[k].at + 2 <= n
            BY <2>1, <3>3, <1>3
          <5> QED
            BY <5>2, <5>3, <3>2, <1>3
        <4> QED
          BY <4>1
      <3>5. d.nd[k].at = n - 2
        BY <3>2, <3>4, <2>1, <1>3
      <3> QED
        BY <3>3, <3>5, <1>5, <1>6
    <2> QED
      BY <2>2, <2>3
  <1>12. ASSUME MatchingEntries(d), PopsEntry(p)
         PROVE  Last(d.nd).key = Last(d.frames).code
    <2>1. d.nd[k].at + 2 = n /\ k \in DOMAIN d.nd
      BY <1>3, <1>8, <1>12
    <2>2. d.nd[k].key = d.frames[n].code
      BY <2>1, <1>12 DEF MatchingEntries
    <2> QED
      BY <2>2, <1>4, <1>5, <1>6, <1>12
  <1>13. ASSUME MatchingEntries(d) PROVE MatchingEntries(e)
    <2>1. ASSUME NEW j \in DOMAIN e.nd
          PROVE  e.nd[j].at + 2 \in RecurFramesOf(e) /\ e.nd[j].key = e.frames[e.nd[j].at + 2].code
      <3>1. /\ j \in DOMAIN d.nd /\ e.nd[j] = d.nd[j] /\ d.nd[j].at + 2 \in RecurFramesOf(d)
            /\ d.nd[j].key = d.frames[d.nd[j].at + 2].code
        BY <2>1, <1>8, <1>13 DEF MatchingEntries
      <3>2. d.nd[j].at + 2 # n
        <4>1. CASE PopsEntry(p)
          <5>1. j \in 1 .. k /\ j # k /\ k \in 1 .. k
            BY <4>1, <2>1, <1>3, <1>8
          <5>2. j < k
            BY <5>1, <1>3
          <5>3. d.nd[j].at < d.nd[k].at /\ d.nd[k].at = n - 2 /\ d.nd[j].at \in Nat
            BY <4>1, <5>1, <5>2, <1>3, <1>8, <1>13, DispatchFacts DEF MatchingEntries
          <5> QED
            BY <5>3, <1>3
        <4>2. CASE ~PopsEntry(p)
          BY <4>2, <3>1, <1>11, <1>13 DEF RecurFramesOf
        <4> QED
          BY <4>1, <4>2
      <3>3. d.nd[j].at + 2 \in RecurFramesOf(e)
        BY <3>1, <3>2, <1>9
      <3>4. RecurFramesOf(e) \subseteq 1 .. (n - 1)
        BY <1>4 DEF RecurFramesOf
      <3> QED
        BY <3>1, <3>3, <3>4, <1>4
    <2>2. \A i, j \in DOMAIN e.nd : i < j => e.nd[i].at < e.nd[j].at
      BY <1>8, <1>13 DEF MatchingEntries
    <2> QED
      BY <2>1, <2>2 DEF MatchingEntries
  <1>14. PopsEntry(p) => d.nd # <<>> /\ Last(d.nd).key \in Values
    BY <1>5, <1>6 DEF Entries
  <1> QED
    BY <1>2, <1>4, <1>7, <1>10, <1>11, <1>12, <1>13, <1>14 DEF e, p

LEMMA TriesSet ==
    ASSUME NEW d \in Dispatches, NEW t \in {0, 1}
    PROVE  LET e == WithTries(d, t)
           IN  e \in Dispatches /\ SameFrames(d, e, Len(d.frames)) /\ e.nd = d.nd
  <1> DEFINE e == WithTries(d, t)
             n == Len(d.frames)
  <1>1. /\ e.by = d.by /\ e.nd = d.nd
        /\ e.frames = [d.frames EXCEPT ![n].tries = t]
    BY DEF WithTries, Dispatches
  <1>2. /\ d.frames \in Seq(Frames) /\ d.frames # <<>> /\ n \in Nat \ {0} /\ DOMAIN d.frames = 1 .. n
        /\ n \in 1 .. n
    BY DispatchFacts
  <1>3. PICK f : f = [d.frames[n] EXCEPT !.tries = t]
    OBVIOUS
  <1>4. f \in Frames /\ f.recur = d.frames[n].recur /\ f.code = d.frames[n].code
    <2>1. d.frames[n] \in Frames
      BY <1>2
    <2> QED
      BY <2>1, <1>3 DEF Frames
  <1>5. e.frames = [d.frames EXCEPT ![n] = f]
    BY <1>1, <1>3
  <1>6. /\ e.frames \in Seq(Frames) /\ Len(e.frames) = n /\ e.frames # <<>>
        /\ e.frames[n] = f /\ \A i \in 1 .. n : i # n => e.frames[i] = d.frames[i]
    <2>1. PICK q : q = d.frames
      OBVIOUS
    <2> QED
      BY <2>1, <1>2, <1>4, <1>5, SetLastFacts
  <1>7. e \in Dispatches
    BY <1>1, <1>6 DEF Dispatches, WithTries
  <1>8. SameFrames(d, e, n)
    <2> HIDE DEF e
    <2> QED
      BY <1>1, <1>2, <1>4, <1>6 DEF SameFrames
  <1> QED
    BY <1>1, <1>7, <1>8

LEMMA InnermostIsLast ==
    ASSUME NEW d \in Dispatches, Handlers(d) # {}
    PROVE  /\ Innermost(d) \in 1 .. Len(d.frames) /\ Innermost(d) \in Handlers(d)
           /\ \A j \in Handlers(d) : j <= Innermost(d)
  <1>1. Handlers(d) \subseteq 1 .. Len(d.frames) /\ Len(d.frames) \in Nat
    BY DispatchFacts DEF Handlers
  <1>2. Handlers(d) \subseteq 0 .. Len(d.frames)
    BY <1>1
  <1>3. \E i \in Handlers(d) : \A j \in Handlers(d) : j <= i
    BY <1>1, <1>2, GreatestNumber
  <1>4. Innermost(d) \in Handlers(d) /\ \A j \in Handlers(d) : j <= Innermost(d)
    BY <1>3 DEF Innermost
  <1> QED
    BY <1>1, <1>4

LEMMA FramesUnwound ==
    ASSUME NEW d \in Dispatches, Handlers(d) # {}
    PROVE  LET e == Unwound(d)
           IN  e \in Dispatches /\ SameFrames(d, e, Innermost(d)) /\ e.nd = d.nd
  <1>1. PICK m : m = Innermost(d)
    OBVIOUS
  <1> DEFINE e == Unwound(d)
             n == Len(d.frames)
  <1>2. m \in 1 .. n /\ n \in Nat /\ d.frames \in Seq(Frames) /\ DOMAIN d.frames = 1 .. n
    BY <1>1, InnermostIsLast, DispatchFacts
  <1>3. PICK q : q = SubSeq(d.frames, 1, m)
    OBVIOUS
  <1>4. /\ q \in Seq(Frames) /\ Len(q) = m /\ DOMAIN q = 1 .. m /\ m \in 1 .. m /\ q # <<>>
        /\ \A i \in 1 .. m : q[i] = d.frames[i]
    BY <1>2, <1>3
  <1>5. PICK f : f = [q[m] EXCEPT !.tries = 0]
    OBVIOUS
  <1>6. f \in Frames /\ f.recur = q[m].recur /\ f.code = q[m].code
    <2>1. q[m] \in Frames
      BY <1>4
    <2> QED
      BY <2>1, <1>5 DEF Frames
  <1>7. e.by = d.by /\ e.nd = d.nd /\ e.frames = [q EXCEPT ![m] = f]
    BY <1>1, <1>3, <1>5 DEF Unwound, Dispatches
  <1>8. /\ e.frames \in Seq(Frames) /\ Len(e.frames) = m /\ e.frames # <<>>
        /\ e.frames[m] = f /\ \A i \in 1 .. m : i # m => e.frames[i] = q[i]
    BY <1>4, <1>6, <1>7, SetLastFacts
  <1>9. e \in Dispatches
    BY <1>7, <1>8 DEF Dispatches, Unwound
  <1>10. SameFrames(d, e, m)
    <2> HIDE DEF e
    <2> QED
      BY <1>2, <1>4, <1>6, <1>7, <1>8 DEF SameFrames
  <1> QED
    BY <1>1, <1>7, <1>9, <1>10

-----------------------------------------------------------------------------
\* The stack of dispatches.

Bottom == vms # <<>> => vms[1].by = "decl"

LEMMA TopFacts ==
    ASSUME Typed, vms # <<>>
    PROVE  /\ Len(vms) \in Nat \ {0} /\ DOMAIN vms = 1 .. Len(vms) /\ Len(vms) \in DOMAIN vms
           /\ 1 \in DOMAIN vms /\ Top = vms[Len(vms)] /\ Top \in Dispatches
  <1>1. vms \in Seq(Dispatches)
    BY DEF Typed
  <1>2. Len(vms) \in Nat \ {0} /\ DOMAIN vms = 1 .. Len(vms)
    BY <1>1, LengthZero
  <1> QED
    BY <1>1, <1>2 DEF Top, Last

LEMMA TopSet ==
    ASSUME Typed, vms # <<>>, NEW e \in Dispatches, SetTop(e)
    PROVE  /\ vms' \in Seq(Dispatches) /\ vms' # <<>> /\ Len(vms') = Len(vms) /\ DOMAIN vms' = DOMAIN vms
           /\ vms'[Len(vms)] = e /\ \A n \in DOMAIN vms : n # Len(vms) => vms'[n] = vms[n]
  <1>1. vms \in Seq(Dispatches) /\ vms' = [vms EXCEPT ![Len(vms)] = e]
    BY DEF Typed, SetTop
  <1> QED
    BY <1>1, SetLastFacts

LEMMA StackSet ==
    ASSUME Typed, vms # <<>>, StackInv, Bottom,
           NEW e \in Dispatches, SetTop(e), e.by = Top.by, Sound(Top) => Sound(e),
           ~stale' => ~stale /\ (MatchingEntries(Top) => MatchingEntries(e))
    PROVE  (vms \in Seq(Dispatches))' /\ StackInv' /\ Bottom'
  <1>1. Sound(Top) /\ (~stale => MatchingEntries(Top)) /\ Top = vms[Len(vms)] /\ Len(vms) \in DOMAIN vms
        /\ 1 \in DOMAIN vms
    BY TopFacts DEF StackInv, Sound
  <1>2. /\ vms' \in Seq(Dispatches) /\ vms' # <<>> /\ DOMAIN vms' = DOMAIN vms
        /\ vms'[Len(vms)] = e /\ \A n \in DOMAIN vms : n # Len(vms) => vms'[n] = vms[n]
    BY TopSet
  <1>3. Sound(e) /\ (~stale' => ~stale /\ MatchingEntries(e))
    BY <1>1
  <1>4. ASSUME NEW n \in DOMAIN vms
        PROVE  Sound(vms'[n]) /\ (~stale' => MatchingEntries(vms'[n]))
    BY <1>2, <1>3 DEF StackInv, Sound
  <1>5. StackInv'
    BY <1>2, <1>4 DEF StackInv, Sound, Shaped, HasEntries, MatchingEntries, RecurFramesOf
  <1>6. Bottom'
    BY <1>1, <1>2 DEF Bottom
  <1> QED
    BY <1>2, <1>5, <1>6

LEMMA StackPush ==
    ASSUME Typed, vms # <<>>, StackInv, Bottom, stale' = stale,
           NEW by \in {"recur", "sync"}, NEW c \in Codes, by = "recur" => c \in Values,
           vms' = Append(vms, Dispatch(by, c))
    PROVE  (vms \in Seq(Dispatches))' /\ StackInv' /\ Bottom'
  <1>1. PICK d : d = Dispatch(by, c)
    OBVIOUS
  <1>2. d \in Dispatches /\ Sound(d) /\ MatchingEntries(d)
    BY <1>1, NewDispatch
  <1>3. vms \in Seq(Dispatches) /\ vms' = Append(vms, d) /\ 1 \in DOMAIN vms
    BY <1>1, TopFacts DEF Typed
  <1>4. /\ vms' \in Seq(Dispatches) /\ DOMAIN vms' = DOMAIN vms \cup {Len(vms) + 1}
        /\ vms'[Len(vms) + 1] = d /\ \A i \in DOMAIN vms : vms'[i] = vms[i]
    BY <1>2, <1>3, PushFacts
  <1>5. ASSUME NEW n \in DOMAIN vms'
        PROVE  Sound(vms'[n]) /\ (~stale' => MatchingEntries(vms'[n]))
    BY <1>2, <1>4 DEF StackInv, Sound
  <1>6. StackInv'
    BY <1>5 DEF StackInv, Sound, Shaped, HasEntries, MatchingEntries, RecurFramesOf
  <1>7. Bottom'
    BY <1>3, <1>4 DEF Bottom
  <1> QED
    BY <1>4, <1>6, <1>7

LEMMA DispatchesFront ==
    \A q \in Seq(Dispatches) : q # <<>> =>
        /\ Front(q) \in Seq(Dispatches) /\ Len(Front(q)) = Len(q) - 1
        /\ DOMAIN Front(q) = 1 .. (Len(q) - 1)
        /\ \A i \in DOMAIN Front(q) : i \in DOMAIN q /\ Front(q)[i] = q[i]
  BY FrontFacts

LEMMA StackPop ==
    ASSUME Typed, vms # <<>>, StackInv, Bottom, stale' = stale, vms' = Front(vms), Top.by # "decl"
    PROVE  (vms \in Seq(Dispatches))' /\ StackInv' /\ Bottom' /\ vms' # <<>>
  <1>1. vms \in Seq(Dispatches) /\ Top = vms[Len(vms)] /\ Len(vms) \in Nat \ {0}
    BY TopFacts DEF Typed
  <1>2. /\ vms' \in Seq(Dispatches) /\ Len(vms') = Len(vms) - 1 /\ DOMAIN vms' = 1 .. (Len(vms) - 1)
        /\ \A i \in DOMAIN vms' : i \in DOMAIN vms /\ vms'[i] = vms[i]
    BY <1>1, DispatchesFront
  <1>3. Len(vms) # 1
    BY <1>1 DEF Bottom
  <1>4. Len(vms) - 1 \in Nat \ {0} /\ 1 \in DOMAIN vms'
    BY <1>1, <1>2, <1>3
  <1>5. vms' # <<>>
    BY <1>2, <1>4
  <1>6. ASSUME NEW n \in DOMAIN vms'
        PROVE  Sound(vms'[n]) /\ (~stale' => MatchingEntries(vms'[n]))
    BY <1>2 DEF StackInv, Sound
  <1>7. StackInv'
    BY <1>6 DEF StackInv, Sound, Shaped, HasEntries, MatchingEntries, RecurFramesOf
  <1>8. Bottom'
    BY <1>2, <1>4 DEF Bottom
  <1> QED
    BY <1>2, <1>5, <1>7, <1>8

\* What the actions do to the running dispatch, by name.
LEMMA ReturnSets ==
    ASSUME Typed, StackInv, Return
    PROVE  /\ vms # <<>> /\ err = "none" /\ Len(Top.frames) > 1 /\ SetTop(AfterPop(Top)) /\ stale' = stale
           /\ UNCHANGED <<abort, err, caught, stale>>
           /\ PopsEntry(Popped(Top)) =>
                  depth' = DepthAfterPop /\ Store(Hash[Last(Top.nd).key], Last(Top.frames).code)
           /\ ~PopsEntry(Popped(Top)) => UNCHANGED <<depth, memo>>
           /\ IF Last(Top.frames).recur THEN Got(Last(Top.frames).code, Last(Top.frames).code)
              ELSE UNCHANGED got
  <1>1. Top \in Dispatches /\ vms # <<>> /\ err = "none"
    BY TopFacts DEF Return, Running
  <1>2. Popped(Top).nd = Top.nd
    BY <1>1 DEF Popped, Dispatches
  <1>3. HandleNdFramePop(Popped(Top), Last(Top.frames).code)
    BY DEF Return, Popped
  <1>4. CASE PopsEntry(Popped(Top))
    <2>1. SetTop(AfterPop(Top)) /\ depth' = DepthAfterPop /\ Store(Hash[Last(Top.nd).key], Last(Top.frames).code)
      BY <1>2, <1>3, <1>4 DEF HandleNdFramePop, AfterPop
    <2> QED
      BY <2>1, <1>1, <1>4 DEF Return
  <1>5. CASE ~PopsEntry(Popped(Top))
    <2>1. SetTop(AfterPop(Top)) /\ UNCHANGED <<depth, memo>>
      BY <1>3, <1>5 DEF HandleNdFramePop, AfterPop
    <2> QED
      BY <2>1, <1>1, <1>5 DEF Return
  <1> QED
    BY <1>4, <1>5

LEMMA CatchSets ==
    ASSUME Typed, RestInv, Catch
    PROVE  /\ vms # <<>> /\ Top \in Dispatches /\ Handlers(Top) # {} /\ SetTop(Unwound(Top))
           /\ ~stale' => ~stale /\ \A j \in RecurFramesOf(Top) : j <= Innermost(Top)
           /\ err' = "none" /\ caught' = TRUE /\ UNCHANGED <<depth, memo, abort, got>>
  <1>1. vms # <<>> /\ Handlers(Top) # {}
    BY DEF Catch, RestInv
  <1>2. Top \in Dispatches
    BY <1>1, TopFacts
  <1>3. SetTop(Unwound(Top)) /\ stale' = (stale \/ \E j \in RecurFramesOf(Top) : j > Innermost(Top))
    BY DEF Catch, Unwound
  <1>4. Innermost(Top) \in Nat /\ \A j \in RecurFramesOf(Top) : j \in Nat
    BY <1>1, <1>2, InnermostIsLast, DispatchFacts
  <1>5. \A j \in RecurFramesOf(Top) : ~(j > Innermost(Top)) => j <= Innermost(Top)
    BY <1>4
  <1> QED
    BY <1>1, <1>2, <1>3, <1>5 DEF Catch

LEMMA StackStep ==
    ASSUME Typed, StackInv, RestInv, Next
    PROVE  (vms \in Seq(Dispatches))' /\ StackInv' /\ Bottom'
  <1> USE DEF Running
  <1>1. Bottom /\ vms \in Seq(Dispatches)
    BY DEF Bottom, RestInv, Typed
  <1>2. vms # <<>> => Top \in Dispatches
    BY TopFacts
  <1>3. ASSUME NEW v \in Values, Start(v) PROVE (vms \in Seq(Dispatches))' /\ StackInv' /\ Bottom'
    <2>1. PICK d : d = Dispatch("decl", v)
      OBVIOUS
    <2>2. d \in Dispatches /\ d.by = "decl" /\ Sound(d) /\ MatchingEntries(d)
      <3>1. v \in Codes
        BY DEF Codes
      <3> QED
        BY <2>1, <3>1, NewDispatch
    <2>3. vms' = <<d>>
      BY <1>3, <2>1 DEF Start
    <2>4. vms' \in Seq(Dispatches) /\ DOMAIN vms' = 1 .. 1 /\ vms'[1] = d
      BY <2>2, <2>3, OneElement
    <2>5. \A n \in DOMAIN vms' : vms'[n] = d
      BY <2>4
    <2> QED
      BY <2>2, <2>4, <2>5
      DEF StackInv, Sound, Shaped, HasEntries, MatchingEntries, RecurFramesOf, Bottom
  <1>4. ASSUME UNCHANGED <<vms, stale>> PROVE (vms \in Seq(Dispatches))' /\ StackInv' /\ Bottom'
    BY <1>1, <1>4 DEF StackInv, Bottom, Shaped, HasEntries, MatchingEntries, RecurFramesOf
  <1>5. ASSUME NEW v \in Values, RecurFrame(v) PROVE (vms \in Seq(Dispatches))' /\ StackInv' /\ Bottom'
    <2>1. vms # <<>> /\ SetTop(WithRecur(Top, v)) /\ stale' = stale
      BY <1>5 DEF RecurFrame, WithRecur
    <2>2. PICK e : e = WithRecur(Top, v)
      OBVIOUS
    <2>3. Sound(Top)
      BY <2>1, TopFacts DEF StackInv, Sound
    <2>4. e \in Dispatches /\ e.by = Top.by /\ Sound(e) /\ (MatchingEntries(Top) => MatchingEntries(e))
      BY <1>2, <2>1, <2>2, <2>3, RecurPushed
    <2> QED
      BY <1>1, <2>1, <2>2, <2>4, StackSet
  <1>6. ASSUME NEW v \in Values, RecurChild(v) PROVE (vms \in Seq(Dispatches))' /\ StackInv' /\ Bottom'
    <2>1. vms # <<>> /\ vms' = Append(vms, Dispatch("recur", v)) /\ stale' = stale /\ v \in Codes
      BY <1>6 DEF RecurChild, Codes
    <2> QED
      BY <1>1, <2>1, StackPush
  <1>7. ASSUME CallFn PROVE (vms \in Seq(Dispatches))' /\ StackInv' /\ Bottom'
    <2>1. vms # <<>> /\ SetTop(WithFn(Top)) /\ stale' = stale
      BY <1>7 DEF CallFn, WithFn
    <2>2. PICK e : e = WithFn(Top)
      OBVIOUS
    <2>3. /\ e \in Dispatches /\ e.by = Top.by
          /\ Sound(Top) => Sound(e)
          /\ MatchingEntries(Top) => MatchingEntries(e)
      BY <1>2, <2>1, <2>2, FnPushed
    <2> QED
      BY <1>1, <2>1, <2>2, <2>3, StackSet
  <1>8. ASSUME CallSync PROVE (vms \in Seq(Dispatches))' /\ StackInv' /\ Bottom'
    <2>1. vms # <<>> /\ vms' = Append(vms, Dispatch("sync", Fn)) /\ stale' = stale /\ Fn \in Codes
      BY <1>8 DEF CallSync, SyncDispatch, Codes
    <2> QED
      BY <1>1, <2>1, StackPush
  <1>9. ASSUME Return PROVE (vms \in Seq(Dispatches))' /\ StackInv' /\ Bottom'
    <2>1. vms # <<>> /\ SetTop(AfterPop(Top)) /\ stale' = stale /\ Len(Top.frames) > 1
      BY <1>9, ReturnSets
    <2>2. PICK e : e = AfterPop(Top)
      OBVIOUS
    <2>3. Sound(Top)
      BY <2>1, TopFacts DEF StackInv, Sound
    <2>4. e \in Dispatches /\ e.by = Top.by /\ Sound(e) /\ (MatchingEntries(Top) => MatchingEntries(e))
      BY <1>2, <2>1, <2>2, <2>3, FramePopped
    <2> QED
      BY <1>1, <2>1, <2>2, <2>4, StackSet
  <1>10. ASSUME ReturnSync \/ ReturnChild \/ FailSync \/ FailChild
         PROVE  (vms \in Seq(Dispatches))' /\ StackInv' /\ Bottom'
    <2>1. vms # <<>> /\ vms' = Front(vms) /\ stale' = stale /\ Top.by # "decl"
      BY <1>10 DEF ReturnSync, ReturnChild, FailSync, FailChild, RestInv
    <2> QED
      BY <1>1, <2>1, StackPop
  <1>11. ASSUME ReturnDecl \/ FailDecl PROVE (vms \in Seq(Dispatches))' /\ StackInv' /\ Bottom'
    <2>1. vms' = <<>>
      BY <1>11 DEF ReturnDecl, FailDecl
    <2>2. vms' \in Seq(Dispatches) /\ DOMAIN vms' = {}
      BY <2>1
    <2> QED
      BY <2>1, <2>2 DEF StackInv, Bottom
  <1>12. ASSUME NEW t \in {0, 1}, vms # <<>>, SetTop(WithTries(Top, t)), stale' = stale
         PROVE  (vms \in Seq(Dispatches))' /\ StackInv' /\ Bottom'
    <2>1. PICK e : e = WithTries(Top, t)
      OBVIOUS
    <2>2. e \in Dispatches /\ SameFrames(Top, e, Len(Top.frames)) /\ e.nd = Top.nd
      BY <1>2, <1>12, <2>1, TriesSet
    <2>3. \A i \in RecurFramesOf(Top) : i <= Len(Top.frames)
      BY <1>2, <1>12, DispatchFacts
    <2>4. (Sound(Top) => Sound(e)) /\ (MatchingEntries(Top) => MatchingEntries(e)) /\ e.by = Top.by
      BY <1>2, <1>12, <2>2, <2>3, SameEntries DEF SameFrames
    <2> QED
      BY <1>1, <1>12, <2>1, <2>2, <2>4, StackSet
  <1>13. ASSUME Try \/ EndTry PROVE (vms \in Seq(Dispatches))' /\ StackInv' /\ Bottom'
    <2>1. vms # <<>> /\ stale' = stale /\ (SetTop(WithTries(Top, 1)) \/ SetTop(WithTries(Top, 0)))
      BY <1>13 DEF Try, EndTry, WithTries
    <2> QED
      BY <2>1, <1>12
  <1>14. ASSUME Catch PROVE (vms \in Seq(Dispatches))' /\ StackInv' /\ Bottom'
    <2>1. /\ vms # <<>> /\ Top \in Dispatches /\ Handlers(Top) # {} /\ SetTop(Unwound(Top))
          /\ ~stale' => ~stale /\ \A j \in RecurFramesOf(Top) : j <= Innermost(Top)
      BY <1>14, CatchSets
    <2>2. PICK e : e = Unwound(Top)
      OBVIOUS
    <2>3. e \in Dispatches /\ SameFrames(Top, e, Innermost(Top)) /\ e.nd = Top.nd
      BY <2>1, <2>2, FramesUnwound
    <2>4. /\ Sound(Top) => Sound(e)
          /\ ~stale' => ~stale /\ (MatchingEntries(Top) => MatchingEntries(e))
          /\ e.by = Top.by
      BY <2>1, <2>3, SameEntries DEF SameFrames
    <2> QED
      BY <1>1, <2>1, <2>2, <2>3, <2>4, StackSet
  <1>15. CASE \E v \in Values : Start(v) \/ RecurHit(v) \/ RecurFrame(v) \/ RecurChild(v)
    BY <1>3, <1>4, <1>5, <1>6, <1>15 DEF RecurHit
  <1>16. CASE RecurTooDeep \/ Throw
    BY <1>4, <1>16 DEF RecurTooDeep, Throw
  <1> QED
    BY <1>7, <1>8, <1>9, <1>10, <1>11, <1>13, <1>14, <1>15, <1>16 DEF Next

\* The memo.
LEMMA StoreFacts ==
    ASSUME NEW k, NEW r, Store(k, r)
    PROVE  /\ DOMAIN memo' = DOMAIN memo \cup {k} /\ memo'[k] = r
           /\ \A x \in DOMAIN memo : x # k => memo'[x] = memo[x]
           /\ Typed /\ k \in Keys /\ r \in Codes =>
                  (DOMAIN memo \subseteq Keys /\ memo \in [DOMAIN memo -> Codes])'
  BY DEF Store, Typed

LEMMA ReturnTypes ==
    ASSUME NdConstants, Typed, StackInv, Return
    PROVE  /\ Last(Top.frames).code \in Codes
           /\ PopsEntry(Popped(Top)) => Hash[Last(Top.nd).key] \in Keys /\ Last(Top.nd).key \in Values
  <1>1. vms # <<>> /\ Top \in Dispatches /\ Len(Top.frames) > 1 /\ Sound(Top)
    BY ReturnSets, TopFacts DEF StackInv, Sound
  <1>2. Last(Top.frames).code \in Codes
    BY <1>1, DispatchFacts DEF Last
  <1>3. PopsEntry(Popped(Top)) => Last(Top.nd).key \in Values
    BY <1>1, FramePopped
  <1> QED
    BY <1>2, <1>3 DEF Keys, NdConstants

LEMMA TypedStep ==
    ASSUME NdConstants, Typed, StackInv, RestInv, Next
    PROVE  Typed'
  <1> USE DEF Running
  <1>1. (vms \in Seq(Dispatches))'
    BY StackStep
  <1>2. /\ depth \in Int /\ depth <= MaxDepth /\ MaxDepth \in Nat /\ MaxDepth >= 1
        /\ \A v \in Values : v \in Codes /\ Hash[v] \in Keys
        /\ Fn \in Codes /\ <<>> \in [{} -> Codes] /\ DOMAIN <<>> = {}
    BY DEF NdConstants, Typed, Codes, Keys
  <1>3. vms # <<>> => Top \in Dispatches /\ Sound(Top) /\ 1 \in DOMAIN Top.frames
    BY TopFacts, DispatchFacts DEF StackInv, Sound
  <1>4. CASE \E v \in Values : Start(v)
    <2>1. /\ memo' = <<>> /\ got' = NoCall /\ depth' = 0 /\ caught' = FALSE /\ stale' = FALSE
          /\ UNCHANGED <<abort, err>>
      BY <1>4 DEF Start
    <2>2. (DOMAIN memo \subseteq Keys /\ memo \in [DOMAIN memo -> Codes])'
      BY <1>2, <2>1
    <2>3. got' \in [asked : Codes, result : Codes]
      BY <1>2, <2>1 DEF NoCall
    <2>4. depth' \in Int /\ depth' <= MaxDepth
      <3>1. 0 \in Int /\ 0 <= MaxDepth
        BY <1>2
      <3> QED
        BY <3>1, <2>1, Zenon
    <2>5. caught' \in BOOLEAN /\ stale' \in BOOLEAN /\ UNCHANGED <<abort, err>>
      BY <2>1, Zenon
    <2> QED
      BY <1>1, <2>2, <2>3, <2>4, <2>5 DEF Typed
  <1>5. CASE \E v \in Values : RecurHit(v)
    <2>1. PICK v \in Values : RecurHit(v)
      BY <1>5
    <2>2. memo[Hash[v]] \in Codes
      BY <2>1 DEF RecurHit, Hit, Typed
    <2> QED
      BY <1>1, <1>2, <2>1, <2>2 DEF RecurHit, Got, Typed
  <1>6. CASE \E v \in Values : RecurFrame(v) \/ RecurChild(v)
    BY <1>1, <1>2, <1>6 DEF RecurFrame, RecurChild, TooDeep, Typed
  <1>7. CASE RecurTooDeep \/ CallFn \/ CallSync \/ ReturnSync \/ ReturnDecl \/ Try \/ EndTry \/ Throw \/ FailSync
    BY <1>1, <1>7 DEF RecurTooDeep, CallFn, CallSync, ReturnSync, ReturnDecl, Try, EndTry, Throw, FailSync,
                      AbortAfter, Typed
  <1>8. CASE Return
    <2>1. Last(Top.frames).code \in Codes
      BY <1>8, ReturnTypes
    <2>2. got' \in [asked : Codes, result : Codes]
      BY <1>8, <2>1, ReturnSets DEF Got, Typed
    <2>3. depth' \in Int /\ depth' <= MaxDepth
      BY <1>2, <1>8, ReturnSets DEF DepthAfterPop
    <2>4. (DOMAIN memo \subseteq Keys /\ memo \in [DOMAIN memo -> Codes])'
      <3>1. CASE PopsEntry(Popped(Top))
        BY <1>8, <2>1, <3>1, ReturnSets, ReturnTypes, StoreFacts
      <3>2. CASE ~PopsEntry(Popped(Top))
        BY <1>8, <3>2, ReturnSets DEF Typed
      <3> QED
        BY <3>1, <3>2
    <2> QED
      BY <1>1, <1>8, <2>2, <2>3, <2>4, ReturnSets DEF Typed
  <1>9. CASE ReturnChild
    <2>1. PICK v : v = Top.frames[1].code
      OBVIOUS
    <2>2. v \in Values
      BY <1>3, <1>9, <2>1 DEF ReturnChild, Sound, Shaped
    <2>3. Store(Hash[v], v) /\ Got(v, v) /\ depth' = depth - 1
      BY <1>9, <2>1 DEF ReturnChild
    <2>4. (DOMAIN memo \subseteq Keys /\ memo \in [DOMAIN memo -> Codes])'
      BY <1>2, <2>2, <2>3, StoreFacts
    <2> QED
      BY <1>1, <1>2, <1>9, <2>2, <2>3, <2>4 DEF ReturnChild, Got, Typed
  <1>10. CASE Catch
    <2>1. stale' \in BOOLEAN
      BY <1>10 DEF Catch, Typed
    <2> QED
      BY <1>1, <1>10, <2>1, CatchSets DEF Typed
  <1>11. CASE FailChild
    <2>1. err' \in {"none", "deep", "other"} /\ caught' \in BOOLEAN
      BY <1>11 DEF FailChild, Worded, Typed
    <2>2. depth' = depth - 1 /\ UNCHANGED <<memo, abort, got, stale>>
      BY <1>11 DEF FailChild
    <2>3. depth' \in Int /\ depth' <= MaxDepth
      BY <1>2, <2>2
    <2> QED
      BY <1>1, <2>1, <2>2, <2>3 DEF Typed
  <1>12. CASE FailDecl
    BY <1>1, <1>12 DEF FailDecl, AbortAfter, Typed
  <1> QED
    BY <1>4, <1>5, <1>6, <1>7, <1>8, <1>9, <1>10, <1>11, <1>12 DEF Next

LEMMA RestStep ==
    ASSUME Typed, StackInv, RestInv, Next
    PROVE  RestInv'
  <1> USE DEF Running
  <1>1. Bottom'
    BY StackStep
  <1>2. (~caught => ~stale)'
    <2>1. CASE \E v \in Values : Start(v)
      BY <2>1 DEF Start
    <2>2. CASE Catch
      BY <2>2, CatchSets
    <2>3. CASE FailChild
      BY <2>3 DEF FailChild, RestInv
    <2>4. CASE Return
      BY <2>4, ReturnSets DEF RestInv
    <2>5. CASE UNCHANGED <<caught, stale>>
      BY <2>5 DEF RestInv
    <2> QED
      BY <2>1, <2>2, <2>3, <2>4, <2>5 DEF Next, RecurHit, RecurFrame, RecurChild, RecurTooDeep, CallFn, CallSync,
         ReturnSync, ReturnChild, ReturnDecl, Try, EndTry, Throw, FailSync, FailDecl
  <1>3. (vms = <<>> => ~abort /\ err = "none")'
    <2>1. CASE ReturnDecl \/ FailDecl
      BY <2>1 DEF ReturnDecl, FailDecl, AbortAfter
    <2>2. CASE ReturnSync \/ ReturnChild \/ FailSync \/ FailChild
      <3>1. vms # <<>> /\ vms' = Front(vms) /\ stale' = stale /\ Top.by # "decl"
        BY <2>2 DEF ReturnSync, ReturnChild, FailSync, FailChild, RestInv
      <3>2. vms' # <<>>
        BY <3>1, StackPop DEF RestInv, Bottom
      <3> QED
        BY <3>2
    <2>3. CASE RecurTooDeep \/ Throw
      BY <2>3 DEF RecurTooDeep, Throw
    <2>4. ASSUME vms # <<>>, NEW e \in Dispatches, SetTop(e) PROVE vms' # <<>>
      BY <2>4, TopSet
    <2>5. vms # <<>> => Top \in Dispatches /\ Sound(Top)
      BY TopFacts DEF StackInv, Sound
    <2>6. CASE Return
      BY <2>4, <2>5, <2>6, ReturnSets, FramePopped
    <2>7. CASE Catch
      BY <2>4, <2>7, CatchSets, FramesUnwound
    <2>8. CASE Try \/ EndTry
      <3>1. vms # <<>> /\ (SetTop(WithTries(Top, 1)) \/ SetTop(WithTries(Top, 0)))
        BY <2>8 DEF Try, EndTry, WithTries
      <3> QED
        BY <2>4, <2>5, <3>1, TriesSet
    <2>9. CASE CallFn
      <3>1. vms # <<>> /\ SetTop(WithFn(Top))
        BY <2>9 DEF CallFn, WithFn
      <3> QED
        BY <2>4, <2>5, <3>1, FnPushed
    <2>10. CASE \E v \in Values : RecurFrame(v)
      <3>1. PICK v \in Values : vms # <<>> /\ SetTop(WithRecur(Top, v))
        BY <2>10 DEF RecurFrame, WithRecur
      <3> QED
        BY <2>4, <2>5, <3>1, RecurPushed
    <2>11. \A d : Append(vms, d) # <<>>
      BY DEF Typed
    <2>12. CASE CallSync \/ \E v \in Values : Start(v) \/ RecurChild(v)
      BY <2>11, <2>12 DEF CallSync, Start, RecurChild
    <2>13. CASE \E v \in Values : RecurHit(v)
      BY <2>13 DEF RecurHit
    <2> QED
      BY <2>1, <2>2, <2>3, <2>6, <2>7, <2>8, <2>9, <2>10, <2>12, <2>13 DEF Next
  <1> QED
    BY <1>1, <1>2, <1>3 DEF RestInv, Bottom

-----------------------------------------------------------------------------
\* What the memo holds.

LEMMA MemoStore ==
    ASSUME MemoInv, NEW v \in Values, Store(Hash[v], v), stale' = stale
    PROVE  ~stale' => \A w \in Values : Hash[w] \in DOMAIN memo' => SameKey(w, memo'[Hash[w]])
  <1>1. /\ DOMAIN memo' = DOMAIN memo \cup {Hash[v]} /\ memo'[Hash[v]] = v
        /\ \A x \in DOMAIN memo : x # Hash[v] => memo'[x] = memo[x]
    BY StoreFacts
  <1> SUFFICES ASSUME ~stale, NEW w \in Values, Hash[w] \in DOMAIN memo'
               PROVE  SameKey(w, memo'[Hash[w]])
    OBVIOUS
  <1>2. CASE Hash[w] = Hash[v]
    BY <1>1, <1>2 DEF SameKey
  <1>3. CASE Hash[w] # Hash[v]
    BY <1>1, <1>3 DEF MemoInv
  <1> QED
    BY <1>2, <1>3

LEMMA MemoStep ==
    ASSUME Typed, StackInv, RestInv, MemoInv, Next
    PROVE  MemoInv'
  <1> USE DEF Running
  <1>1. CASE UNCHANGED <<memo, got, stale>>
    BY <1>1 DEF MemoInv
  <1>2. CASE \E v \in Values : Start(v)
    <2>1. memo' = <<>> /\ got' = NoCall
      BY <1>2 DEF Start
    <2>2. DOMAIN memo' = {}
      BY <2>1
    <2> QED
      BY <2>1, <2>2 DEF NoCall, MemoInv, SameKey
  <1>3. CASE \E v \in Values : RecurHit(v)
    <2>1. PICK v \in Values : RecurHit(v)
      BY <1>3
    <2>2. /\ Hash[v] \in DOMAIN memo /\ got' = [asked |-> v, result |-> memo[Hash[v]]]
          /\ memo' = memo /\ stale' = stale
      BY <2>1 DEF RecurHit, Hit, Got
    <2> QED
      BY <2>2 DEF MemoInv
  <1>4. CASE Catch
    BY <1>4, CatchSets DEF MemoInv
  <1>5. CASE ReturnChild
    <2>1. PICK v : v = Top.frames[1].code
      OBVIOUS
    <2>2. v \in Values
      BY <1>5, <2>1, TopFacts DEF ReturnChild, StackInv, Shaped
    <2>3. Store(Hash[v], v) /\ got' = [asked |-> v, result |-> v] /\ stale' = stale
      BY <1>5, <2>1 DEF ReturnChild, Got
    <2> QED
      BY <2>2, <2>3, MemoStore DEF MemoInv, SameKey
  <1>6. CASE Return
    <2> SUFFICES ASSUME ~stale'
                 PROVE  /\ SameKey(got'.asked, got'.result)
                        /\ \A v \in Values : Hash[v] \in DOMAIN memo' => SameKey(v, memo'[Hash[v]])
      BY DEF MemoInv
    <2>1. vms # <<>> /\ Len(Top.frames) > 1 /\ stale' = stale /\ ~stale
      BY <1>6, ReturnSets
    <2>2. Top \in Dispatches /\ Sound(Top) /\ MatchingEntries(Top)
      BY <2>1, TopFacts DEF StackInv, Sound
    <2>3. SameKey(got'.asked, got'.result)
      BY <1>6, <2>1, ReturnSets DEF Got, MemoInv, SameKey
    <2>4. CASE PopsEntry(Popped(Top))
      <3>1. PICK v \in Values : v = Last(Top.nd).key
        BY <2>1, <2>2, <2>4, FramePopped
      <3>2. v = Last(Top.frames).code
        BY <2>1, <2>2, <2>4, <3>1, FramePopped
      <3>3. Store(Hash[v], v)
        BY <1>6, <2>4, <3>1, <3>2, ReturnSets
      <3> QED
        BY <2>1, <2>3, <3>3, MemoStore
    <2>5. CASE ~PopsEntry(Popped(Top))
      <3>1. memo' = memo
        BY <1>6, <2>5, ReturnSets
      <3> QED
        BY <2>1, <2>3, <3>1 DEF MemoInv
    <2> QED
      BY <2>4, <2>5
  <1> QED
    BY <1>1, <1>2, <1>3, <1>4, <1>5, <1>6 DEF Next, RecurFrame, RecurChild, RecurTooDeep, CallFn, CallSync,
       ReturnSync, ReturnDecl, Try, EndTry, Throw, FailSync, FailChild, FailDecl
-----------------------------------------------------------------------------
\* Levels owed.

LEMMA OwedMember ==
    ASSUME NEW s, NEW x
    PROVE  x \in OwedOf(s) <=> \E n \in DOMAIN s : \E j \in OwedIn(s[n]) : x = <<n, j>>
  BY DEF OwedOf

LEMMA OwedPair ==
    ASSUME NEW s, NEW n, NEW j
    PROVE  <<n, j>> \in OwedOf(s) <=> n \in DOMAIN s /\ j \in OwedIn(s[n])
  BY OwedMember

LEMMA OwedSame ==
    ASSUME NEW s, NEW t, \A n, j : <<n, j>> \in OwedOf(s) <=> <<n, j>> \in OwedOf(t)
    PROVE  OwedOf(s) = OwedOf(t)
  <1>1. ASSUME NEW x \in OwedOf(s) PROVE x \in OwedOf(t)
    <2>1. PICK n, j : x = <<n, j>>
      BY <1>1, OwedMember
    <2> QED
      BY <2>1, <1>1
  <1>2. ASSUME NEW x \in OwedOf(t) PROVE x \in OwedOf(s)
    <2>1. PICK n, j : x = <<n, j>>
      BY <1>2, OwedMember
    <2> QED
      BY <2>1, <1>2
  <1> QED
    BY <1>1, <1>2

LEMMA OwedEmpty ==
    ASSUME NEW s, s = <<>>
    PROVE  OwedOf(s) = {} /\ IsFiniteSet(OwedOf(s)) /\ Cardinality(OwedOf(s)) = 0
  <1>1. OwedOf(s) = {}
    BY DEF OwedOf
  <1> QED
    BY <1>1, FS_EmptySet

\* The running dispatch alone is replaced.
LEMMA OwedSet ==
    ASSUME Typed, vms # <<>>, NEW e \in Dispatches, SetTop(e)
    PROVE  /\ OwedIn(e) = OwedIn(Top) => OwedOf(vms') = OwedOf(vms)
           /\ \A k : k \notin OwedIn(Top) /\ OwedIn(e) = OwedIn(Top) \cup {k} =>
                  <<Len(vms), k>> \notin OwedOf(vms) /\ OwedOf(vms') = OwedOf(vms) \cup {<<Len(vms), k>>}
           /\ \A k : k \in OwedIn(Top) /\ OwedIn(e) = OwedIn(Top) \ {k} =>
                  <<Len(vms), k>> \in OwedOf(vms) /\ OwedOf(vms') = OwedOf(vms) \ {<<Len(vms), k>>}
  <1>1. /\ DOMAIN vms' = DOMAIN vms /\ vms'[Len(vms)] = e /\ Top = vms[Len(vms)] /\ Len(vms) \in DOMAIN vms
        /\ \A n \in DOMAIN vms : n # Len(vms) => vms'[n] = vms[n]
    BY TopSet, TopFacts
  <1>2. \A n, j : <<n, j>> \in OwedOf(vms) <=> n \in DOMAIN vms /\ j \in OwedIn(vms[n])
    BY OwedPair
  <1>3. \A n, j : <<n, j>> \in OwedOf(vms') <=>
                    n \in DOMAIN vms /\ IF n = Len(vms) THEN j \in OwedIn(e) ELSE j \in OwedIn(vms[n])
    BY <1>1, OwedPair
  <1>4. \A x : x \in OwedOf(vms) => \E n, j : x = <<n, j>>
    BY OwedMember
  <1>5. \A x : x \in OwedOf(vms') => \E n, j : x = <<n, j>>
    BY OwedMember
  <1>6. ASSUME OwedIn(e) = OwedIn(Top) PROVE OwedOf(vms') = OwedOf(vms)
    <2>1. \A n, j : <<n, j>> \in OwedOf(vms') <=> <<n, j>> \in OwedOf(vms)
      BY <1>1, <1>2, <1>3, <1>6
    <2> QED
      BY <2>1, OwedSame
  <1>7. ASSUME NEW k, k \notin OwedIn(Top), OwedIn(e) = OwedIn(Top) \cup {k}
        PROVE  <<Len(vms), k>> \notin OwedOf(vms) /\ OwedOf(vms') = OwedOf(vms) \cup {<<Len(vms), k>>}
    <2>1. \A n, j : <<n, j>> \in OwedOf(vms') <=> <<n, j>> \in OwedOf(vms) \/ (n = Len(vms) /\ j = k)
      BY <1>1, <1>2, <1>3, <1>7
    <2>2. <<Len(vms), k>> \notin OwedOf(vms)
      BY <1>1, <1>2, <1>7
    <2> QED
      BY <2>1, <2>2, <1>4, <1>5
  <1>8. ASSUME NEW k, k \in OwedIn(Top), OwedIn(e) = OwedIn(Top) \ {k}
        PROVE  <<Len(vms), k>> \in OwedOf(vms) /\ OwedOf(vms') = OwedOf(vms) \ {<<Len(vms), k>>}
    <2>1. \A n, j : <<n, j>> \in OwedOf(vms') <=> <<n, j>> \in OwedOf(vms) /\ ~(n = Len(vms) /\ j = k)
      BY <1>1, <1>2, <1>3, <1>8
    <2>2. <<Len(vms), k>> \in OwedOf(vms)
      BY <1>1, <1>2, <1>8
    <2> QED
      BY <2>1, <2>2, <1>4, <1>5
  <1> QED
    BY <1>6, <1>7, <1>8

\* A dispatch starts.
LEMMA OwedPush ==
    ASSUME Typed, NEW d, d.nd = <<>>, vms' = Append(vms, d)
    PROVE  IF d.by = "recur"
           THEN /\ <<Len(vms) + 1, 0>> \notin OwedOf(vms)
                /\ OwedOf(vms') = OwedOf(vms) \cup {<<Len(vms) + 1, 0>>}
           ELSE OwedOf(vms') = OwedOf(vms)
  <1>1. /\ DOMAIN vms' = DOMAIN vms \cup {Len(vms) + 1} /\ Len(vms) + 1 \notin DOMAIN vms
        /\ vms'[Len(vms) + 1] = d /\ \A n \in DOMAIN vms : vms'[n] = vms[n]
    BY DEF Typed
  <1>2. OwedIn(d) = IF d.by = "recur" THEN {0} ELSE {}
    BY DEF OwedIn
  <1>3. \A n, j : <<n, j>> \in OwedOf(vms) <=> n \in DOMAIN vms /\ j \in OwedIn(vms[n])
    BY OwedPair
  <1>4. \A n, j : <<n, j>> \in OwedOf(vms') <=> <<n, j>> \in OwedOf(vms) \/ (n = Len(vms) + 1 /\ j \in OwedIn(d))
    BY <1>1, <1>3, OwedPair
  <1>5. \A x : x \in OwedOf(vms) => \E n, j : x = <<n, j>>
    BY OwedMember
  <1>6. \A x : x \in OwedOf(vms') => \E n, j : x = <<n, j>>
    BY OwedMember
  <1>7. CASE d.by = "recur"
    <2>1. \A n, j : <<n, j>> \in OwedOf(vms') <=> <<n, j>> \in OwedOf(vms) \/ (n = Len(vms) + 1 /\ j = 0)
      <3>1. \A j : j \in OwedIn(d) <=> j = 0
        BY <1>2, <1>7
      <3> QED
        BY <3>1, <1>4, Zenon
    <2>2. <<Len(vms) + 1, 0>> \notin OwedOf(vms)
      BY <1>1, <1>3
    <2>3. OwedOf(vms') = OwedOf(vms) \cup {<<Len(vms) + 1, 0>>}
      BY <2>1, <1>5, <1>6
    <2> QED
      BY <2>2, <2>3, <1>7
  <1>8. CASE d.by # "recur"
    <2>1. \A n, j : <<n, j>> \in OwedOf(vms') <=> <<n, j>> \in OwedOf(vms)
      BY <1>2, <1>4, <1>8
    <2> QED
      BY <2>1, <1>8, OwedSame
  <1> QED
    BY <1>7, <1>8

\* A dispatch ends: what it owed is gone.
LEMMA OwedFront ==
    ASSUME Typed, vms # <<>>, vms' = Front(vms)
    PROVE  /\ OwedOf(vms') = OwedOf(vms) \ {<<Len(vms), j>> : j \in OwedIn(Top)}
           /\ Top.by = "recur" => <<Len(vms), 0>> \in OwedOf(vms) /\ <<Len(vms), 0>> \notin OwedOf(vms')
  <1>1. vms \in Seq(Dispatches) /\ Top = vms[Len(vms)] /\ Len(vms) \in Nat \ {0} /\ DOMAIN vms = 1 .. Len(vms)
        /\ Len(vms) \in DOMAIN vms
    BY TopFacts DEF Typed
  <1>2. /\ DOMAIN vms' = 1 .. (Len(vms) - 1) /\ \A i \in DOMAIN vms' : i \in DOMAIN vms /\ vms'[i] = vms[i]
    BY <1>1, DispatchesFront
  <1>3. \A n : n \in DOMAIN vms' <=> n \in DOMAIN vms /\ n # Len(vms)
    BY <1>1, <1>2
  <1>4. \A n, j : <<n, j>> \in OwedOf(vms) <=> n \in DOMAIN vms /\ j \in OwedIn(vms[n])
    BY OwedPair
  <1>5. \A n, j : <<n, j>> \in OwedOf(vms') <=> <<n, j>> \in OwedOf(vms) /\ n # Len(vms)
    BY <1>2, <1>3, <1>4, OwedPair
  <1>6. \A x : x \in OwedOf(vms) => \E n, j : x = <<n, j>>
    BY OwedMember
  <1>7. \A x : x \in OwedOf(vms') => \E n, j : x = <<n, j>>
    BY OwedMember
  <1>8. \A n, j : <<n, j>> \in {<<Len(vms), i>> : i \in OwedIn(Top)} <=> n = Len(vms) /\ j \in OwedIn(Top)
    OBVIOUS
  <1>9. OwedOf(vms') = OwedOf(vms) \ {<<Len(vms), j>> : j \in OwedIn(Top)}
    <2>1. \A n, j : <<n, j>> \in OwedOf(vms') <=>
              <<n, j>> \in OwedOf(vms) /\ <<n, j>> \notin {<<Len(vms), i>> : i \in OwedIn(Top)}
      BY <1>1, <1>4, <1>5, <1>8
    <2> QED
      BY <2>1, <1>6, <1>7
  <1>10. Top.by = "recur" => 0 \in OwedIn(Top)
    BY DEF OwedIn
  <1> QED
    BY <1>1, <1>4, <1>5, <1>9, <1>10

\* A step gives or takes one level at most, and the depth counter follows.
LEMMA DepthGrows ==
    ASSUME Typed, OwedInv, vms # <<>>, err = "none", NEW x, x \notin OwedOf(vms),
           OwedOf(vms') = OwedOf(vms) \cup {x}, depth' = depth + 1, caught' = caught
    PROVE  OwedInv'
  <1>1. IsFiniteSet(OwedOf(vms)) /\ Cardinality(OwedOf(vms)) \in Nat /\ depth \in Int
    BY FS_CardinalityType DEF OwedInv, Typed
  <1>2. IsFiniteSet(OwedOf(vms')) /\ Cardinality(OwedOf(vms')) = Cardinality(OwedOf(vms)) + 1
    BY <1>1, FS_AddElement
  <1>3. Cardinality(OwedOf(vms)) <= depth /\ (~caught => Cardinality(OwedOf(vms)) = depth)
    BY DEF OwedInv
  <1>4. Cardinality(OwedOf(vms')) <= depth' /\ (~caught' => Cardinality(OwedOf(vms')) = depth')
    BY <1>1, <1>2, <1>3
  <1> QED
    BY <1>2, <1>4 DEF OwedInv

LEMMA DepthFalls ==
    ASSUME Typed, OwedInv, vms # <<>>, NEW x \in OwedOf(vms),
           OwedOf(vms') \subseteq OwedOf(vms) \ {x}, depth' = depth - 1,
           err' = "none" /\ ~caught' =>
               err = "none" /\ ~caught /\ OwedOf(vms') = OwedOf(vms) \ {x}
    PROVE  OwedInv'
  <1>1. IsFiniteSet(OwedOf(vms)) /\ Cardinality(OwedOf(vms)) \in Nat /\ depth \in Int
    BY FS_CardinalityType DEF OwedInv, Typed
  <1>2. IsFiniteSet(OwedOf(vms) \ {x}) /\ Cardinality(OwedOf(vms) \ {x}) = Cardinality(OwedOf(vms)) - 1
    BY <1>1, FS_RemoveElement
  <1>3. /\ IsFiniteSet(OwedOf(vms')) /\ Cardinality(OwedOf(vms')) \in Nat
        /\ Cardinality(OwedOf(vms')) <= Cardinality(OwedOf(vms)) - 1
    BY <1>2, FS_Subset, FS_CardinalityType
  <1>4. Cardinality(OwedOf(vms)) <= depth /\ (err = "none" /\ ~caught => Cardinality(OwedOf(vms)) = depth)
    BY DEF OwedInv
  <1>5. Cardinality(OwedOf(vms')) <= depth'
    BY <1>1, <1>3, <1>4
  <1>6. ASSUME err' = "none", ~caught' PROVE Cardinality(OwedOf(vms')) = depth'
    <2>1. OwedOf(vms') = OwedOf(vms) \ {x} /\ Cardinality(OwedOf(vms)) = depth
      BY <1>4, <1>6
    <2> QED
      BY <2>1, <1>2
  <1> QED
    BY <1>3, <1>5, <1>6 DEF OwedInv

LEMMA DepthStays ==
    ASSUME Typed, OwedInv, vms # <<>>, OwedOf(vms') \subseteq OwedOf(vms), depth' = depth,
           err' = "none" /\ ~caught' => err = "none" /\ ~caught /\ OwedOf(vms') = OwedOf(vms)
    PROVE  OwedInv'
  <1>1. IsFiniteSet(OwedOf(vms)) /\ Cardinality(OwedOf(vms)) \in Nat /\ depth \in Int
    BY FS_CardinalityType DEF OwedInv, Typed
  <1>2. /\ IsFiniteSet(OwedOf(vms')) /\ Cardinality(OwedOf(vms')) \in Nat
        /\ Cardinality(OwedOf(vms')) <= Cardinality(OwedOf(vms))
    BY <1>1, FS_Subset, FS_CardinalityType
  <1>3. Cardinality(OwedOf(vms)) <= depth /\ (err = "none" /\ ~caught => Cardinality(OwedOf(vms)) = depth)
    BY DEF OwedInv
  <1> QED
    BY <1>1, <1>2, <1>3 DEF OwedInv

LEMMA OwedStep ==
    ASSUME Typed, StackInv, RestInv, OwedInv, Next
    PROVE  OwedInv'
  <1> USE DEF Running
  <1>1. vms # <<>> => Top \in Dispatches /\ Sound(Top) /\ (~stale => MatchingEntries(Top))
    BY TopFacts DEF StackInv, Sound
  <1>2. CASE \E v \in Values : Start(v)
    <2>1. PICK v \in Values : Start(v)
      BY <1>2
    <2>2. PICK d : d = Dispatch("decl", v)
      OBVIOUS
    <2>3. d.nd = <<>> /\ d.by = "decl" /\ vms' = <<d>> /\ depth' = 0
      BY <2>1, <2>2 DEF Start, Dispatch
    <2>4. DOMAIN vms' = 1 .. 1 /\ vms'[1] = d /\ OwedIn(d) = {}
      BY <2>3, OneElement DEF OwedIn
    <2>5. OwedOf(vms') = {}
      BY <2>4, OwedMember
    <2>6. IsFiniteSet(OwedOf(vms')) /\ Cardinality(OwedOf(vms')) = 0
      BY <2>5, FS_EmptySet
    <2> QED
      BY <2>3, <2>6 DEF OwedInv
  <1>3. CASE ReturnDecl \/ FailDecl
    <2>1. vms' = <<>> /\ depth' = depth
      BY <1>3 DEF ReturnDecl, FailDecl
    <2>2. Cardinality(OwedOf(vms)) \in Nat /\ depth \in Int /\ Cardinality(OwedOf(vms)) <= depth
      BY FS_CardinalityType DEF OwedInv, Typed
    <2>3. IsFiniteSet(OwedOf(vms')) /\ Cardinality(OwedOf(vms')) = 0
      BY <2>1, OwedEmpty
    <2>4. depth >= 0
      BY <2>2
    <2> QED
      BY <2>1, <2>2, <2>3, <2>4 DEF OwedInv
  <1>4. CASE RecurTooDeep \/ Throw \/ \E v \in Values : RecurHit(v)
    <2>1. /\ vms # <<>> /\ vms' = vms /\ depth' = depth
          /\ err' = "none" /\ ~caught' => err = "none" /\ ~caught
      BY <1>4 DEF RecurTooDeep, Throw, RecurHit
    <2> QED
      BY <2>1, DepthStays
  <1>5. CASE \E v \in Values : RecurFrame(v)
    <2>1. PICK v \in Values : RecurFrame(v)
      BY <1>5
    <2>2. /\ vms # <<>> /\ err = "none" /\ SetTop(WithRecur(Top, v)) /\ depth' = depth + 1 /\ caught' = caught
      BY <2>1 DEF RecurFrame, WithRecur
    <2>3. PICK e : e = WithRecur(Top, v)
      OBVIOUS
    <2>4. PICK k : k = Len(Top.nd) + 1
      OBVIOUS
    <2>5. /\ e \in Dispatches /\ e.by = Top.by /\ DOMAIN e.nd = DOMAIN Top.nd \cup {k}
          /\ k \notin DOMAIN Top.nd /\ k # 0
      BY <1>1, <2>2, <2>3, <2>4, RecurPushed
    <2>6. k \notin OwedIn(Top) /\ OwedIn(e) = OwedIn(Top) \cup {k}
      BY <2>5 DEF OwedIn
    <2>7. <<Len(vms), k>> \notin OwedOf(vms) /\ OwedOf(vms') = OwedOf(vms) \cup {<<Len(vms), k>>}
      BY <2>2, <2>3, <2>5, <2>6, OwedSet
    <2> QED
      BY <2>2, <2>7, DepthGrows
  <1>6. CASE \E v \in Values : RecurChild(v)
    <2>1. PICK v \in Values : RecurChild(v)
      BY <1>6
    <2>2. PICK d : d = Dispatch("recur", v)
      OBVIOUS
    <2>3. /\ vms # <<>> /\ err = "none" /\ d.nd = <<>> /\ d.by = "recur" /\ vms' = Append(vms, d)
          /\ depth' = depth + 1 /\ caught' = caught
      BY <2>1, <2>2 DEF RecurChild, Dispatch
    <2>4. /\ <<Len(vms) + 1, 0>> \notin OwedOf(vms)
          /\ OwedOf(vms') = OwedOf(vms) \cup {<<Len(vms) + 1, 0>>}
      BY <2>3, OwedPush
    <2> QED
      BY <2>3, <2>4, DepthGrows
  <1>7. CASE CallSync
    <2>1. PICK d : d = Dispatch("sync", Fn)
      OBVIOUS
    <2>2. /\ vms # <<>> /\ d.nd = <<>> /\ d.by = "sync" /\ vms' = Append(vms, d)
          /\ UNCHANGED <<depth, err, caught>>
      BY <1>7, <2>1 DEF CallSync, SyncDispatch, Dispatch
    <2>3. OwedOf(vms') = OwedOf(vms)
      BY <2>2, OwedPush
    <2> QED
      BY <2>2, <2>3, DepthStays
  <1>8. ASSUME vms # <<>>, NEW e \in Dispatches, SetTop(e), e.by = Top.by, e.nd = Top.nd
        PROVE  OwedOf(vms') = OwedOf(vms)
    <2>1. OwedIn(e) = OwedIn(Top)
      BY <1>8 DEF OwedIn
    <2> QED
      BY <2>1, <1>8, OwedSet
  <1>9. CASE CallFn \/ Try \/ EndTry
    <2>1. /\ vms # <<>> /\ UNCHANGED <<depth, err, caught>>
          /\ SetTop(WithFn(Top)) \/ SetTop(WithTries(Top, 1)) \/ SetTop(WithTries(Top, 0))
      BY <1>9 DEF CallFn, Try, EndTry, WithFn, WithTries
    <2>2. OwedOf(vms') = OwedOf(vms)
      BY <1>1, <1>8, <2>1, FnPushed, TriesSet DEF SameFrames
    <2> QED
      BY <2>1, <2>2, DepthStays
  <1>10. CASE Catch
    <2>1. vms # <<>> /\ caught' = TRUE /\ depth' = depth
      BY <1>10, CatchSets
    <2>2. OwedOf(vms') = OwedOf(vms)
      BY <1>8, <1>10, CatchSets, FramesUnwound DEF SameFrames
    <2> QED
      BY <2>1, <2>2, DepthStays
  <1>11. CASE Return
    <2>1. vms # <<>> /\ SetTop(AfterPop(Top)) /\ Len(Top.frames) > 1 /\ UNCHANGED <<err, caught>>
      BY <1>11, ReturnSets
    <2>2. PICK e : e = AfterPop(Top)
      OBVIOUS
    <2>3. /\ e \in Dispatches /\ e.by = Top.by
          /\ PopsEntry(Popped(Top)) => Top.nd # <<>> /\ e.nd = Front(Top.nd)
          /\ ~PopsEntry(Popped(Top)) => e.nd = Top.nd
      BY <1>1, <2>1, <2>2, FramePopped
    <2>4. CASE PopsEntry(Popped(Top))
      <3>1. PICK k : k = Len(Top.nd)
        OBVIOUS
      <3>2. Top.nd \in Seq(Entries)
        BY <1>1, <2>1, DispatchFacts
      <3>3. k \in DOMAIN Top.nd /\ DOMAIN e.nd = DOMAIN Top.nd \ {k} /\ k # 0
        <4>1. k \in DOMAIN Top.nd /\ DOMAIN Front(Top.nd) = DOMAIN Top.nd \ {k}
          BY <2>3, <2>4, <3>1, <3>2, EntriesFront, Zenon
        <4>2. DOMAIN Top.nd = 1 .. Len(Top.nd)
          BY <1>1, <2>1, DispatchFacts
        <4> QED
          BY <4>1, <4>2, <2>3, <2>4
      <3>4. k \in OwedIn(Top) /\ OwedIn(e) = OwedIn(Top) \ {k}
        BY <2>3, <3>3 DEF OwedIn
      <3>5. <<Len(vms), k>> \in OwedOf(vms) /\ OwedOf(vms') = OwedOf(vms) \ {<<Len(vms), k>>}
        BY <2>1, <2>2, <2>3, <3>4, OwedSet
      <3>6. depth > 0
        <4>1. IsFiniteSet(OwedOf(vms)) /\ Cardinality(OwedOf(vms)) \in Nat /\ depth \in Int
          BY FS_CardinalityType DEF OwedInv, Typed
        <4>2. Cardinality(OwedOf(vms)) # 0
          BY <4>1, <3>5, FS_EmptySet
        <4>3. Cardinality(OwedOf(vms)) <= depth
          BY <2>1 DEF OwedInv
        <4> QED
          BY <4>1, <4>2, <4>3
      <3>7. depth' = depth - 1
        BY <1>11, <2>4, <3>6, ReturnSets DEF DepthAfterPop
      <3> QED
        BY <2>1, <3>5, <3>7, DepthFalls
    <2>5. CASE ~PopsEntry(Popped(Top))
      <3>1. OwedOf(vms') = OwedOf(vms)
        BY <1>8, <2>1, <2>2, <2>3, <2>5
      <3>2. depth' = depth
        BY <1>11, <2>5, ReturnSets
      <3> QED
        BY <2>1, <3>1, <3>2, DepthStays
    <2> QED
      BY <2>4, <2>5
  <1>12. ASSUME vms # <<>>, Len(Top.frames) = 1, ~stale
         PROVE  DOMAIN Top.nd = {}
    <2>1. RecurFramesOf(Top) = {}
      <3>1. RecurFramesOf(Top) = {i \in 1 .. 1 : Top.frames[i].recur} /\ ~Top.frames[1].recur
        BY <1>1, <1>12, DispatchFacts DEF Sound, Shaped
      <3> QED
        BY <3>1
    <2> QED
      BY <2>1, <1>1, <1>12 DEF MatchingEntries
  <1>13. CASE ReturnSync \/ FailSync
    <2>1. /\ vms # <<>> /\ vms' = Front(vms) /\ depth' = depth /\ Top.by = "sync" /\ UNCHANGED <<err, caught>>
      BY <1>13 DEF ReturnSync, FailSync, RestInv
    <2>2. OwedOf(vms') = OwedOf(vms) \ {<<Len(vms), j>> : j \in OwedIn(Top)}
      BY <2>1, OwedFront
    <2>3. ASSUME err' = "none", ~caught' PROVE OwedIn(Top) = {}
      <3>1. Len(Top.frames) = 1 /\ ~stale
        BY <1>13, <2>1, <2>3 DEF ReturnSync, FailSync, RestInv
      <3> QED
        BY <2>1, <3>1, <1>12 DEF OwedIn
    <2> QED
      BY <2>1, <2>2, <2>3, DepthStays
  <1>14. CASE ReturnChild \/ FailChild
    <2>1. /\ vms # <<>> /\ vms' = Front(vms) /\ depth' = depth - 1 /\ Top.by = "recur"
          /\ err' = "none" /\ ~caught' => ReturnChild
      BY <1>14 DEF ReturnChild, FailChild, RestInv, Worded
    <2>2. /\ OwedOf(vms') = OwedOf(vms) \ {<<Len(vms), j>> : j \in OwedIn(Top)}
          /\ <<Len(vms), 0>> \in OwedOf(vms) /\ <<Len(vms), 0>> \notin OwedOf(vms')
      BY <2>1, OwedFront
    <2>3. ASSUME err' = "none", ~caught'
          PROVE  err = "none" /\ ~caught /\ OwedOf(vms') = OwedOf(vms) \ {<<Len(vms), 0>>}
      <3>1. err = "none" /\ ~caught /\ Len(Top.frames) = 1 /\ ~stale
        BY <2>1, <2>3 DEF ReturnChild, RestInv
      <3>2. OwedIn(Top) = {0}
        BY <2>1, <3>1, <1>12 DEF OwedIn
      <3>3. {<<Len(vms), j>> : j \in OwedIn(Top)} = {<<Len(vms), 0>>}
        BY <3>2
      <3> QED
        BY <3>1, <3>3, <2>2
    <2> QED
      BY <2>1, <2>2, <2>3, DepthFalls
  <1> QED
    BY <1>2, <1>3, <1>4, <1>5, <1>6, <1>7, <1>9, <1>10, <1>11, <1>13, <1>14 DEF Next

-----------------------------------------------------------------------------
\* What follows from the invariant in one state.

LEMMA CountedEntries ==
    ASSUME NEW d \in Dispatches, HasEntries(d), MatchingEntries(d)
    PROVE  Len(d.nd) = Cardinality(RecurFramesOf(d))
  <1> DEFINE k == Len(d.nd)
             f == [j \in 1 .. k |-> d.nd[j].at + 2]
  <1>1. k \in Nat /\ DOMAIN d.nd = 1 .. k /\ \A j \in 1 .. k : d.nd[j].at \in Nat
    BY DispatchFacts
  <1>2. IsFiniteSet(1 .. k) /\ Cardinality(1 .. k) = k
    BY <1>1, FS_Interval
  <1>3. f \in [1 .. k -> RecurFramesOf(d)]
    BY <1>1 DEF MatchingEntries
  <1>4. ASSUME NEW a \in 1 .. k, NEW b \in 1 .. k, f[a] = f[b] PROVE a = b
    <2>1. d.nd[a].at = d.nd[b].at
      BY <1>1, <1>4
    <2>2. \A i, j \in 1 .. k : i < j => d.nd[i].at < d.nd[j].at
      BY <1>1 DEF MatchingEntries
    <2>3. PICK x \in Nat : x = d.nd[a].at /\ x = d.nd[b].at
      BY <1>1, <2>1
    <2>4. a < b => x < x
      BY <2>2, <2>3
    <2>5. b < a => x < x
      BY <2>2, <2>3
    <2>6. ~(a < b) /\ ~(b < a)
      BY <2>3, <2>4, <2>5
    <2>7. \A i, j \in 1 .. k : ~(i < j) /\ ~(j < i) => i = j
      OBVIOUS
    <2> QED
      BY <2>6, <2>7
  <1>5. \A i \in RecurFramesOf(d) : \E j \in 1 .. k : f[j] = i
    BY <1>1 DEF HasEntries
  <1> HIDE DEF f
  <1>6. PICK S : S = 1 .. k
    OBVIOUS
  <1>7. /\ f \in [S -> RecurFramesOf(d)] /\ IsFiniteSet(S) /\ Cardinality(S) = k
        /\ \A a, b \in S : f[a] = f[b] => a = b
        /\ \A i \in RecurFramesOf(d) : \E j \in S : f[j] = i
    BY <1>2, <1>3, <1>4, <1>5, <1>6
  <1>8. Cardinality(RecurFramesOf(d)) = Cardinality(S)
    BY <1>7, SameByBijection
  <1> QED
    BY <1>7, <1>8

LiveOf(s) == UNION {{n} \X LiveIn(s[n]) : n \in DOMAIN s}

LEMMA LiveMember ==
    ASSUME NEW s, NEW x
    PROVE  x \in LiveOf(s) <=> \E n \in DOMAIN s : \E j \in LiveIn(s[n]) : x = <<n, j>>
  BY DEF LiveOf

\* The levels in use in a dispatch: for a recur frame, the entry that will give it back.
EntryOf(d, i) == IF i = 0 THEN 0 ELSE CHOOSE j \in DOMAIN d.nd : d.nd[j].at + 2 = i

LEMMA EntryOfFacts ==
    ASSUME NEW d \in Dispatches, HasEntries(d)
    PROVE  /\ \A i \in LiveIn(d) : EntryOf(d, i) \in OwedIn(d)
           /\ \A i, j \in LiveIn(d) : EntryOf(d, i) = EntryOf(d, j) => i = j
  <1>1. 0 \notin RecurFramesOf(d) /\ 0 \notin DOMAIN d.nd
    BY DispatchFacts
  <1>2. \A i \in LiveIn(d) : (i = 0 /\ d.by = "recur") \/ (i # 0 /\ i \in RecurFramesOf(d))
    BY <1>1 DEF LiveIn
  <1>3. ASSUME NEW i \in LiveIn(d), i # 0
        PROVE  EntryOf(d, i) \in DOMAIN d.nd /\ d.nd[EntryOf(d, i)].at + 2 = i
    <2>1. \E j \in DOMAIN d.nd : d.nd[j].at + 2 = i
      BY <1>2, <1>3 DEF HasEntries
    <2> QED
      BY <2>1, <1>3 DEF EntryOf
  <1>4. EntryOf(d, 0) = 0
    BY DEF EntryOf
  <1>5. ASSUME NEW i \in LiveIn(d) PROVE EntryOf(d, i) \in OwedIn(d)
    BY <1>2, <1>3, <1>4 DEF OwedIn
  <1>6. ASSUME NEW i \in LiveIn(d), NEW j \in LiveIn(d), EntryOf(d, i) = EntryOf(d, j)
        PROVE  i = j
    <2>1. CASE i # 0 /\ j # 0
      BY <1>3, <1>6, <2>1
    <2>2. CASE i = 0 \/ j = 0
      BY <1>1, <1>3, <1>4, <1>6, <2>2
    <2> QED
      BY <2>1, <2>2
  <1> QED
    BY <1>5, <1>6

LEMMA LiveIsOwed ==
    ASSUME Typed, StackInv, OwedInv
    PROVE  IsFiniteSet(LiveOf(vms)) /\ Cardinality(LiveOf(vms)) <= Cardinality(OwedOf(vms))
  <1> DEFINE f == [x \in LiveOf(vms) |-> <<x[1], EntryOf(vms[x[1]], x[2])>>]
  <1>1. \A n \in DOMAIN vms : vms[n] \in Dispatches /\ HasEntries(vms[n])
    BY DEF Typed, StackInv
  <1>2. ASSUME NEW x \in LiveOf(vms)
        PROVE  /\ x[1] \in DOMAIN vms /\ x[2] \in LiveIn(vms[x[1]]) /\ x = <<x[1], x[2]>>
    BY LiveMember
  <1>3. \A x \in LiveOf(vms) : <<x[1], EntryOf(vms[x[1]], x[2])>> \in OwedOf(vms)
    BY <1>1, <1>2, EntryOfFacts, OwedPair
  <1>4. f \in [LiveOf(vms) -> OwedOf(vms)]
    BY <1>3
  <1>5. ASSUME NEW x \in LiveOf(vms), NEW y \in LiveOf(vms), f[x] = f[y] PROVE x = y
    <2>1. x[1] = y[1] /\ EntryOf(vms[x[1]], x[2]) = EntryOf(vms[y[1]], y[2])
      BY <1>5
    <2>2. x[2] = y[2]
      BY <1>1, <1>2, <2>1, EntryOfFacts
    <2> QED
      BY <1>2, <2>1, <2>2
  <1> HIDE DEF f
  <1> QED
    BY <1>4, <1>5, FewerByInjection DEF OwedInv

\* And with nothing unwound, every level owed is one in use.
FrameOf(d, j) == IF j = 0 THEN 0 ELSE d.nd[j].at + 2

LEMMA FrameOfFacts ==
    ASSUME NEW d \in Dispatches, MatchingEntries(d)
    PROVE  /\ \A j \in OwedIn(d) : FrameOf(d, j) \in LiveIn(d)
           /\ \A i, j \in OwedIn(d) : FrameOf(d, i) = FrameOf(d, j) => i = j
  <1>1. /\ Len(d.nd) \in Nat /\ DOMAIN d.nd = 1 .. Len(d.nd) /\ 0 \notin DOMAIN d.nd
        /\ \A j \in DOMAIN d.nd : d.nd[j].at \in Nat
    BY DispatchFacts
  <1>2. \A j \in OwedIn(d) : (j = 0 /\ d.by = "recur") \/ (j # 0 /\ j \in DOMAIN d.nd)
    BY <1>1 DEF OwedIn
  <1>3. \A j \in DOMAIN d.nd : FrameOf(d, j) = d.nd[j].at + 2 /\ FrameOf(d, j) # 0
    BY <1>1 DEF FrameOf
  <1>4. FrameOf(d, 0) = 0
    BY DEF FrameOf
  <1>5. \A j \in OwedIn(d) : FrameOf(d, j) \in LiveIn(d)
    BY <1>2, <1>3, <1>4 DEF LiveIn, MatchingEntries
  <1>6. ASSUME NEW i \in OwedIn(d), NEW j \in OwedIn(d), FrameOf(d, i) = FrameOf(d, j)
        PROVE  i = j
    <2>1. CASE i = 0 \/ j = 0
      BY <1>2, <1>3, <1>4, <1>6, <2>1
    <2>2. CASE i # 0 /\ j # 0
      <3>1. i \in DOMAIN d.nd /\ j \in DOMAIN d.nd
        BY <1>2, <2>2
      <3>2. d.nd[i].at + 2 = d.nd[j].at + 2 /\ d.nd[i].at \in Nat /\ d.nd[j].at \in Nat
        BY <1>1, <1>3, <1>6, <3>1
      <3>3. d.nd[i].at = d.nd[j].at
        BY <3>2
      <3>4. ~(i < j) /\ ~(j < i)
        BY <3>1, <3>2, <3>3 DEF MatchingEntries
      <3>5. i \in Nat /\ j \in Nat
        BY <1>1, <3>1
      <3> QED
        BY <3>4, <3>5
    <2> QED
      BY <2>1, <2>2
  <1> QED
    BY <1>5, <1>6

LEMMA OwedIsLive ==
    ASSUME Typed, StackInv, IsFiniteSet(LiveOf(vms)), ~stale
    PROVE  Cardinality(OwedOf(vms)) <= Cardinality(LiveOf(vms))
  <1> DEFINE f == [x \in OwedOf(vms) |-> <<x[1], FrameOf(vms[x[1]], x[2])>>]
  <1>1. \A n \in DOMAIN vms : vms[n] \in Dispatches /\ MatchingEntries(vms[n])
    BY DEF Typed, StackInv
  <1>2. ASSUME NEW x \in OwedOf(vms)
        PROVE  /\ x[1] \in DOMAIN vms /\ x[2] \in OwedIn(vms[x[1]]) /\ x = <<x[1], x[2]>>
    BY OwedMember
  <1>3. \A x \in OwedOf(vms) : <<x[1], FrameOf(vms[x[1]], x[2])>> \in LiveOf(vms)
    BY <1>1, <1>2, FrameOfFacts, LiveMember
  <1>4. f \in [OwedOf(vms) -> LiveOf(vms)]
    BY <1>3
  <1>5. ASSUME NEW x \in OwedOf(vms), NEW y \in OwedOf(vms), f[x] = f[y] PROVE x = y
    <2>1. x[1] = y[1] /\ FrameOf(vms[x[1]], x[2]) = FrameOf(vms[y[1]], y[2])
      BY <1>5
    <2>2. x[2] = y[2]
      BY <1>1, <1>2, <2>1, FrameOfFacts
    <2> QED
      BY <1>2, <2>1, <2>2
  <1> HIDE DEF f
  <1> QED
    BY <1>4, <1>5, FewerByInjection

-----------------------------------------------------------------------------
\* Theorems.

RecurInv == Typed /\ StackInv /\ RestInv /\ OwedInv

\* Frames, entries and the depth counter stay in step.
THEOREM StepsInStep ==
    Spec => []RecurInv
  <1> USE NdConstants
  <1>1. Init => RecurInv
    <2> SUFFICES ASSUME Init PROVE RecurInv
      OBVIOUS
    <2>1. vms = <<>> /\ depth = 0
      BY DEF Init
    <2>2. /\ <<>> \in Seq(Dispatches) /\ DOMAIN <<>> = {} /\ <<>> \in [{} -> Codes]
      OBVIOUS
    <2>3. Typed
      <3>1. got \in [asked : Codes, result : Codes]
        BY DEF Init, NoCall, Codes
      <3>2. depth \in Int /\ depth <= MaxDepth
        BY <2>1 DEF NdConstants
      <3>3. DOMAIN memo \subseteq Keys /\ memo \in [DOMAIN memo -> Codes]
        BY <2>2 DEF Init
      <3> QED
        BY <2>1, <2>2, <3>1, <3>2, <3>3 DEF Init, Typed
    <2>4. StackInv /\ RestInv
      BY <2>1, <2>2 DEF Init, StackInv, RestInv
    <2>5. OwedInv
      <3>1. IsFiniteSet(OwedOf(vms)) /\ Cardinality(OwedOf(vms)) = 0
        BY <2>1, OwedEmpty
      <3> QED
        BY <2>1, <3>1 DEF OwedInv
    <2> QED
      BY <2>3, <2>4, <2>5 DEF RecurInv
  <1>2. RecurInv /\ [Next]_vars => RecurInv'
    <2> SUFFICES ASSUME RecurInv, [Next]_vars PROVE RecurInv'
      OBVIOUS
    <2>1. Typed /\ StackInv /\ RestInv /\ OwedInv
      BY DEF RecurInv
    <2>2. CASE Next
      BY <2>1, <2>2, TypedStep, StackStep, RestStep, OwedStep DEF RecurInv
    <2>3. CASE UNCHANGED vars
      BY <2>1, <2>3 DEF vars, RecurInv, Typed, StackInv, Shaped, HasEntries, MatchingEntries, RecurFramesOf,
                        RestInv, OwedInv
    <2> QED
      BY <2>2, <2>3
  <1> QED
    BY <1>1, <1>2, PTL DEF Spec

\* NDVmRecur.depth never goes below zero or above ND_MAX_RECURSION_DEPTH, and the rest of the
\* state keeps its type.
THEOREM TypeCorrect ==
    Spec => []TypeOK
  <1>1. RecurInv => TypeOK
    <2> SUFFICES ASSUME RecurInv PROVE TypeOK
      OBVIOUS
    <2>1. depth \in Int /\ depth >= 0 /\ depth <= MaxDepth
      <3>1. Cardinality(OwedOf(vms)) \in Nat /\ depth \in Int /\ depth <= MaxDepth
            /\ Cardinality(OwedOf(vms)) <= depth
        BY FS_CardinalityType DEF RecurInv, OwedInv, Typed
      <3> QED
        BY <3>1
    <2> QED
      BY <2>1, NdConstants DEF RecurInv, Typed, TypeOK, NdConstants
  <1> QED
    BY <1>1, StepsInStep, PTL

\* The nd_recur_stack of each dispatch has exactly the entries of its recur frames, in order,
\* until a handler of that dispatch unwinds one.
THEOREM EntriesCorrect ==
    Spec => []EntriesAreFrames
  <1>1. RecurInv => EntriesAreFrames
    <2> SUFFICES ASSUME RecurInv, ~stale, NEW n \in DOMAIN vms
                 PROVE  LET d == vms[n] IN
                        /\ Len(d.nd) = Cardinality(RecurFramesOf(d))
                        /\ \A j \in DOMAIN d.nd : /\ d.nd[j].at + 2 \in RecurFramesOf(d)
                                                  /\ d.nd[j].key = d.frames[d.nd[j].at + 2].code
                        /\ \A i, j \in DOMAIN d.nd : i < j => d.nd[i].at < d.nd[j].at
      BY DEF EntriesAreFrames
    <2>1. PICK d : d = vms[n]
      OBVIOUS
    <2>2. d \in Dispatches /\ HasEntries(d) /\ MatchingEntries(d)
      BY <2>1 DEF RecurInv, Typed, StackInv
    <2>3. Len(d.nd) = Cardinality(RecurFramesOf(d))
      BY <2>2, CountedEntries
    <2> QED
      BY <2>1, <2>2, <2>3 DEF MatchingEntries
  <1> QED
    BY <1>1, StepsInStep, PTL

\* The depth counter is never less than the recur calls in progress, which it therefore
\* bounds by ND_MAX_RECURSION_DEPTH, and equals them until an error is caught.
THEOREM DepthCorrect ==
    Spec => []DepthCountsLive
  <1>1. RecurInv => DepthCountsLive
    <2> SUFFICES ASSUME RecurInv PROVE DepthCountsLive
      OBVIOUS
    <2>1. Typed /\ StackInv /\ RestInv /\ OwedInv
      BY DEF RecurInv
    <2>2. IsFiniteSet(LiveOf(vms)) /\ Cardinality(LiveOf(vms)) <= Cardinality(OwedOf(vms))
      BY <2>1, LiveIsOwed
    <2>3. /\ Cardinality(LiveOf(vms)) \in Nat /\ Cardinality(OwedOf(vms)) \in Nat
          /\ depth \in Int /\ depth <= MaxDepth /\ MaxDepth \in Int
      BY <2>1, <2>2, FS_CardinalityType, NdConstants DEF OwedInv, Typed, NdConstants
    <2>4. Cardinality(OwedOf(vms)) <= depth
      BY <2>1 DEF OwedInv
    <2>5. Live = Cardinality(LiveOf(vms))
      BY DEF Live, LiveOf
    <2>6. Live <= depth /\ Live <= MaxDepth
      BY <2>2, <2>3, <2>4, <2>5
    <2>7. ASSUME vms # <<>>, err = "none", ~caught PROVE Live = depth
      <3>1. Cardinality(OwedOf(vms)) = depth /\ ~stale
        BY <2>1, <2>7 DEF OwedInv, RestInv
      <3>2. Cardinality(OwedOf(vms)) <= Cardinality(LiveOf(vms))
        BY <2>1, <2>2, <3>1, OwedIsLive
      <3> QED
        BY <2>2, <2>3, <2>5, <3>1, <3>2
    <2> QED
      BY <2>6, <2>7 DEF DepthCountsLive
  <1> QED
    BY <1>1, StepsInStep, PTL

\* ND_ABORT is clear again whenever no recursion runs, however the last one ended.
THEOREM AbortCorrect ==
    Spec => []AbortAtRest
  <1>1. RecurInv => AbortAtRest
    BY DEF RecurInv, RestInv, AbortAtRest
  <1> QED
    BY <1>1, StepsInStep, PTL

\* Until a recur frame is unwound in its dispatch, a recur call returns the result at an
\* argument with the same hash, from the memo or not: so its own, for an argument whose
\* hash no other one has (the memo's key is the hash alone).
THEOREM OwnCorrect ==
    Spec => []OwnUntilUnwound
  <1>1. Init => MemoInv
    <2> SUFFICES ASSUME Init PROVE MemoInv
      OBVIOUS
    <2>1. DOMAIN memo = {} /\ got.result = got.asked
      BY DEF Init, NoCall
    <2> QED
      BY <2>1 DEF MemoInv, SameKey
  <1>2. RecurInv /\ MemoInv /\ [Next]_vars => MemoInv'
    <2> SUFFICES ASSUME RecurInv, MemoInv, [Next]_vars PROVE MemoInv'
      OBVIOUS
    <2>1. CASE Next
      BY <2>1, MemoStep DEF RecurInv
    <2>2. CASE UNCHANGED vars
      BY <2>2 DEF vars, MemoInv
    <2> QED
      BY <2>1, <2>2
  <1>3. MemoInv => OwnUntilUnwound
    BY DEF MemoInv, OwnUntilUnwound
  <1> QED
    BY <1>1, <1>2, <1>3, StepsInStep, PTL DEF Spec
=============================================================================
