------------------------ MODULE StructRegistryProofs -------------------------
(***************************************************************************)
(* Theorems about StructRegistry.                                          *)
(***************************************************************************)
EXTENDS StructRegistry, Facts

-----------------------------------------------------------------------------
\* One registry: its type and its free list.

Exact(r) == /\ \A a, b \in DOMAIN r.free : r.free[a] = r.free[b] => a = b
            /\ ToSet(r.free) = {i \in 0 .. (r.len - 1) : ~r.slot[i].live}
            /\ Live(r) \subseteq 0 .. (r.len - 1)
Good(r) == r \in Registries /\ Exact(r)

LEMMA IdxFacts ==
    /\ MaxSlots \in Nat \ {0} /\ 0 \in Idx /\ Idx \subseteq Nat /\ Nil \notin Idx /\ Obj \notin Idx /\ Nil # Obj
    /\ Nil \in Fields /\ Obj \in Fields /\ Idx \subseteq Fields /\ NoIdx \notin Idx
    /\ \A v \in Fields : v \in Idx \/ v = Nil \/ v = Obj
  BY RegistryConstants DEF Idx, Nil, Obj, Fields, NoIdx

LEMMA IdxFinite ==
    /\ IsFiniteSet(Idx) /\ \A S \in SUBSET Idx : IsFiniteSet(S) /\ Cardinality(S) \in Nat
    /\ Cardinality(Idx) = MaxSlots
  <1>1. IsFiniteSet(Idx) /\ Cardinality(Idx) = MaxSlots
    <2>1. 0 \in Int /\ MaxSlots - 1 \in Int /\ ~(0 > MaxSlots - 1) /\ (MaxSlots - 1) - 0 + 1 = MaxSlots
      BY RegistryConstants
    <2> QED
      BY <2>1, FS_Interval DEF Idx
  <1> QED
    BY <1>1, FS_Subset, FS_CardinalityType

LEMMA RegistryFields ==
    ASSUME NEW r \in Registries
    PROVE  /\ r.slot \in [Idx -> Slots] /\ r.len \in 0 .. MaxSlots /\ r.free \in Seq(Idx)
           /\ r.root \in [Idx -> 0 .. MaxRoots] /\ Live(r) \subseteq Idx
           /\ \A i \in Idx : /\ r.slot[i] \in Slots /\ r.slot[i].live \in BOOLEAN /\ r.slot[i].snap \in BOOLEAN
                             /\ r.slot[i].rc \in Int /\ r.slot[i].field \in Fields
                             /\ r.root[i] \in Nat /\ r.root[i] <= MaxRoots
                             /\ i \in Live(r) <=> r.slot[i].live
  BY RegistryConstants DEF Registries, Slots, Live

\* The slots that are live, their number and the free list decide whether the list is exact.
LEMMA SameLive ==
    ASSUME NEW r \in Registries, Exact(r), NEW s \in Registries, s.len = r.len, s.free = r.free,
           \A i \in Idx : s.slot[i].live = r.slot[i].live
    PROVE  Good(s)
  <1>1. 0 .. (r.len - 1) \subseteq Idx
    BY RegistryFields, IdxFacts DEF Idx
  <1>2. Live(s) = Live(r)
    BY DEF Live
  <1>3. {i \in 0 .. (r.len - 1) : ~r.slot[i].live} = {i \in 0 .. (s.len - 1) : ~s.slot[i].live}
    BY <1>1
  <1> QED
    BY <1>2, <1>3 DEF Good, Exact
-----------------------------------------------------------------------------
\* What the operations do to a registry, slot by slot.

LEMMA CountEdit ==
    ASSUME NEW q \in Slots, NEW n \in Int
    PROVE  /\ [q EXCEPT !.rc = n] \in Slots /\ [q EXCEPT !.rc = n].rc = n /\ [q EXCEPT !.rc = n].live = q.live
           /\ [q EXCEPT !.rc = n].field = q.field /\ [q EXCEPT !.rc = n].snap = q.snap
  BY DEF Slots

LEMMA SnapEdit ==
    ASSUME NEW q \in Slots, NEW b \in BOOLEAN
    PROVE  /\ [q EXCEPT !.snap = b] \in Slots /\ [q EXCEPT !.snap = b].snap = b /\ [q EXCEPT !.snap = b].live = q.live
           /\ [q EXCEPT !.snap = b].field = q.field /\ [q EXCEPT !.snap = b].rc = q.rc
  BY DEF Slots

LEMMA FieldEdit ==
    ASSUME NEW q \in Slots, NEW f \in Fields
    PROVE  /\ [q EXCEPT !.field = f] \in Slots /\ [q EXCEPT !.field = f].snap = q.snap
           /\ [q EXCEPT !.field = f].live = q.live
           /\ [q EXCEPT !.field = f].field = f /\ [q EXCEPT !.field = f].rc = q.rc
  BY DEF Slots

LEMMA NewSlots ==
    ASSUME NEW f \in Fields
    PROVE  /\ Slot(1, f, FALSE) \in Slots /\ Slot(1, f, FALSE).rc = 1 /\ Slot(1, f, FALSE).live
           /\ Slot(1, f, FALSE).field = f /\ ~Slot(1, f, FALSE).snap
  BY DEF Slots, Slot

LEMMA FreeSlot ==
    Free \in Slots /\ Free.rc = 0 /\ Free.live = FALSE /\ Free.field = Nil /\ Free.snap = FALSE
  BY IdxFacts DEF Slots, Free

LEMMA SlotsEdit ==
    ASSUME NEW r \in Registries, NEW t \in [Idx -> Slots]
    PROVE  /\ [r EXCEPT !.slot = t] \in Registries
           /\ [r EXCEPT !.slot = t].slot = t /\ [r EXCEPT !.slot = t].len = r.len
           /\ [r EXCEPT !.slot = t].free = r.free /\ [r EXCEPT !.slot = t].root = r.root
  BY DEF Registries

LEMMA RootsEdit ==
    ASSUME NEW r \in Registries, NEW m \in [Idx -> 0 .. MaxRoots]
    PROVE  /\ [r EXCEPT !.root = m] \in Registries
           /\ [r EXCEPT !.root = m].slot = r.slot /\ [r EXCEPT !.root = m].len = r.len
           /\ [r EXCEPT !.root = m].free = r.free /\ [r EXCEPT !.root = m].root = m
  BY DEF Registries

LEMMA FreeEdit ==
    ASSUME NEW r \in Registries, NEW q \in Seq(Idx)
    PROVE  /\ [r EXCEPT !.free = q] \in Registries
           /\ [r EXCEPT !.free = q].slot = r.slot /\ [r EXCEPT !.free = q].len = r.len
           /\ [r EXCEPT !.free = q].free = q /\ [r EXCEPT !.free = q].root = r.root
  BY DEF Registries

LEMMA LenEdit ==
    ASSUME NEW r \in Registries, NEW n \in 0 .. MaxSlots
    PROVE  /\ [r EXCEPT !.len = n] \in Registries
           /\ [r EXCEPT !.len = n].slot = r.slot /\ [r EXCEPT !.len = n].len = n
           /\ [r EXCEPT !.len = n].free = r.free /\ [r EXCEPT !.len = n].root = r.root
  BY DEF Registries

LEMMA OneSlot ==
    ASSUME NEW t \in [Idx -> Slots], NEW i \in Idx, NEW e \in Slots
    PROVE  [t EXCEPT ![i] = e] \in [Idx -> Slots] /\ \A j \in Idx : [t EXCEPT ![i] = e][j] = IF j = i THEN e ELSE t[j]
  OBVIOUS

LEMMA OneRoot ==
    ASSUME NEW t \in [Idx -> 0 .. MaxRoots], NEW i \in Idx, NEW e \in 0 .. MaxRoots
    PROVE  /\ [t EXCEPT ![i] = e] \in [Idx -> 0 .. MaxRoots]
           /\ \A j \in Idx : [t EXCEPT ![i] = e][j] = IF j = i THEN e ELSE t[j]
  OBVIOUS

LEMMA IncrefEffect ==
    ASSUME NEW r \in Registries, NEW i \in Idx
    PROVE  LET s == Incref(r, i)
           IN  /\ s \in Registries /\ s.len = r.len /\ s.free = r.free /\ s.root = r.root
               /\ \A j \in Idx : /\ s.slot[j].live = r.slot[j].live /\ s.slot[j].field = r.slot[j].field
                                 /\ s.slot[j].snap = r.slot[j].snap
                                 /\ s.slot[j].rc = IF j = i THEN r.slot[j].rc + 1 ELSE r.slot[j].rc
  <1>1. r.slot \in [Idx -> Slots] /\ r.slot[i] \in Slots /\ r.slot[i].rc + 1 \in Int
    BY RegistryFields
  <1>2. PICK e : e = [r.slot[i] EXCEPT !.rc = r.slot[i].rc + 1]
    OBVIOUS
  <1>3. e \in Slots /\ e.rc = r.slot[i].rc + 1 /\ e.live = r.slot[i].live /\ e.field = r.slot[i].field
        /\ e.snap = r.slot[i].snap
    BY <1>1, <1>2, CountEdit
  <1>4. PICK t : t = [r.slot EXCEPT ![i] = e]
    OBVIOUS
  <1>5. t \in [Idx -> Slots] /\ \A j \in Idx : t[j] = IF j = i THEN e ELSE r.slot[j]
    BY <1>1, <1>3, <1>4, OneSlot
  <1>6. Incref(r, i) = [r EXCEPT !.slot = t]
    BY <1>2, <1>4 DEF Incref
  <1>7. PICK s : s = Incref(r, i)
    OBVIOUS
  <1>8. s \in Registries /\ s.slot = t /\ s.len = r.len /\ s.free = r.free /\ s.root = r.root
    BY <1>5, <1>6, <1>7, SlotsEdit
  <1> QED
    BY <1>3, <1>5, <1>7, <1>8

LEMMA RootedEffect ==
    ASSUME NEW r \in Registries, NEW i \in Idx, r.root[i] < MaxRoots
    PROVE  LET s == Rooted(r, i)
           IN  /\ s \in Registries /\ s.len = r.len /\ s.free = r.free /\ s.slot = r.slot
               /\ \A j \in Idx : s.root[j] = IF j = i THEN r.root[j] + 1 ELSE r.root[j]
  <1>1. r.root[i] \in Nat /\ r.root[i] + 1 \in 0 .. MaxRoots /\ r.root \in [Idx -> 0 .. MaxRoots]
    BY RegistryFields, RegistryConstants
  <1>2. PICK m : m = [r.root EXCEPT ![i] = r.root[i] + 1]
    OBVIOUS
  <1>3. m \in [Idx -> 0 .. MaxRoots] /\ \A j \in Idx : m[j] = IF j = i THEN r.root[j] + 1 ELSE r.root[j]
    BY <1>1, <1>2, OneRoot
  <1>4. Rooted(r, i) = [r EXCEPT !.root = m]
    BY <1>2 DEF Rooted
  <1>5. PICK s : s = Rooted(r, i)
    OBVIOUS
  <1>6. s \in Registries /\ s.slot = r.slot /\ s.len = r.len /\ s.free = r.free /\ s.root = m
    BY <1>3, <1>4, <1>5, RootsEdit
  <1> QED
    BY <1>3, <1>5, <1>6

LEMMA UnrootedEffect ==
    ASSUME NEW r \in Registries, NEW i \in Idx, r.root[i] > 0
    PROVE  LET s == Unrooted(r, i)
           IN  /\ s \in Registries /\ s.len = r.len /\ s.free = r.free /\ s.slot = r.slot
               /\ \A j \in Idx : s.root[j] = IF j = i THEN r.root[j] - 1 ELSE r.root[j]
  <1>1. r.root[i] \in Nat /\ r.root[i] - 1 \in 0 .. MaxRoots /\ r.root \in [Idx -> 0 .. MaxRoots]
    BY RegistryFields, RegistryConstants
  <1>2. PICK m : m = [r.root EXCEPT ![i] = r.root[i] - 1]
    OBVIOUS
  <1>3. m \in [Idx -> 0 .. MaxRoots] /\ \A j \in Idx : m[j] = IF j = i THEN r.root[j] - 1 ELSE r.root[j]
    BY <1>1, <1>2, OneRoot
  <1>4. Unrooted(r, i) = [r EXCEPT !.root = m]
    BY <1>2 DEF Unrooted
  <1>5. PICK s : s = Unrooted(r, i)
    OBVIOUS
  <1>6. s \in Registries /\ s.slot = r.slot /\ s.len = r.len /\ s.free = r.free /\ s.root = m
    BY <1>3, <1>4, <1>5, RootsEdit
  <1> QED
    BY <1>3, <1>5, <1>6
-----------------------------------------------------------------------------
\* The free list, index by index.

Listed(r, i) == \E a \in DOMAIN r.free : r.free[a] = i

LEMMA ExactPoints ==
    ASSUME NEW r \in Registries
    PROVE  Exact(r) <=> /\ \A a, b \in DOMAIN r.free : r.free[a] = r.free[b] => a = b
                        /\ \A i \in Idx : /\ Listed(r, i) <=> i < r.len /\ ~r.slot[i].live
                                          /\ r.slot[i].live => i < r.len
  <1>1. r.free \in Seq(Idx) /\ DOMAIN r.free = 1 .. Len(r.free) /\ r.len \in 0 .. MaxSlots
    BY RegistryFields
  <1>2. ToSet(r.free) = {i \in Idx : Listed(r, i)}
    BY <1>1 DEF ToSet, Listed
  <1>3. {i \in 0 .. (r.len - 1) : ~r.slot[i].live} = {i \in Idx : i < r.len /\ ~r.slot[i].live}
    BY <1>1, RegistryConstants DEF Idx
  <1>4. Live(r) \subseteq 0 .. (r.len - 1) <=> \A i \in Idx : r.slot[i].live => i < r.len
    BY <1>1, RegistryConstants DEF Live, Idx
  <1> QED
    BY <1>2, <1>3, <1>4 DEF Exact

LEMMA FrontFacts ==
    ASSUME NEW S, NEW q \in Seq(S), q # <<>>
    PROVE  /\ Front(q) \in Seq(S) /\ DOMAIN q = 1 .. Len(q) /\ Len(q) \in 1 .. Len(q)
           /\ DOMAIN Front(q) = (DOMAIN q) \ {Len(q)} /\ Last(q) = q[Len(q)] /\ Last(q) \in S
           /\ \A a \in DOMAIN Front(q) : Front(q)[a] = q[a]
  BY DEF Front, Last

LEMMA CreatedEffect ==
    ASSUME NEW r \in Registries, Exact(r), HasRoom(r), NEW f \in Fields
    PROVE  LET n == NextIdx(r)
               s == Created(r, f)
           IN  /\ n \in Idx /\ ~r.slot[n].live
               /\ s \in Registries /\ Exact(s) /\ s.root = r.root
               /\ \A j \in Idx : s.slot[j] = IF j = n THEN Slot(1, f, FALSE) ELSE r.slot[j]
  <1>1. /\ r.slot \in [Idx -> Slots] /\ r.free \in Seq(Idx) /\ r.len \in 0 .. MaxSlots
        /\ DOMAIN r.free = 1 .. Len(r.free)
    BY RegistryFields
  <1>2. PICK n : n = NextIdx(r)
    OBVIOUS
  <1>3. PICK q : q = IF r.free = <<>> THEN r.free ELSE Front(r.free)
    OBVIOUS
  <1>4. PICK k : k = IF r.free = <<>> THEN r.len + 1 ELSE r.len
    OBVIOUS
  <1>5. PICK t : t = [r.slot EXCEPT ![n] = Slot(1, f, FALSE)]
    OBVIOUS
  <1>6. PICK s : s = Created(r, f)
    OBVIOUS
  <1>7. /\ \A a, b \in DOMAIN r.free : r.free[a] = r.free[b] => a = b
        /\ \A i \in Idx : /\ Listed(r, i) <=> i < r.len /\ ~r.slot[i].live
                          /\ r.slot[i].live => i < r.len
    BY ExactPoints
  <1>8. /\ n \in Idx /\ ~r.slot[n].live /\ q \in Seq(Idx) /\ k \in 0 .. MaxSlots
        /\ \A a, b \in DOMAIN q : q[a] = q[b] => a = b
        /\ \A i \in Idx : (\E a \in DOMAIN q : q[a] = i) <=> i # n /\ Listed(r, i)
        /\ \A i \in Idx : i < k <=> i = n \/ i < r.len
    <2>1. CASE r.free = <<>>
      <3>1. n = r.len /\ r.len < MaxSlots /\ q = <<>> /\ k = r.len + 1 /\ DOMAIN q = {}
        BY <1>2, <1>3, <1>4, <2>1 DEF NextIdx, HasRoom
      <3>2. n \in Idx /\ k \in 0 .. MaxSlots /\ \A i \in Idx : i < k <=> i = n \/ i < r.len
        BY <1>1, <3>1, RegistryConstants DEF Idx
      <3>3. ~r.slot[n].live
        BY <1>1, <1>7, <3>1, <3>2
      <3>4. \A i \in Idx : ~Listed(r, i)
        BY <2>1, <3>1 DEF Listed
      <3>5. q \in Seq(Idx)
        BY <3>1
      <3> QED
        BY <3>1, <3>2, <3>3, <3>4, <3>5
    <2>2. CASE r.free # <<>>
      <3>1. /\ n = r.free[Len(r.free)] /\ n \in Idx /\ q = Front(r.free) /\ k = r.len
            /\ q \in Seq(Idx) /\ DOMAIN q = (DOMAIN r.free) \ {Len(r.free)}
            /\ Len(r.free) \in DOMAIN r.free /\ \A a \in DOMAIN q : q[a] = r.free[a]
        BY <1>1, <1>2, <1>3, <1>4, <2>2, FrontFacts DEF NextIdx
      <3>2. Listed(r, n)
        BY <3>1 DEF Listed
      <3>3. ~r.slot[n].live /\ n < r.len
        BY <1>7, <3>1, <3>2
      <3>4. ASSUME NEW i \in Idx PROVE (\E a \in DOMAIN q : q[a] = i) <=> i # n /\ Listed(r, i)
        BY <1>7, <3>1 DEF Listed
      <3> QED
        BY <1>1, <1>7, <3>1, <3>3, <3>4
    <2> QED
      BY <2>1, <2>2
  <1>9. Slot(1, f, FALSE) \in Slots /\ Slot(1, f, FALSE).live
    BY NewSlots
  <1>10. t \in [Idx -> Slots] /\ \A j \in Idx : t[j] = IF j = n THEN Slot(1, f, FALSE) ELSE r.slot[j]
    BY <1>1, <1>5, <1>8, <1>9, OneSlot
  <1>11. s = [[[r EXCEPT !.slot = t] EXCEPT !.free = q] EXCEPT !.len = k]
    BY <1>1, <1>2, <1>3, <1>4, <1>5, <1>6 DEF Created, Registries
  <1>12. s \in Registries /\ s.slot = t /\ s.free = q /\ s.len = k /\ s.root = r.root
    <2>1. PICK u : u = [r EXCEPT !.slot = t]
      OBVIOUS
    <2>2. u \in Registries /\ u.slot = t /\ u.root = r.root
      BY <1>10, <2>1, SlotsEdit
    <2>3. PICK v : v = [u EXCEPT !.free = q]
      OBVIOUS
    <2>4. v \in Registries /\ v.slot = t /\ v.root = r.root /\ v.free = q
      BY <1>8, <2>2, <2>3, FreeEdit
    <2>5. s = [v EXCEPT !.len = k]
      BY <1>11, <2>1, <2>3
    <2> QED
      BY <1>8, <2>4, <2>5, LenEdit
  <1>13. Exact(s)
    <2>1. \A i \in Idx : Listed(s, i) <=> i # n /\ Listed(r, i)
      BY <1>8, <1>12 DEF Listed
    <2>2. \A i \in Idx : s.slot[i].live <=> i = n \/ r.slot[i].live
      BY <1>9, <1>10, <1>12, RegistryFields
    <2>3. \A i \in Idx : i < s.len <=> i = n \/ i < r.len
      BY <1>8, <1>12
    <2>4. ASSUME NEW i \in Idx
          PROVE  (Listed(s, i) <=> i < s.len /\ ~s.slot[i].live) /\ (s.slot[i].live => i < s.len)
      BY <1>7, <2>1, <2>2, <2>3
    <2>5. \A a, b \in DOMAIN s.free : s.free[a] = s.free[b] => a = b
      BY <1>8, <1>12
    <2> QED
      BY <1>12, <2>4, <2>5, ExactPoints
  <1> QED
    BY <1>2, <1>6, <1>8, <1>10, <1>12, <1>13

LEMMA FreedEffect ==
    ASSUME NEW r \in Registries, Exact(r), NEW i \in Idx, r.slot[i].live
    PROVE  LET s == Freed(r, i)
           IN  /\ s \in Registries /\ Exact(s) /\ s.root = r.root
               /\ \A j \in Idx : s.slot[j] = IF j = i THEN Free ELSE r.slot[j]
  <1>1. r.slot \in [Idx -> Slots] /\ r.free \in Seq(Idx) /\ DOMAIN r.free = 1 .. Len(r.free)
    BY RegistryFields
  <1>2. PICK t : t = [r.slot EXCEPT ![i] = Free]
    OBVIOUS
  <1>3. t \in [Idx -> Slots] /\ \A j \in Idx : t[j] = IF j = i THEN Free ELSE r.slot[j]
    BY <1>1, <1>2, FreeSlot, OneSlot
  <1>4. PICK q : q = Append(r.free, i)
    OBVIOUS
  <1>5. /\ q \in Seq(Idx) /\ DOMAIN q = DOMAIN r.free \cup {Len(r.free) + 1} /\ Len(r.free) + 1 \notin DOMAIN r.free
        /\ q[Len(r.free) + 1] = i /\ \A a \in DOMAIN r.free : q[a] = r.free[a]
    BY <1>1, <1>4, PushFacts
  <1>6. PICK s : s = Freed(r, i)
    OBVIOUS
  <1>7. s = [[r EXCEPT !.slot = t] EXCEPT !.free = q]
    BY <1>2, <1>4, <1>6 DEF Freed, Registries
  <1>8. s \in Registries /\ s.slot = t /\ s.free = q /\ s.len = r.len /\ s.root = r.root
    <2>1. PICK u : u = [r EXCEPT !.slot = t]
      OBVIOUS
    <2>2. u \in Registries /\ u.slot = t /\ u.root = r.root /\ u.len = r.len
      BY <1>3, <2>1, SlotsEdit
    <2>3. s = [u EXCEPT !.free = q]
      BY <1>7, <2>1
    <2> QED
      BY <1>5, <2>2, <2>3, FreeEdit
  <1>9. /\ \A a, b \in DOMAIN r.free : r.free[a] = r.free[b] => a = b
        /\ \A j \in Idx : /\ Listed(r, j) <=> j < r.len /\ ~r.slot[j].live
                          /\ r.slot[j].live => j < r.len
    BY ExactPoints
  <1>10. Exact(s)
    <2>1. \A j \in Idx : Listed(s, j) <=> j = i \/ Listed(r, j)
      BY <1>5, <1>8 DEF Listed
    <2>2. \A a \in DOMAIN r.free : r.free[a] # i
      BY <1>9 DEF Listed
    <2>3. \A a, b \in DOMAIN s.free : s.free[a] = s.free[b] => a = b
      BY <1>5, <1>8, <1>9, <2>2
    <2>4. \A j \in Idx : s.slot[j].live <=> j # i /\ r.slot[j].live
      BY <1>3, <1>8, FreeSlot, RegistryFields
    <2>5. \A j \in Idx : (Listed(s, j) <=> j < s.len /\ ~s.slot[j].live) /\ (s.slot[j].live => j < s.len)
      BY <1>8, <1>9, <2>1, <2>4
    <2> QED
      BY <1>8, <2>3, <2>5, ExactPoints
  <1> QED
    BY <1>3, <1>6, <1>8, <1>10
-----------------------------------------------------------------------------
\* A release, and the cascade of those that follow.

Releases == [r : Registries, obj : Int, dead : BOOLEAN, todo : Fields]

\* s is r with some references released: nothing came alive, what is alive kept its field.
Keeps(r, s) == /\ s.root = r.root
               /\ \A i \in Idx : s.slot[i].live => r.slot[i].live /\ s.slot[i].field = r.slot[i].field
               /\ \A i \in Idx : s.slot[i].snap => r.slot[i].snap

Decref(r, i) == [r EXCEPT !.slot[i].rc = @ - 1]

LEMMA DecrefEffect ==
    ASSUME NEW r \in Registries, NEW i \in Idx
    PROVE  LET s == Decref(r, i)
           IN  /\ s \in Registries /\ s.len = r.len /\ s.free = r.free /\ s.root = r.root
               /\ \A j \in Idx : /\ s.slot[j].live = r.slot[j].live /\ s.slot[j].field = r.slot[j].field
                                 /\ s.slot[j].snap = r.slot[j].snap
                                 /\ s.slot[j].rc = IF j = i THEN r.slot[j].rc - 1 ELSE r.slot[j].rc
  <1>1. r.slot \in [Idx -> Slots] /\ r.slot[i] \in Slots /\ r.slot[i].rc - 1 \in Int
    BY RegistryFields
  <1>2. PICK e : e = [r.slot[i] EXCEPT !.rc = r.slot[i].rc - 1]
    OBVIOUS
  <1>3. e \in Slots /\ e.rc = r.slot[i].rc - 1 /\ e.live = r.slot[i].live /\ e.field = r.slot[i].field
        /\ e.snap = r.slot[i].snap
    BY <1>1, <1>2, CountEdit
  <1>4. PICK t : t = [r.slot EXCEPT ![i] = e]
    OBVIOUS
  <1>5. t \in [Idx -> Slots] /\ \A j \in Idx : t[j] = IF j = i THEN e ELSE r.slot[j]
    BY <1>1, <1>3, <1>4, OneSlot
  <1>6. Decref(r, i) = [r EXCEPT !.slot = t]
    BY <1>2, <1>4 DEF Decref
  <1>7. PICK s : s = Decref(r, i)
    OBVIOUS
  <1>8. s \in Registries /\ s.slot = t /\ s.len = r.len /\ s.free = r.free /\ s.root = r.root
    BY <1>5, <1>6, <1>7, SlotsEdit
  <1> QED
    BY <1>3, <1>5, <1>7, <1>8

\* The five ways of one release.
Nothing(m, n)  == m.todo = Nil /\ n = m
HeapObject(m, n) == m.todo = Obj /\ n.r = m.r /\ n.obj = m.obj - 1 /\ n.todo = Nil /\ n.dead = m.dead
DeadHandle(m, n) == /\ m.todo \in Idx /\ ~m.r.slot[m.todo].live
                    /\ n.r = m.r /\ n.obj = m.obj /\ n.todo = Nil /\ n.dead
LastCount(m, n)  == /\ m.todo \in Idx /\ m.r.slot[m.todo].live /\ m.r.slot[m.todo].rc = 1
                    /\ n.r = Freed(m.r, m.todo) /\ n.obj = m.obj /\ n.todo = m.r.slot[m.todo].field
                    /\ n.dead = m.dead
OneCount(m, n)   == /\ m.todo \in Idx /\ m.r.slot[m.todo].live /\ m.r.slot[m.todo].rc # 1
                    /\ n.r = Decref(m.r, m.todo) /\ n.obj = m.obj /\ n.todo = Nil /\ n.dead = m.dead

LEMMA ReleaseOneWays ==
    ASSUME NEW m \in Releases, Exact(m.r)
    PROVE  LET n == ReleaseOne(m)
           IN  /\ n \in Releases /\ Exact(n.r) /\ Keeps(m.r, n.r)
               /\ \/ Nothing(m, n) \/ HeapObject(m, n) \/ DeadHandle(m, n) \/ LastCount(m, n) \/ OneCount(m, n)
  <1>1. m.r \in Registries /\ m.obj \in Int /\ m.todo \in Fields
    BY DEF Releases
  <1>2. m.obj - 1 \in Int /\ Nil \in Fields
    BY <1>1, IdxFacts
  <1>3. m.todo \in Idx \/ m.todo = Nil \/ m.todo = Obj
    BY <1>1, IdxFacts
  <1>4. PICK n : n = ReleaseOne(m)
    OBVIOUS
  <1>5. Keeps(m.r, m.r)
    BY DEF Keeps
  <1>6. CASE m.todo = Nil
    <2>1. n = m
      BY <1>4, <1>6 DEF ReleaseOne
    <2> QED
      BY <1>4, <1>5, <1>6, <2>1 DEF Nothing
  <1>7. CASE m.todo = Obj
    <2>1. PICK o \in Int : o = m.obj - 1
      BY <1>2
    <2>2. n = [m EXCEPT !.obj = o, !.todo = Nil]
      BY <1>4, <1>7, <2>1, IdxFacts DEF ReleaseOne
    <2>3. n \in Releases /\ n.r = m.r /\ n.obj = o /\ n.todo = Nil /\ n.dead = m.dead
      BY <1>2, <2>1, <2>2 DEF Releases
    <2> QED
      BY <1>4, <1>5, <1>7, <2>1, <2>3 DEF HeapObject
  <1>8. CASE m.todo \in Idx
    <2>0. m.todo # Nil /\ m.todo # Obj
      BY <1>8, IdxFacts
    <2>1. CASE ~m.r.slot[m.todo].live
      <3>1. n = [m EXCEPT !.dead = TRUE, !.todo = Nil]
        BY <1>4, <2>0, <2>1 DEF ReleaseOne
      <3>2. n \in Releases /\ n.r = m.r /\ n.obj = m.obj /\ n.todo = Nil /\ n.dead
        BY <1>2, <3>1 DEF Releases
      <3> QED
        BY <1>4, <1>5, <1>8, <2>1, <3>2 DEF DeadHandle
    <2>2. CASE m.r.slot[m.todo].live /\ m.r.slot[m.todo].rc = 1
      <3>1. n = [m EXCEPT !.r = Freed(m.r, m.todo), !.todo = m.r.slot[m.todo].field]
        BY <1>4, <2>0, <2>2 DEF ReleaseOne
      <3>2. PICK i \in Idx : i = m.todo
        BY <1>8
      <3>3. PICK s : s = Freed(m.r, i)
        OBVIOUS
      <3>4. /\ s \in Registries /\ Exact(s) /\ s.root = m.r.root
            /\ \A j \in Idx : s.slot[j] = IF j = i THEN Free ELSE m.r.slot[j]
        BY <1>1, <2>2, <3>2, <3>3, FreedEffect
      <3>5. PICK f \in Fields : f = m.r.slot[i].field
        BY <1>1, RegistryFields
      <3>6. n = [m EXCEPT !.r = s, !.todo = f]
        BY <3>1, <3>2, <3>3, <3>5
      <3>7. n \in Releases /\ n.r = s /\ n.obj = m.obj /\ n.todo = f /\ n.dead = m.dead
        BY <3>4, <3>5, <3>6 DEF Releases
      <3>8. Keeps(m.r, s)
        BY <3>4, FreeSlot DEF Keeps
      <3> QED
        BY <1>4, <2>2, <3>2, <3>3, <3>4, <3>5, <3>7, <3>8 DEF LastCount
    <2>3. CASE m.r.slot[m.todo].live /\ m.r.slot[m.todo].rc # 1
      <3>1. n = [m EXCEPT !.r = Decref(m.r, m.todo), !.todo = Nil]
        BY <1>4, <2>0, <2>3 DEF ReleaseOne, Decref, Releases
      <3>2. PICK i \in Idx : i = m.todo
        BY <1>8
      <3>3. PICK s : s = Decref(m.r, i)
        OBVIOUS
      <3>4. /\ s \in Registries /\ s.len = m.r.len /\ s.free = m.r.free /\ s.root = m.r.root
            /\ \A j \in Idx : /\ s.slot[j].live = m.r.slot[j].live /\ s.slot[j].field = m.r.slot[j].field
                              /\ s.slot[j].snap = m.r.slot[j].snap
        BY <1>1, <3>2, <3>3, DecrefEffect
      <3>5. n = [m EXCEPT !.r = s, !.todo = Nil]
        BY <3>1, <3>2, <3>3
      <3>6. n \in Releases /\ n.r = s /\ n.obj = m.obj /\ n.todo = Nil /\ n.dead = m.dead
        BY <1>2, <3>4, <3>5 DEF Releases
      <3>7. Keeps(m.r, s)
        BY <3>4 DEF Keeps
      <3>8. Exact(s)
        BY <1>1, <3>4, SameLive DEF Good
      <3> QED
        BY <1>4, <2>3, <3>2, <3>3, <3>6, <3>7, <3>8 DEF OneCount
    <2> QED
      BY <2>1, <2>2, <2>3
  <1> QED
    BY <1>3, <1>6, <1>7, <1>8

FirstRelease(r, o, v) == [r |-> r, obj |-> o, dead |-> FALSE, todo |-> v]

LEMMA RoundsExist ==
    ASSUME NEW start, NEW K \in Nat
    PROVE  \E f : f = [n \in 0 .. K |-> IF n = 0 THEN start ELSE ReleaseOne(f[n - 1])]
  <1> DEFINE Rounds(f, n) == f = [i \in 0 .. n |-> IF i = 0 THEN start ELSE ReleaseOne(f[i - 1])]
             T == {n \in Nat : \E f : Rounds(f, n)}
  <1>1. 0 \in T
    <2>1. PICK f : f = [i \in 0 .. 0 |-> start]
      OBVIOUS
    <2>2. f = [i \in 0 .. 0 |-> IF i = 0 THEN start ELSE ReleaseOne(f[i - 1])]
      BY <2>1
    <2> QED
      BY <2>2
  <1>2. ASSUME NEW n \in Nat, n \in T PROVE n + 1 \in T
    <2>1. PICK f : Rounds(f, n)
      BY <1>2
    <2>2. PICK g : g = [i \in 0 .. (n + 1) |-> IF i = n + 1 THEN ReleaseOne(f[n]) ELSE f[i]]
      OBVIOUS
    <2>3. ASSUME NEW i \in 0 .. (n + 1)
          PROVE  g[i] = IF i = 0 THEN start ELSE ReleaseOne(g[i - 1])
      <3>1. CASE i = n + 1
        <4>1. g[i] = ReleaseOne(f[n]) /\ g[n] = f[n] /\ i - 1 = n /\ i # 0
          BY <2>2, <3>1
        <4> QED
          BY <4>1
      <3>2. CASE i \in 1 .. n
        <4>1. g[i] = f[i] /\ i - 1 \in 0 .. n /\ g[i - 1] = f[i - 1] /\ i # 0 /\ i \in 0 .. n
          BY <2>2, <3>2
        <4>2. f[i] = ReleaseOne(f[i - 1])
          BY <2>1, <4>1
        <4> QED
          BY <4>1, <4>2
      <3>3. CASE i = 0
        <4>1. g[i] = f[0] /\ 0 \in 0 .. n
          BY <2>2, <3>3
        <4> QED
          BY <2>1, <3>3, <4>1
      <3>4. i = 0 \/ i \in 1 .. n \/ i = n + 1
        OBVIOUS
      <3> QED
        BY <3>1, <3>2, <3>3, <3>4
    <2>4. Rounds(g, n + 1)
      BY <2>2, <2>3
    <2> QED
      BY <2>4
  <1>3. Nat \subseteq T
    <2> HIDE DEF T
    <2> QED
      BY <1>1, <1>2, Induction
  <1> QED
    BY <1>3

LEMMA ReleasedRounds ==
    ASSUME NEW r, NEW o, NEW v
    PROVE  \E f : /\ f[0] = FirstRelease(r, o, v)
                  /\ \A n \in Nat : n < MaxSlots + 2 => f[n + 1] = ReleaseOne(f[n])
                  /\ Released(r, o, v) = f[MaxSlots + 2]
  <1> DEFINE K == MaxSlots + 2
             f == CHOOSE h : h = [n \in 0 .. K |-> IF n = 0 THEN FirstRelease(r, o, v) ELSE ReleaseOne(h[n - 1])]
  <1>0. K \in Nat
    BY RegistryConstants
  <1>1. Released(r, o, v) = f[K]
    BY DEF Released, FirstRelease
  <1>2. f = [n \in 0 .. K |-> IF n = 0 THEN FirstRelease(r, o, v) ELSE ReleaseOne(f[n - 1])]
    BY <1>0, RoundsExist
  <1> HIDE DEF f
  <1>3. f[0] = FirstRelease(r, o, v)
    BY <1>0, <1>2
  <1>4. ASSUME NEW n \in Nat, n < K PROVE f[n + 1] = ReleaseOne(f[n])
    <2>1. n + 1 \in 0 .. K /\ n + 1 # 0 /\ (n + 1) - 1 = n
      BY <1>0, <1>4
    <2> QED
      BY <1>2, <2>1
  <1> QED
    BY <1>1, <1>3, <1>4

\* The cascade keeps types and the free list; nothing comes alive and no field changes.
LEMMA ReleasedEffect ==
    ASSUME NEW r, Good(r), NEW o \in Int, NEW v \in Fields
    PROVE  LET m == Released(r, o, v)
           IN  m \in Releases /\ Good(m.r) /\ m.obj \in Int /\ m.dead \in BOOLEAN /\ Keeps(r, m.r)
  <1>1. PICK f : /\ f[0] = FirstRelease(r, o, v)
                 /\ \A n \in Nat : n < MaxSlots + 2 => f[n + 1] = ReleaseOne(f[n])
                 /\ Released(r, o, v) = f[MaxSlots + 2]
    BY ReleasedRounds
  <1> DEFINE Fine(n) == f[n] \in Releases /\ Exact(f[n].r) /\ Keeps(r, f[n].r)
             T == {n \in Nat : n <= MaxSlots + 2 => Fine(n)}
  <1>2. 0 \in T
    <2>1. f[0].r = r /\ f[0] \in Releases
      BY <1>1 DEF FirstRelease, Releases, Good
    <2> QED
      BY <2>1 DEF Good, Keeps
  <1>3. ASSUME NEW n \in Nat, n \in T PROVE n + 1 \in T
    <2>1. SUFFICES ASSUME n + 1 <= MaxSlots + 2 PROVE Fine(n + 1)
      BY <1>3
    <2>2. n < MaxSlots + 2 /\ n <= MaxSlots + 2
      BY <2>1, RegistryConstants
    <2>3. Fine(n)
      BY <1>3, <2>2
    <2>4. f[n + 1] = ReleaseOne(f[n])
      BY <1>1, <2>2
    <2>5. f[n + 1] \in Releases /\ Exact(f[n + 1].r) /\ Keeps(f[n].r, f[n + 1].r)
      BY <2>3, <2>4, ReleaseOneWays
    <2>6. Keeps(r, f[n + 1].r)
      BY <2>3, <2>5 DEF Keeps
    <2> QED
      BY <2>5, <2>6
  <1>4. MaxSlots + 2 \in T
    <2>1. Nat \subseteq T
      <3> HIDE DEF T
      <3> QED
        BY <1>2, <1>3, Induction
    <2> QED
      BY <2>1, RegistryConstants
  <1>5. Fine(MaxSlots + 2)
    BY <1>4, RegistryConstants
  <1> QED
    BY <1>1, <1>5 DEF Good, Releases
-----------------------------------------------------------------------------
\* The other edits.

LEMMA CountsGood ==
    ASSUME NEW r, Good(r), NEW i \in Idx
    PROVE  /\ Good(Incref(r, i))
           /\ r.root[i] < MaxRoots => Good(Rooted(r, i))
           /\ r.root[i] > 0 => Good(Unrooted(r, i))
  <1>1. r \in Registries /\ Exact(r)
    BY DEF Good
  <1>2. Good(Incref(r, i))
    BY <1>1, IncrefEffect, SameLive
  <1>3. r.root[i] < MaxRoots => Good(Rooted(r, i))
    BY <1>1, RootedEffect, SameLive
  <1>4. r.root[i] > 0 => Good(Unrooted(r, i))
    BY <1>1, UnrootedEffect, SameLive
  <1> QED
    BY <1>2, <1>3, <1>4

WithField(r, i, v) == [r EXCEPT !.slot[i].field = v]

LEMMA WithFieldEffect ==
    ASSUME NEW r, Good(r), NEW i \in Idx, NEW v \in Fields
    PROVE  LET s == WithField(r, i, v)
           IN  /\ Good(s) /\ s.root = r.root
               /\ \A j \in Idx : /\ s.slot[j].live = r.slot[j].live /\ s.slot[j].rc = r.slot[j].rc
                                 /\ s.slot[j].snap = r.slot[j].snap
                                 /\ s.slot[j].field = IF j = i THEN v ELSE r.slot[j].field
  <1>1. r \in Registries /\ Exact(r) /\ r.slot \in [Idx -> Slots] /\ r.slot[i] \in Slots
    BY RegistryFields DEF Good
  <1>2. PICK e : e = [r.slot[i] EXCEPT !.field = v]
    OBVIOUS
  <1>3. e \in Slots /\ e.rc = r.slot[i].rc /\ e.live = r.slot[i].live /\ e.field = v
        /\ e.snap = r.slot[i].snap
    BY <1>1, <1>2, FieldEdit
  <1>4. PICK t : t = [r.slot EXCEPT ![i] = e]
    OBVIOUS
  <1>5. t \in [Idx -> Slots] /\ \A j \in Idx : t[j] = IF j = i THEN e ELSE r.slot[j]
    BY <1>1, <1>3, <1>4, OneSlot
  <1>6. PICK s : s = WithField(r, i, v)
    OBVIOUS
  <1>7. s = [r EXCEPT !.slot = t]
    BY <1>2, <1>4, <1>6 DEF WithField
  <1>8. s \in Registries /\ s.slot = t /\ s.len = r.len /\ s.free = r.free /\ s.root = r.root
    BY <1>1, <1>5, <1>7, SlotsEdit
  <1>9. Good(s)
    BY <1>1, <1>3, <1>5, <1>8, SameLive
  <1> QED
    BY <1>3, <1>5, <1>6, <1>8, <1>9

LEMMA WithProxiesEffect ==
    ASSUME NEW r, Good(r), NEW S
    PROVE  LET s == WithProxies(r, S)
           IN  /\ Good(s) /\ s.root = r.root
               /\ \A j \in Idx : /\ s.slot[j].live = r.slot[j].live /\ s.slot[j].field = r.slot[j].field
                                 /\ s.slot[j].snap = r.slot[j].snap
                                 /\ s.slot[j].rc = IF j \in S THEN r.slot[j].rc + 1 ELSE r.slot[j].rc
  <1>1. r \in Registries /\ Exact(r)
    BY DEF Good
  <1>2. PICK t : t = [i \in Idx |-> IF i \in S THEN [r.slot[i] EXCEPT !.rc = r.slot[i].rc + 1] ELSE r.slot[i]]
    OBVIOUS
  <1>3. ASSUME NEW j \in Idx
        PROVE  /\ t[j] \in Slots /\ t[j].live = r.slot[j].live /\ t[j].field = r.slot[j].field
               /\ t[j].snap = r.slot[j].snap /\ t[j].rc = IF j \in S THEN r.slot[j].rc + 1 ELSE r.slot[j].rc
    <2>1. r.slot[j] \in Slots
      BY <1>1, RegistryFields
    <2>2. PICK n \in Int : n = r.slot[j].rc + 1
      BY <1>1, RegistryFields
    <2>3. PICK e : e = [r.slot[j] EXCEPT !.rc = n]
      OBVIOUS
    <2>4. e \in Slots /\ e.rc = n /\ e.live = r.slot[j].live /\ e.field = r.slot[j].field /\ e.snap = r.slot[j].snap
      BY <2>1, <2>2, <2>3, CountEdit
    <2>5. t[j] = IF j \in S THEN e ELSE r.slot[j]
      BY <1>2, <2>2, <2>3
    <2> QED
      BY <2>1, <2>2, <2>4, <2>5
  <1>4. t \in [Idx -> Slots]
    BY <1>2, <1>3
  <1>5. PICK s : s = WithProxies(r, S)
    OBVIOUS
  <1>6. s = [r EXCEPT !.slot = t]
    BY <1>2, <1>5 DEF WithProxies
  <1>7. s \in Registries /\ s.slot = t /\ s.len = r.len /\ s.free = r.free /\ s.root = r.root
    BY <1>1, <1>4, <1>6, SlotsEdit
  <1>8. Good(s)
    BY <1>1, <1>3, <1>7, SameLive
  <1> QED
    BY <1>3, <1>5, <1>7, <1>8

LEMMA CloneEffect ==
    ASSUME NEW r, Good(r)
    PROVE  LET s == CloneOf(r)
           IN  /\ Good(s) /\ \A j \in Idx : s.root[j] = 0
               /\ \A j \in Idx : /\ s.slot[j].live = r.slot[j].live
                                 /\ r.slot[j].live => /\ s.slot[j].rc = r.slot[j].rc /\ s.slot[j].snap
                                                      /\ s.slot[j].field = r.slot[j].field
                                 /\ ~r.slot[j].live => s.slot[j] = Free
  <1>1. r \in Registries /\ Exact(r)
    BY DEF Good
  <1>2. PICK t : t = [i \in Idx |-> IF r.slot[i].live THEN [r.slot[i] EXCEPT !.snap = TRUE] ELSE Free]
    OBVIOUS
  <1>3. PICK q : q = [i \in Idx |-> 0]
    OBVIOUS
  <1>4. ASSUME NEW j \in Idx
        PROVE  /\ t[j] \in Slots /\ t[j].live = r.slot[j].live
               /\ r.slot[j].live => t[j].rc = r.slot[j].rc /\ t[j].snap /\ t[j].field = r.slot[j].field
               /\ ~r.slot[j].live => t[j] = Free
    <2>1. r.slot[j] \in Slots /\ r.slot[j].live \in BOOLEAN
      BY <1>1, RegistryFields
    <2>2. PICK e : e = [r.slot[j] EXCEPT !.snap = TRUE]
      OBVIOUS
    <2>3. e \in Slots /\ e.rc = r.slot[j].rc /\ e.live = r.slot[j].live /\ e.field = r.slot[j].field /\ e.snap
      BY <2>1, <2>2, SnapEdit
    <2>4. CASE r.slot[j].live
      <3>1. t[j] = e
        BY <1>2, <2>2, <2>4
      <3> QED
        BY <2>3, <2>4, <3>1
    <2>5. CASE ~r.slot[j].live
      <3>1. t[j] = Free
        BY <1>2, <2>5
      <3> QED
        BY <2>1, <2>5, <3>1, FreeSlot
    <2> QED
      BY <2>4, <2>5
  <1>5. t \in [Idx -> Slots] /\ q \in [Idx -> 0 .. MaxRoots]
    BY <1>2, <1>3, <1>4, RegistryConstants
  <1>6. PICK s : s = CloneOf(r)
    OBVIOUS
  <1>7. PICK u : u = [r EXCEPT !.slot = t]
    OBVIOUS
  <1>8. s = [u EXCEPT !.root = q]
    BY <1>2, <1>3, <1>6, <1>7 DEF CloneOf
  <1>9. u \in Registries /\ u.slot = t /\ u.len = r.len /\ u.free = r.free
    BY <1>1, <1>5, <1>7, SlotsEdit
  <1>10. s \in Registries /\ s.slot = t /\ s.len = r.len /\ s.free = r.free /\ s.root = q
    BY <1>5, <1>8, <1>9, RootsEdit
  <1>11. Good(s)
    BY <1>1, <1>4, <1>10, SameLive
  <1> QED
    BY <1>3, <1>4, <1>6, <1>10, <1>11
-----------------------------------------------------------------------------
\* What is left of a sequence without some of its members.

KeptNext(s, S, n, q) == IF s[n] \in S THEN q ELSE Append(q, s[n])

LEMMA KeptExist ==
    ASSUME NEW s, NEW S, NEW K \in Nat
    PROVE  \E f : f = [n \in 0 .. K |-> IF n = 0 THEN <<>> ELSE KeptNext(s, S, n, f[n - 1])]
  <1> DEFINE Rounds(f, n) == f = [i \in 0 .. n |-> IF i = 0 THEN <<>> ELSE KeptNext(s, S, i, f[i - 1])]
             T == {n \in Nat : \E f : Rounds(f, n)}
  <1>1. 0 \in T
    <2>1. PICK f : f = [i \in 0 .. 0 |-> <<>>]
      OBVIOUS
    <2>2. f = [i \in 0 .. 0 |-> IF i = 0 THEN <<>> ELSE KeptNext(s, S, i, f[i - 1])]
      BY <2>1
    <2> QED
      BY <2>2
  <1>2. ASSUME NEW n \in Nat, n \in T PROVE n + 1 \in T
    <2>1. PICK f : Rounds(f, n)
      BY <1>2
    <2>2. PICK g : g = [i \in 0 .. (n + 1) |-> IF i = n + 1 THEN KeptNext(s, S, i, f[n]) ELSE f[i]]
      OBVIOUS
    <2>3. ASSUME NEW i \in 0 .. (n + 1)
          PROVE  g[i] = IF i = 0 THEN <<>> ELSE KeptNext(s, S, i, g[i - 1])
      <3>1. CASE i = n + 1
        <4>1. g[i] = KeptNext(s, S, i, f[n]) /\ g[n] = f[n] /\ i - 1 = n /\ i # 0
          BY <2>2, <3>1
        <4> QED
          BY <4>1
      <3>2. CASE i \in 1 .. n
        <4>1. g[i] = f[i] /\ i - 1 \in 0 .. n /\ g[i - 1] = f[i - 1] /\ i # 0 /\ i \in 0 .. n
          BY <2>2, <3>2
        <4>2. f[i] = KeptNext(s, S, i, f[i - 1])
          BY <2>1, <4>1
        <4> QED
          BY <4>1, <4>2
      <3>3. CASE i = 0
        <4>1. g[i] = f[0] /\ 0 \in 0 .. n
          BY <2>2, <3>3
        <4> QED
          BY <2>1, <3>3, <4>1
      <3>4. i = 0 \/ i \in 1 .. n \/ i = n + 1
        OBVIOUS
      <3> QED
        BY <3>1, <3>2, <3>3, <3>4
    <2>4. Rounds(g, n + 1)
      BY <2>2, <2>3
    <2> QED
      BY <2>4
  <1>3. Nat \subseteq T
    <2> HIDE DEF T
    <2> QED
      BY <1>1, <1>2, Induction
  <1> QED
    BY <1>3

LEMMA WithoutRounds ==
    ASSUME NEW s, NEW S, Len(s) \in Nat
    PROVE  \E f : /\ f[0] = <<>>
                  /\ \A n \in Nat : n < Len(s) => f[n + 1] = KeptNext(s, S, n + 1, f[n])
                  /\ Without(s, S) = f[Len(s)]
  <1> DEFINE K == Len(s)
             f == CHOOSE h : h = [n \in 0 .. K |-> IF n = 0 THEN <<>> ELSE KeptNext(s, S, n, h[n - 1])]
  <1>1. Without(s, S) = f[K]
    BY DEF Without, KeptNext
  <1>2. f = [n \in 0 .. K |-> IF n = 0 THEN <<>> ELSE KeptNext(s, S, n, f[n - 1])]
    BY KeptExist
  <1> HIDE DEF f
  <1>3. f[0] = <<>>
    BY <1>2
  <1>4. ASSUME NEW n \in Nat, n < K PROVE f[n + 1] = KeptNext(s, S, n + 1, f[n])
    <2>1. n + 1 \in 0 .. K /\ n + 1 # 0 /\ (n + 1) - 1 = n
      BY <1>4
    <2> QED
      BY <1>2, <2>1
  <1> QED
    BY <1>1, <1>3, <1>4

\* The same members in the same number, S apart.
LEMMA WithoutFacts ==
    ASSUME NEW T, NEW s \in Seq(T), NEW S
    PROVE  LET q == Without(s, S)
           IN  /\ q \in Seq(T)
               /\ \A x : (\E a \in DOMAIN q : q[a] = x) <=> x \notin S /\ \E i \in DOMAIN s : s[i] = x
               /\ (\A i, j \in DOMAIN s : s[i] = s[j] => i = j) => \A a, b \in DOMAIN q : q[a] = q[b] => a = b
  <1>0. Len(s) \in Nat /\ DOMAIN s = 1 .. Len(s)
    OBVIOUS
  <1>1. PICK f : /\ f[0] = <<>>
                 /\ \A n \in Nat : n < Len(s) => f[n + 1] = KeptNext(s, S, n + 1, f[n])
                 /\ Without(s, S) = f[Len(s)]
    BY <1>0, WithoutRounds
  <1> DEFINE Inj == \A i, j \in DOMAIN s : s[i] = s[j] => i = j
             Fine(n) == /\ f[n] \in Seq(T)
                        /\ \A x : (\E a \in DOMAIN f[n] : f[n][a] = x) <=> x \notin S /\ \E i \in 1 .. n : s[i] = x
                        /\ Inj => \A a, b \in DOMAIN f[n] : f[n][a] = f[n][b] => a = b
             U == {n \in Nat : n <= Len(s) => Fine(n)}
  <1>2. 0 \in U
    <2>1. DOMAIN f[0] = {} /\ f[0] \in Seq(T)
      BY <1>1
    <2> QED
      BY <2>1
  <1>3. ASSUME NEW n \in Nat, n \in U PROVE n + 1 \in U
    <2>1. SUFFICES ASSUME n + 1 <= Len(s) PROVE Fine(n + 1)
      BY <1>3
    <2>2. n < Len(s) /\ n <= Len(s) /\ n + 1 \in DOMAIN s /\ s[n + 1] \in T /\ 1 .. (n + 1) = (1 .. n) \cup {n + 1}
      BY <1>0, <2>1
    <2>3. Fine(n)
      BY <1>3, <2>2
    <2>4. f[n + 1] = KeptNext(s, S, n + 1, f[n])
      BY <1>1, <2>2
    <2>5. CASE s[n + 1] \in S
      <3>1. f[n + 1] = f[n]
        BY <2>4, <2>5 DEF KeptNext
      <3>2. \A x : x \notin S => ((\E i \in 1 .. (n + 1) : s[i] = x) <=> \E i \in 1 .. n : s[i] = x)
        BY <2>2, <2>5
      <3> QED
        BY <2>3, <3>1, <3>2
    <2>6. CASE s[n + 1] \notin S
      <3>1. PICK e \in T : e = s[n + 1]
        BY <2>2
      <3>2. PICK p \in Seq(T) : p = f[n]
        BY <2>3
      <3>3. PICK q : q = Append(p, e)
        OBVIOUS
      <3>4. f[n + 1] = q
        BY <2>4, <2>6, <3>1, <3>2, <3>3 DEF KeptNext
      <3>5. /\ q \in Seq(T) /\ DOMAIN q = DOMAIN p \cup {Len(p) + 1} /\ Len(p) + 1 \notin DOMAIN p
            /\ q[Len(p) + 1] = e /\ \A a \in DOMAIN p : q[a] = p[a]
        BY <3>1, <3>2, <3>3, PushFacts
      <3>6. ASSUME NEW x
            PROVE  (\E a \in DOMAIN q : q[a] = x) <=> x \notin S /\ \E i \in 1 .. (n + 1) : s[i] = x
        <4>1. (\E a \in DOMAIN q : q[a] = x) <=> x = e \/ \E a \in DOMAIN p : p[a] = x
          BY <3>5
        <4>2. (\E i \in 1 .. (n + 1) : s[i] = x) <=> x = e \/ \E i \in 1 .. n : s[i] = x
          BY <2>2, <3>1
        <4>3. (\E a \in DOMAIN p : p[a] = x) <=> x \notin S /\ \E i \in 1 .. n : s[i] = x
          BY <2>3, <3>2
        <4> QED
          BY <2>6, <3>1, <4>1, <4>2, <4>3
      <3>7. ASSUME Inj PROVE \A a, b \in DOMAIN q : q[a] = q[b] => a = b
        <4>1. \A a \in DOMAIN p : p[a] # e
          <5>1. SUFFICES ASSUME NEW a \in DOMAIN p, p[a] = e PROVE FALSE
            OBVIOUS
          <5>2. PICK i \in 1 .. n : s[i] = e
            BY <2>3, <3>2, <5>1
          <5>3. i \in DOMAIN s /\ i # n + 1
            BY <1>0, <2>2
          <5> QED
            BY <2>2, <3>1, <3>7, <5>2, <5>3
        <4>2. \A a, b \in DOMAIN p : p[a] = p[b] => a = b
          BY <2>3, <3>2, <3>7
        <4> QED
          BY <3>5, <4>1, <4>2
      <3> QED
        BY <3>4, <3>5, <3>6, <3>7
    <2> QED
      BY <2>5, <2>6
  <1>4. Len(s) \in U
    <2>1. Nat \subseteq U
      <3> HIDE DEF U
      <3> QED
        BY <1>2, <1>3, Induction
    <2> QED
      BY <1>0, <2>1
  <1>5. Fine(Len(s))
    BY <1>0, <1>4
  <1> QED
    BY <1>0, <1>1, <1>5

LEMMA ConcatFacts ==
    ASSUME NEW T, NEW p \in Seq(T), NEW q \in Seq(T)
    PROVE  /\ p \o q \in Seq(T) /\ Len(p) \in Nat /\ Len(q) \in Nat
           /\ DOMAIN (p \o q) = 1 .. (Len(p) + Len(q)) /\ DOMAIN p = 1 .. Len(p) /\ DOMAIN q = 1 .. Len(q)
           /\ \A a \in 1 .. Len(p) : (p \o q)[a] = p[a]
           /\ \A b \in 1 .. Len(q) : (p \o q)[Len(p) + b] = q[b]
  OBVIOUS

LEMMA ConcatMembers ==
    ASSUME NEW T, NEW p \in Seq(T), NEW q \in Seq(T)
    PROVE  /\ \A x : (\E c \in DOMAIN (p \o q) : (p \o q)[c] = x) <=>
                     (\E a \in DOMAIN p : p[a] = x) \/ \E b \in DOMAIN q : q[b] = x
           /\ (/\ \A a, b \in DOMAIN p : p[a] = p[b] => a = b
               /\ \A a, b \in DOMAIN q : q[a] = q[b] => a = b
               /\ \A a \in DOMAIN p, b \in DOMAIN q : p[a] # q[b])
              => \A c, d \in DOMAIN (p \o q) : (p \o q)[c] = (p \o q)[d] => c = d
  <1>1. PICK s : s = p \o q
    OBVIOUS
  <1>2. PICK m \in Nat : m = Len(p)
    BY ConcatFacts
  <1>3. PICK n \in Nat : n = Len(q)
    BY ConcatFacts
  <1>4. /\ DOMAIN s = 1 .. (m + n) /\ DOMAIN p = 1 .. m /\ DOMAIN q = 1 .. n
        /\ \A a \in 1 .. m : s[a] = p[a]
        /\ \A b \in 1 .. n : s[m + b] = q[b]
    BY <1>1, <1>2, <1>3, ConcatFacts
  <1>5. \A c \in 1 .. (m + n) : c \in 1 .. m \/ \E b \in 1 .. n : c = m + b
    <2>1. ASSUME NEW c \in 1 .. (m + n), c \notin 1 .. m PROVE \E b \in 1 .. n : c = m + b
      <3>1. c - m \in 1 .. n /\ c = m + (c - m)
        BY <2>1
      <3> QED
        BY <3>1
    <2> QED
      BY <2>1
  <1>6. \A b \in 1 .. n : m + b \in 1 .. (m + n)
    OBVIOUS
  <1>7. 1 .. m \subseteq 1 .. (m + n)
    OBVIOUS
  <1>8. \A x : (\E c \in DOMAIN s : s[c] = x) <=> (\E a \in DOMAIN p : p[a] = x) \/ \E b \in DOMAIN q : q[b] = x
    <2>1. SUFFICES ASSUME NEW x
                   PROVE  (\E c \in DOMAIN s : s[c] = x) <=> (\E a \in DOMAIN p : p[a] = x) \/ \E b \in DOMAIN q : q[b] = x
      OBVIOUS
    <2>2. ASSUME NEW c \in DOMAIN s, s[c] = x PROVE (\E a \in DOMAIN p : p[a] = x) \/ \E b \in DOMAIN q : q[b] = x
      <3>1. CASE c \in 1 .. m
        BY <1>4, <2>2, <3>1
      <3>2. CASE c \notin 1 .. m
        <4>1. PICK b \in 1 .. n : c = m + b
          BY <1>4, <1>5, <3>2
        <4> QED
          BY <1>4, <2>2, <4>1
      <3> QED
        BY <3>1, <3>2
    <2>3. ASSUME NEW a \in DOMAIN p, p[a] = x PROVE \E c \in DOMAIN s : s[c] = x
      BY <1>4, <1>7, <2>3
    <2>4. ASSUME NEW b \in DOMAIN q, q[b] = x PROVE \E c \in DOMAIN s : s[c] = x
      <3>1. m + b \in DOMAIN s /\ s[m + b] = x
        BY <1>4, <1>6, <2>4
      <3> QED
        BY <3>1
    <2> QED
      BY <2>2, <2>3, <2>4
  <1>9. ASSUME \A a, b \in DOMAIN p : p[a] = p[b] => a = b,
               \A a, b \in DOMAIN q : q[a] = q[b] => a = b,
               \A a \in DOMAIN p, b \in DOMAIN q : p[a] # q[b],
               NEW c \in DOMAIN s, NEW d \in DOMAIN s, s[c] = s[d]
        PROVE  c = d
    <2>1. CASE c \in 1 .. m /\ d \in 1 .. m
      BY <1>4, <1>9, <2>1
    <2>2. CASE c \in 1 .. m /\ d \notin 1 .. m
      <3>1. PICK b \in 1 .. n : d = m + b
        BY <1>4, <1>5, <2>2
      <3>2. s[c] = p[c] /\ s[d] = q[b]
        BY <1>4, <2>2, <3>1
      <3>3. p[c] # q[b]
        BY <1>4, <1>9, <2>2
      <3> QED
        BY <1>9, <3>2, <3>3
    <2>3. CASE c \notin 1 .. m /\ d \in 1 .. m
      <3>1. PICK b \in 1 .. n : c = m + b
        BY <1>4, <1>5, <2>3
      <3>2. s[d] = p[d] /\ s[c] = q[b]
        BY <1>4, <2>3, <3>1
      <3>3. p[d] # q[b]
        BY <1>4, <1>9, <2>3
      <3> QED
        BY <1>9, <3>2, <3>3
    <2>4. CASE c \notin 1 .. m /\ d \notin 1 .. m
      <3>1. PICK b \in 1 .. n : c = m + b
        BY <1>4, <1>5, <2>4
      <3>2. PICK e \in 1 .. n : d = m + e
        BY <1>4, <1>5, <2>4
      <3>3. q[b] = q[e]
        BY <1>4, <1>9, <3>1, <3>2
      <3>4. b = e
        BY <1>4, <1>9, <3>3
      <3> QED
        BY <3>1, <3>2, <3>4
    <2> QED
      BY <2>1, <2>2, <2>3, <2>4
  <1> QED
    BY <1>1, <1>8, <1>9
-----------------------------------------------------------------------------
\* The transplant.

LEMMA FreshFacts ==
    ASSUME Good(Caller), Good(Cur)
    PROVE  /\ Fresh \subseteq Idx /\ IsFiniteSet(Fresh)
           /\ \A i \in Idx : i \in Fresh <=> Cur.slot[i].live /\ ~Caller.slot[i].live
           /\ NewLen \in 0 .. MaxSlots /\ Caller.len \in 0 .. MaxSlots /\ Caller.len <= NewLen
           /\ \A i \in Fresh : i < NewLen
  <1>1. /\ Fresh \subseteq Idx /\ Caller.len \in 0 .. MaxSlots
        /\ \A i \in Idx : i \in Fresh <=> Cur.slot[i].live /\ ~Caller.slot[i].live
    BY RegistryFields DEF Good, Fresh, Live
  <1>2. IsFiniteSet(Fresh)
    BY <1>1, IdxFinite
  <1>3. CASE \E i \in Fresh : i >= Caller.len
    <2>1. \E i \in Fresh : \A j \in Fresh : j <= i
      <3>1. Fresh \subseteq 0 .. MaxSlots /\ Fresh # {}
        BY <1>1, <1>3, RegistryConstants DEF Idx
      <3> QED
        BY <3>1, RegistryConstants, GreatestNumber
    <2>2. PICK g : g = CHOOSE i \in Fresh : \A j \in Fresh : j <= i
      OBVIOUS
    <2>3. g \in Fresh /\ \A j \in Fresh : j <= g
      BY <2>1, <2>2
    <2>4. NewLen = 1 + g
      BY <1>3, <2>2 DEF NewLen
    <2>5. g \in 0 .. (MaxSlots - 1) /\ MaxSlots \in Nat /\ Fresh \subseteq Nat
      BY <1>1, <2>3, IdxFacts DEF Idx
    <2>6. Caller.len <= g
      BY <1>1, <1>3, <2>3, <2>5
    <2> QED
      BY <1>1, <1>2, <2>3, <2>4, <2>5, <2>6
  <1>4. CASE ~ \E i \in Fresh : i >= Caller.len
    <2>1. NewLen = Caller.len
      BY <1>4 DEF NewLen
    <2>2. \A i \in Fresh : i \in Nat /\ ~(i >= Caller.len)
      BY <1>1, <1>4, IdxFacts
    <2> QED
      BY <1>1, <1>2, <2>1, <2>2
  <1> QED
    BY <1>3, <1>4

LEMMA HolesFacts ==
    ASSUME Good(Caller), Good(Cur)
    PROVE  /\ Holes \in Seq(Idx)
           /\ \A x : (\E a \in DOMAIN Holes : Holes[a] = x) <=> x \notin Fresh /\ x \in Caller.len .. (NewLen - 1)
           /\ \A a, b \in DOMAIN Holes : Holes[a] = Holes[b] => a = b
  <1>1. PICK c \in Nat : c = Caller.len
    BY FreshFacts
  <1>2. PICK l \in Nat : l = NewLen
    BY FreshFacts
  <1>3. c <= l /\ l <= MaxSlots
    BY <1>1, <1>2, FreshFacts
  <1>4. PICK h : h = [n \in 1 .. (l - c) |-> c + n - 1]
    OBVIOUS
  <1>5. h \in Seq(Idx)
    <2>1. l - c \in Nat
      BY <1>3
    <2>2. \A n \in 1 .. (l - c) : c + n - 1 \in Idx
      BY <1>3, RegistryConstants DEF Idx
    <2> QED
      BY <1>4, <2>1, <2>2
  <1>6. \A x : (\E n \in DOMAIN h : h[n] = x) <=> x \in c .. (l - 1)
    <2>1. DOMAIN h = 1 .. (l - c) /\ \A n \in 1 .. (l - c) : h[n] = c + n - 1 /\ c + n - 1 \in c .. (l - 1)
      BY <1>3, <1>4
    <2>2. ASSUME NEW x \in c .. (l - 1) PROVE \E n \in DOMAIN h : h[n] = x
      <3>1. x - c + 1 \in 1 .. (l - c) /\ c + (x - c + 1) - 1 = x
        BY <1>3
      <3> QED
        BY <2>1, <3>1
    <2> QED
      BY <2>1, <2>2
  <1>7. \A a, b \in DOMAIN h : h[a] = h[b] => a = b
    BY <1>4
  <1>8. Holes = Without(h, Fresh)
    BY <1>1, <1>2, <1>4 DEF Holes
  <1>9. PICK q : q = Without(h, Fresh)
    OBVIOUS
  <1>10. /\ q \in Seq(Idx)
         /\ \A x : (\E a \in DOMAIN q : q[a] = x) <=> x \notin Fresh /\ \E n \in DOMAIN h : h[n] = x
         /\ \A a, b \in DOMAIN q : q[a] = q[b] => a = b
    BY <1>5, <1>7, <1>9, WithoutFacts
  <1>11. q = Holes
    BY <1>8, <1>9
  <1>12. \A x : (\E a \in DOMAIN q : q[a] = x) <=> x \notin Fresh /\ x \in c .. (l - 1)
    BY <1>6, <1>10
  <1> QED
    BY <1>1, <1>2, <1>10, <1>11, <1>12

LEMMA TransplantedEffect ==
    ASSUME Good(Caller), Good(Cur)
    PROVE  /\ Good(Transplanted) /\ Transplanted.root = Caller.root
           /\ \A j \in Idx : /\ j \in Fresh => /\ Transplanted.slot[j].live
                                               /\ Transplanted.slot[j].rc = Cur.slot[j].rc
                                               /\ Transplanted.slot[j].field = Cur.slot[j].field
                                               /\ Transplanted.slot[j].snap = FALSE
                             /\ j \notin Fresh => Transplanted.slot[j] = Caller.slot[j]
  <1>1. PICK r : r = Caller
    OBVIOUS
  <1>2. PICK c : c = Cur
    OBVIOUS
  <1>3. PICK F : F = Fresh
    OBVIOUS
  <1>4. PICK l : l = NewLen
    OBVIOUS
  <1>5. PICK h : h = Holes
    OBVIOUS
  <1>6. r \in Registries /\ Exact(r) /\ c \in Registries
    BY <1>1, <1>2 DEF Good
  <1>7. /\ F \subseteq Idx /\ \A i \in Idx : i \in F <=> c.slot[i].live /\ ~r.slot[i].live
        /\ l \in 0 .. MaxSlots /\ r.len \in 0 .. MaxSlots /\ r.len <= l /\ \A i \in F : i < l
    BY <1>1, <1>2, <1>3, <1>4, FreshFacts
  <1>8. /\ h \in Seq(Idx)
        /\ \A x : (\E a \in DOMAIN h : h[a] = x) <=> x \notin F /\ x \in r.len .. (l - 1)
        /\ \A a, b \in DOMAIN h : h[a] = h[b] => a = b
    BY <1>1, <1>3, <1>4, <1>5, HolesFacts
  <1>9. PICK p : p = Without(r.free, F)
    OBVIOUS
  <1>10. /\ \A a, b \in DOMAIN r.free : r.free[a] = r.free[b] => a = b
         /\ \A i \in Idx : /\ Listed(r, i) <=> i < r.len /\ ~r.slot[i].live
                           /\ r.slot[i].live => i < r.len
    BY <1>6, ExactPoints
  <1>11. /\ p \in Seq(Idx)
         /\ \A x : (\E a \in DOMAIN p : p[a] = x) <=> x \notin F /\ Listed(r, x)
         /\ \A a, b \in DOMAIN p : p[a] = p[b] => a = b
    <2>1. r.free \in Seq(Idx)
      BY <1>6, RegistryFields
    <2> QED
      BY <1>9, <1>10, <2>1, WithoutFacts DEF Listed
  <1>12. PICK q : q = p \o h
    OBVIOUS
  <1>13. /\ q \in Seq(Idx)
         /\ \A x : (\E a \in DOMAIN q : q[a] = x) <=> x \notin F /\ (Listed(r, x) \/ x \in r.len .. (l - 1))
         /\ \A a, b \in DOMAIN q : q[a] = q[b] => a = b
    <2>1. q \in Seq(Idx)
      BY <1>8, <1>11, <1>12, ConcatFacts
    <2>2. \A a \in DOMAIN p, b \in DOMAIN h : p[a] # h[b]
      <3>1. SUFFICES ASSUME NEW a \in DOMAIN p, NEW b \in DOMAIN h, p[a] = h[b] PROVE FALSE
        OBVIOUS
      <3>2. Listed(r, p[a]) /\ p[a] \in r.len .. (l - 1)
        BY <1>8, <1>11, <3>1
      <3>3. p[a] \in Idx
        BY <1>11, <3>1
      <3>4. p[a] < r.len
        BY <1>10, <3>2, <3>3
      <3> QED
        BY <1>7, <3>2, <3>4
    <2>3. \A x : (\E a \in DOMAIN q : q[a] = x) <=> (\E a \in DOMAIN p : p[a] = x) \/ \E b \in DOMAIN h : h[b] = x
      <3>1. \A x : (\E a \in DOMAIN (p \o h) : (p \o h)[a] = x) <=> (\E a \in DOMAIN p : p[a] = x) \/ \E b \in DOMAIN h : h[b] = x
        BY <1>8, <1>11, ConcatMembers
      <3> QED
        BY <1>12, <3>1
    <2>4. \A a, b \in DOMAIN q : q[a] = q[b] => a = b
      BY <1>8, <1>11, <1>12, <2>2, ConcatMembers
    <2> QED
      BY <1>8, <1>11, <2>1, <2>3, <2>4
  <1>14. PICK t : t = [i \in Idx |-> IF i \in F THEN [c.slot[i] EXCEPT !.snap = FALSE] ELSE r.slot[i]]
    OBVIOUS
  <1>15. ASSUME NEW j \in Idx
         PROVE  /\ t[j] \in Slots
                /\ j \in F => t[j].live /\ t[j].rc = c.slot[j].rc /\ t[j].field = c.slot[j].field /\ t[j].snap = FALSE
                /\ j \notin F => t[j] = r.slot[j]
    <2>1. r.slot[j] \in Slots /\ c.slot[j] \in Slots
      BY <1>6, RegistryFields
    <2>2. PICK e : e = [c.slot[j] EXCEPT !.snap = FALSE]
      OBVIOUS
    <2>3. e \in Slots /\ e.live = c.slot[j].live /\ e.rc = c.slot[j].rc /\ e.field = c.slot[j].field /\ e.snap = FALSE
      BY <2>1, <2>2, SnapEdit
    <2>4. t[j] = IF j \in F THEN e ELSE r.slot[j]
      BY <1>14, <2>2
    <2> QED
      BY <1>7, <2>1, <2>3, <2>4
  <1>16. t \in [Idx -> Slots]
    BY <1>14, <1>15
  <1>17. PICK s : s = Transplanted
    OBVIOUS
  <1>18. s = [[[r EXCEPT !.slot = t] EXCEPT !.len = l] EXCEPT !.free = q]
    BY <1>1, <1>2, <1>3, <1>4, <1>5, <1>6, <1>9, <1>12, <1>14, <1>17 DEF Transplanted, Registries
  <1>19. s \in Registries /\ s.slot = t /\ s.free = q /\ s.len = l /\ s.root = r.root
    <2>1. PICK u : u = [r EXCEPT !.slot = t]
      OBVIOUS
    <2>2. u \in Registries /\ u.slot = t /\ u.root = r.root
      BY <1>6, <1>16, <2>1, SlotsEdit
    <2>3. PICK v : v = [u EXCEPT !.len = l]
      OBVIOUS
    <2>4. v \in Registries /\ v.slot = t /\ v.root = r.root /\ v.len = l
      BY <1>7, <2>2, <2>3, LenEdit
    <2>5. s = [v EXCEPT !.free = q]
      BY <1>18, <2>1, <2>3
    <2> QED
      BY <1>13, <2>4, <2>5, FreeEdit
  <1>20. Exact(s)
    <2>1. ASSUME NEW i \in Idx
          PROVE  (Listed(s, i) <=> i < s.len /\ ~s.slot[i].live) /\ (s.slot[i].live => i < s.len)
      <3>1. i \in Nat /\ r.len \in Nat /\ l \in Nat
        BY <1>7, IdxFacts
      <3>2. Listed(s, i) <=> i \notin F /\ (Listed(r, i) \/ i \in r.len .. (l - 1))
        BY <1>13, <1>19 DEF Listed
      <3>3. i \in r.len .. (l - 1) <=> r.len <= i /\ i < l
        BY <3>1
      <3>4. CASE i \in F
        BY <1>7, <1>15, <1>19, <3>2, <3>4
      <3>5. CASE i \notin F
        <4>1. s.slot[i].live = r.slot[i].live
          BY <1>15, <1>19, <3>5
        <4>2. CASE r.slot[i].live
          BY <1>7, <1>10, <1>19, <3>1, <3>2, <3>3, <3>5, <4>1, <4>2
        <4>3. CASE ~r.slot[i].live
          BY <1>7, <1>10, <1>19, <3>1, <3>2, <3>3, <3>5, <4>1, <4>3
        <4> QED
          BY <4>2, <4>3
      <3> QED
        BY <3>4, <3>5
    <2>2. \A a, b \in DOMAIN s.free : s.free[a] = s.free[b] => a = b
      BY <1>13, <1>19
    <2> QED
      BY <1>19, <2>1, <2>2, ExactPoints
  <1> QED
    BY <1>1, <1>2, <1>3, <1>15, <1>17, <1>19, <1>20 DEF Good
-----------------------------------------------------------------------------
\* The stack of registries, and the proxies.

Levels(R) == R \in Seq(Registries) /\ \A l \in 1 .. Len(R) : Exact(R[l])
ProxySet(n) == [used : BOOLEAN, at : 0 .. n, idx : Idx, by : 0 .. n, rec : Idx \cup {NoIdx}]
State(R, P, o, d, t) == /\ Levels(R) /\ Len(R) \in 1 .. MaxDepth /\ P \in [Proxies -> ProxySet(Len(R))]
                        /\ o \in Int /\ d \in BOOLEAN /\ t \in BOOLEAN
Sound == State(regs, px, obj, dead, tainted)

\* The registries of callers keep the fields of the structs they keep.
Apart(R, S) == \A l \in 1 .. (Len(R) - 1), i \in Idx :
                   R[l].slot[i].live /\ S[l].slot[i].live => S[l].slot[i].field = R[l].slot[i].field

LEMMA LevelFacts ==
    ASSUME NEW R, Levels(R), NEW l \in 1 .. Len(R)
    PROVE  Good(R[l]) /\ DOMAIN R = 1 .. Len(R) /\ Len(R) \in Nat
  BY DEF Levels, Good

LEMMA Edited ==
    ASSUME NEW R, Levels(R), NEW l \in 1 .. Len(R), NEW s, Good(s)
    PROVE  LET S == [R EXCEPT ![l] = s]
           IN  /\ Levels(S) /\ Len(S) = Len(R)
               /\ \A k \in 1 .. Len(R) : S[k] = IF k = l THEN s ELSE R[k]
  <1>1. PICK S : S = [R EXCEPT ![l] = s]
    OBVIOUS
  <1>2. R \in Seq(Registries) /\ s \in Registries
    BY DEF Levels, Good
  <1>3. S \in Seq(Registries) /\ Len(S) = Len(R) /\ \A k \in 1 .. Len(R) : S[k] = IF k = l THEN s ELSE R[k]
    BY <1>1, <1>2
  <1> QED
    BY <1>1, <1>3 DEF Levels, Good

LEMMA Pushed ==
    ASSUME NEW R, Levels(R), NEW s, Good(s)
    PROVE  LET S == Append(R, s)
           IN  /\ Levels(S) /\ Len(S) = Len(R) + 1
               /\ S[Len(R) + 1] = s /\ \A k \in 1 .. Len(R) : S[k] = R[k]
  <1>1. PICK S : S = Append(R, s)
    OBVIOUS
  <1>2. R \in Seq(Registries) /\ s \in Registries
    BY DEF Levels, Good
  <1>3. /\ S \in Seq(Registries) /\ Len(S) = Len(R) + 1
        /\ S[Len(R) + 1] = s /\ \A k \in 1 .. Len(R) : S[k] = R[k]
    BY <1>1, <1>2, AppendFacts
  <1>4. \A k \in 1 .. (Len(R) + 1) : k = Len(R) + 1 \/ k \in 1 .. Len(R)
    BY <1>2
  <1> QED
    BY <1>1, <1>3, <1>4 DEF Levels, Good

LEMMA Popped ==
    ASSUME NEW R, Levels(R), Len(R) > 1
    PROVE  /\ Levels(Front(R)) /\ Len(Front(R)) = Len(R) - 1
           /\ \A k \in 1 .. (Len(R) - 1) : Front(R)[k] = R[k]
  <1>1. PICK S : S = Front(R)
    OBVIOUS
  <1>2. S \in Seq(Registries) /\ Len(S) = Len(R) - 1 /\ \A k \in 1 .. (Len(R) - 1) : S[k] = R[k] /\ k \in 1 .. Len(R)
    BY <1>1 DEF Front, Levels
  <1> QED
    BY <1>1, <1>2 DEF Levels

Alike(r, s) == \A i \in Idx : r.slot[i].live /\ s.slot[i].live => s.slot[i].field = r.slot[i].field

LEMMA ApartEdit ==
    ASSUME NEW R, Levels(R), NEW l \in 1 .. Len(R), NEW s, Good(s), l = Len(R) \/ Alike(R[l], s)
    PROVE  Apart(R, [R EXCEPT ![l] = s])
  <1>1. PICK S : S = [R EXCEPT ![l] = s]
    OBVIOUS
  <1>2. \A k \in 1 .. Len(R) : S[k] = IF k = l THEN s ELSE R[k]
    BY <1>1, Edited
  <1>3. ASSUME NEW k \in 1 .. (Len(R) - 1), NEW i \in Idx, R[k].slot[i].live, S[k].slot[i].live
        PROVE  S[k].slot[i].field = R[k].slot[i].field
    <2>1. k \in 1 .. Len(R) /\ k # Len(R) /\ Len(R) \in Nat
      BY DEF Levels
    <2>2. CASE k = l
      BY <1>2, <1>3, <2>1, <2>2 DEF Alike
    <2>3. CASE k # l
      BY <1>2, <2>1, <2>3
    <2> QED
      BY <2>2, <2>3
  <1> QED
    BY <1>1, <1>3 DEF Apart

LEMMA GivingExists ==
    ASSUME NEW S, S \subseteq Idx, Cardinality(S) <= Cardinality(Unused)
    PROVE  /\ OneGiving(S) \in [S -> Unused]
           /\ \A i, j \in S : OneGiving(S)[i] = OneGiving(S)[j] => i = j
  <1>1. IsFiniteSet(S) /\ IsFiniteSet(Unused) /\ Cardinality(S) \in Nat /\ Cardinality(Unused) \in Nat
    <2>1. IsFiniteSet(Unused)
      BY RegistryConstants, FS_Subset DEF Unused
    <2> QED
      BY <2>1, IdxFinite, FS_CardinalityType
  <1>2. PICK m \in Nat : m = Cardinality(S)
    BY <1>1
  <1>3. PICK n \in Nat : n = Cardinality(Unused)
    BY <1>1
  <1>4. m <= n
    BY <1>2, <1>3
  <1>5. ExistsBijection(1 .. m, S) /\ ExistsBijection(1 .. n, Unused)
    BY <1>1, <1>2, <1>3, FS_CardinalityType
  <1>6. PICK f : f \in Bijection(1 .. m, S)
    BY <1>5 DEF ExistsBijection
  <1>7. PICK h : h \in Bijection(1 .. n, Unused)
    BY <1>5 DEF ExistsBijection
  <1>8. /\ f \in [1 .. m -> S] /\ \A i \in S : \E a \in 1 .. m : f[a] = i
        /\ h \in [1 .. n -> Unused] /\ \A a, b \in 1 .. n : h[a] = h[b] => a = b
    BY <1>6, <1>7 DEF Bijection, Injection, Surjection, IsInjective
  <1>9. PICK g : g = [i \in S |-> h[CHOOSE a \in 1 .. m : f[a] = i]]
    OBVIOUS
  <1>10. ASSUME NEW i \in S
         PROVE  \E a \in 1 .. m : a \in 1 .. n /\ f[a] = i /\ g[i] = h[a]
    <2>1. PICK a : a = CHOOSE b \in 1 .. m : f[b] = i
      OBVIOUS
    <2>2. a \in 1 .. m /\ f[a] = i
      BY <1>8, <2>1
    <2>3. a \in 1 .. n
      BY <1>4, <2>2
    <2> QED
      BY <1>9, <2>1, <2>2, <2>3
  <1>11. g \in [S -> Unused]
    BY <1>8, <1>9, <1>10
  <1>12. ASSUME NEW i \in S, NEW j \in S, g[i] = g[j] PROVE i = j
    <2>1. PICK a \in 1 .. m : a \in 1 .. n /\ f[a] = i /\ g[i] = h[a]
      BY <1>10
    <2>2. PICK b \in 1 .. m : b \in 1 .. n /\ f[b] = j /\ g[j] = h[b]
      BY <1>10
    <2>3. a = b
      BY <1>8, <1>12, <2>1, <2>2
    <2> QED
      BY <2>1, <2>2, <2>3
  <1>13. g \in Givings(S)
    BY <1>11, <1>12 DEF Givings
  <1>14. OneGiving(S) \in Givings(S)
    BY <1>13 DEF OneGiving
  <1> QED
    BY <1>14 DEF Givings
LEMMA GivenProxies ==
    ASSUME NEW S, S \subseteq Idx, Cardinality(S) <= Cardinality(Unused)
    PROVE  /\ OneGiving(S) \in [S -> Proxies] /\ DOMAIN OneGiving(S) = S
           /\ \A i \in S : OneGiving(S)[i] \in Unused
           /\ \A i, j \in S : OneGiving(S)[i] = OneGiving(S)[j] => i = j
  BY GivingExists DEF Unused

LEMMA LevelEffect ==
    ASSUME NEW n \in Nat, NEW l \in 1 .. n, NEW i \in Idx
    PROVE  /\ Level(l, i) \in ProxySet(n)
           /\ Level(l, i).used /\ Level(l, i).at = l /\ Level(l, i).idx = i
           /\ l = 1 => Level(l, i).by = 0
           /\ l > 1 => Level(l, i).by = l /\ Level(l, i).rec = i
  <1>1. (IF l > 1 THEN l ELSE 0) \in 0 .. n /\ l \in 0 .. n /\ (IF l > 1 THEN i ELSE NoIdx) \in Idx \cup {NoIdx}
    OBVIOUS
  <1> QED
    BY <1>1 DEF Level, ProxySet

LEMMA NamedEffect ==
    ASSUME NEW n \in Nat, NEW P \in [Proxies -> ProxySet(n)], NEW l \in 1 .. n,
           NEW S, S \subseteq Idx, NEW g \in [S -> Proxies]
    PROVE  /\ Named(P, l, g) \in [Proxies -> ProxySet(n)]
           /\ \A x \in Proxies : \/ \E i \in S : g[i] = x /\ Named(P, l, g)[x] = Level(l, i)
                                 \/ (\A i \in S : g[i] # x) /\ Named(P, l, g)[x] = P[x]
  <1>1. PICK N : N = Named(P, l, g)
    OBVIOUS
  <1>2. N = [x \in Proxies |-> IF \E i \in S : g[i] = x THEN Level(l, CHOOSE i \in S : g[i] = x) ELSE P[x]]
    BY <1>1 DEF Named
  <1>3. ASSUME NEW x \in Proxies
        PROVE  /\ N[x] \in ProxySet(n)
               /\ \/ \E i \in S : g[i] = x /\ N[x] = Level(l, i)
                  \/ (\A i \in S : g[i] # x) /\ N[x] = P[x]
    <2>1. CASE \E i \in S : g[i] = x
      <3>1. PICK i : i = CHOOSE j \in S : g[j] = x
        OBVIOUS
      <3>2. i \in S /\ g[i] = x /\ i \in Idx
        BY <2>1, <3>1
      <3>3. N[x] = Level(l, i)
        BY <1>2, <2>1, <3>1
      <3> QED
        BY <3>2, <3>3, LevelEffect
    <2>2. CASE ~ \E i \in S : g[i] = x
      BY <1>2, <2>2
    <2> QED
      BY <2>1, <2>2
  <1>4. N \in [Proxies -> ProxySet(n)]
    BY <1>2, <1>3
  <1> QED
    BY <1>1, <1>3, <1>4

Moved(p, q, a, b, c) == q = [p EXCEPT !.at = a, !.by = b, !.rec = c]

LEMMA ProxyEdit ==
    ASSUME NEW m \in Nat, NEW n \in Nat, NEW p \in ProxySet(m), NEW a \in 0 .. n, NEW b \in 0 .. n,
           NEW c \in Idx \cup {NoIdx}, NEW q, Moved(p, q, a, b, c)
    PROVE  /\ q \in ProxySet(n) /\ q.used = p.used /\ q.idx = p.idx
           /\ q.at = a /\ q.by = b /\ q.rec = c
  <1>1. q = [used |-> p.used, at |-> a, idx |-> p.idx, by |-> b, rec |-> c]
    BY DEF ProxySet, Moved
  <1>2. p.used \in BOOLEAN /\ p.idx \in Idx
    BY DEF ProxySet
  <1> QED
    BY <1>1, <1>2 DEF ProxySet

\* What a proxy becomes when the callee is gone.
LEMMA ForgottenEffect ==
    ASSUME Top \in Nat, Top > 1, NEW p \in ProxySet(Top)
    PROVE  /\ Forgotten(p) \in ProxySet(Top - 1) /\ Forgotten(p).used = p.used /\ Forgotten(p).idx = p.idx
           /\ Forgotten(p).at = IF p.at = Top THEN 0 ELSE p.at
           /\ Forgotten(p).by = IF p.by = Top THEN 0 ELSE p.by
           /\ p.by # Top => Forgotten(p).rec = p.rec
  <1>1. PICK n \in Nat : n = Top
    OBVIOUS
  <1>2. p.at \in 0 .. n /\ p.by \in 0 .. n /\ p.rec \in Idx \cup {NoIdx}
    BY <1>1 DEF ProxySet
  <1>3. PICK a : a = IF p.at = n THEN 0 ELSE p.at
    OBVIOUS
  <1>4. PICK b : b = IF p.by = n THEN 0 ELSE p.by
    OBVIOUS
  <1>5. PICK c : c = IF p.by = n THEN NoIdx ELSE p.rec
    OBVIOUS
  <1>6. a \in 0 .. (n - 1) /\ b \in 0 .. (n - 1) /\ c \in Idx \cup {NoIdx}
    BY <1>1, <1>2, <1>3, <1>4, <1>5
  <1>7. PICK q : q = Forgotten(p)
    OBVIOUS
  <1>8. Moved(p, q, a, b, c)
    BY <1>1, <1>3, <1>4, <1>5, <1>7 DEF Forgotten, ProxySet, Moved
  <1>9. PICK m \in Nat : m = n - 1
    BY <1>1
  <1>10. /\ q \in ProxySet(m) /\ q.used = p.used /\ q.idx = p.idx
         /\ q.at = a /\ q.by = b /\ q.rec = c
    BY <1>1, <1>6, <1>8, <1>9, ProxyEdit
  <1> QED
    BY <1>1, <1>2, <1>3, <1>4, <1>5, <1>7, <1>9, <1>10

LEMMA ReanchoredEffect ==
    ASSUME Top \in Nat, Top > 1, px \in [Proxies -> ProxySet(Top)]
    PROVE  /\ Reanchored \in [Proxies -> ProxySet(Top - 1)]
           /\ \A x \in Proxies :
                /\ Reanchored[x].used = px[x].used /\ Reanchored[x].idx = px[x].idx
                /\ ~Follows(x) => Reanchored[x] = Forgotten(px[x])
                /\ Follows(x) => /\ Reanchored[x].at = Top - 1 
                                 /\ Reanchored[x].by = (IF Top - 1 > 1 THEN Top - 1 ELSE 0)
                                 /\ Top - 1 > 1 => Reanchored[x].rec = px[x].rec
  <1>1. PICK n \in Nat : n = Top - 1 /\ n >= 1
    OBVIOUS
  <1>2. PICK R : R = Reanchored
    OBVIOUS
  <1>3. ASSUME NEW x \in Proxies
        PROVE  /\ R[x] \in ProxySet(n) /\ R[x].used = px[x].used /\ R[x].idx = px[x].idx
               /\ ~Follows(x) => R[x] = Forgotten(px[x])
               /\ Follows(x) => /\ R[x].at = n
                                /\ R[x].by = (IF n > 1 THEN n ELSE 0)
                                /\ n > 1 => R[x].rec = px[x].rec
    <2>1. px[x] \in ProxySet(Top)
      OBVIOUS
    <2>2. CASE ~Follows(x)
      <3>1. R[x] = Forgotten(px[x])
        BY <1>2, <2>2 DEF Reanchored
      <3> QED
        BY <1>1, <2>1, <2>2, <3>1, ForgottenEffect
    <2>3. CASE Follows(x) /\ n > 1
      <3>1. PICK p : p = px[x]
        OBVIOUS
      <3>2. PICK c \in Idx \cup {NoIdx} : c = p.rec
        BY <2>1, <3>1 DEF ProxySet
      <3>3. PICK q : q = R[x]
        OBVIOUS
      <3>4. q = [p EXCEPT !.at = n, !.by = n]
        BY <1>1, <1>2, <2>3, <3>1, <3>3 DEF Reanchored
      <3>5. Moved(p, q, n, n, c)
        BY <2>1, <3>1, <3>2, <3>4 DEF ProxySet, Moved
      <3>6. /\ q \in ProxySet(n) /\ q.used = p.used /\ q.idx = p.idx
            /\ q.at = n /\ q.by = n /\ q.rec = c
        <4>1. n \in 0 .. n
          OBVIOUS
        <4> QED
          BY <2>1, <3>1, <3>5, <4>1, ProxyEdit
      <3> QED
        BY <2>3, <3>1, <3>2, <3>3, <3>6
    <2>4. CASE Follows(x) /\ ~(n > 1)
      <3>1. PICK p : p = px[x]
        OBVIOUS
      <3>2. PICK q : q = R[x]
        OBVIOUS
      <3>3. Moved(p, q, 1, 0, NoIdx)
        BY <1>1, <1>2, <2>4, <3>1, <3>2 DEF Reanchored, Moved
      <3>4. 1 \in 0 .. n /\ 0 \in 0 .. n /\ NoIdx \in Idx \cup {NoIdx} /\ n = 1
        BY <1>1, <2>4
      <3>5. q \in ProxySet(n) /\ q.used = p.used /\ q.idx = p.idx /\ q.at = 1 /\ q.by = 0
        <4>1. p.used \in BOOLEAN /\ p.idx \in Idx
          BY <2>1, <3>1 DEF ProxySet
        <4>2. q = [used |-> p.used, at |-> 1, idx |-> p.idx, by |-> 0, rec |-> NoIdx]
          BY <2>1, <3>1, <3>3 DEF ProxySet, Moved
        <4> QED
          BY <3>4, <4>1, <4>2 DEF ProxySet
      <3> QED
        BY <2>4, <3>1, <3>2, <3>4, <3>5
    <2> QED
      BY <2>2, <2>3, <2>4
  <1>4. R \in [Proxies -> ProxySet(n)]
    BY <1>2, <1>3, Zenon DEF Reanchored
  <1> QED
    BY <1>1, <1>2, <1>3, <1>4

LEMMA ChainFacts ==
    ASSUME NEW r, NEW i \in Idx
    PROVE  /\ i \in Chain(r, i) /\ Chain(r, i) \subseteq Idx /\ Closed(r, Chain(r, i))
           /\ \A S \in SUBSET Idx : i \in S /\ Closed(r, S) => Chain(r, i) \subseteq S
  <1>1. i \in Chain(r, i) /\ Chain(r, i) \subseteq Idx
    BY DEF Chain
  <1>2. \A S \in SUBSET Idx : i \in S /\ Closed(r, S) => Chain(r, i) \subseteq S
    BY DEF Chain
  <1>3. ASSUME NEW j \in Chain(r, i), r.slot[j].field \in Idx PROVE r.slot[j].field \in Chain(r, i)
    BY <1>3 DEF Chain, Closed
  <1> QED
    BY <1>1, <1>2, <1>3 DEF Closed
-----------------------------------------------------------------------------
\* Every action keeps the types, the free lists and the fields of what callers keep.

LEMMA SoundFacts ==
    ASSUME Sound
    PROVE  /\ Top \in Nat /\ Top >= 1 /\ Top \in 1 .. Top /\ Top <= MaxDepth /\ Levels(regs)
           /\ Good(Cur) /\ Cur \in Registries /\ Exact(Cur) /\ DOMAIN regs = 1 .. Top
           /\ Top > 1 => Good(Caller) /\ Top - 1 \in 1 .. Top
           /\ \A l \in 1 .. Top : Good(regs[l])
           /\ px \in [Proxies -> ProxySet(Top)] /\ obj \in Int /\ dead \in BOOLEAN /\ tainted \in BOOLEAN
  <1>1. Levels(regs) /\ Top \in 1 .. MaxDepth /\ Top \in Nat
    BY RegistryConstants DEF Sound, State, Top
  <1>2. Top \in 1 .. Top /\ (Top > 1 => Top - 1 \in 1 .. Top)
    BY <1>1
  <1>3. \A l \in 1 .. Top : Good(regs[l])
    BY <1>1, LevelFacts DEF Top
  <1>4. DOMAIN regs = 1 .. Top
    BY <1>1, <1>2, LevelFacts DEF Top
  <1> QED
    BY <1>1, <1>2, <1>3, <1>4 DEF Sound, State, Cur, Caller, Good

LEMMA ProxyFacts ==
    ASSUME Sound, NEW x \in Proxies
    PROVE  /\ px[x].used \in BOOLEAN /\ px[x].at \in 0 .. Top /\ px[x].idx \in Idx /\ px[x].by \in 0 .. Top
           /\ px[x].rec \in Idx \cup {NoIdx} /\ px[x] \in ProxySet(Top)
  BY SoundFacts DEF ProxySet

After == State(regs', px', obj', dead', tainted') /\ Apart(regs, regs')

LEMMA EditedLevel ==
    ASSUME Sound, NEW l \in 1 .. Top, NEW s, Good(s), regs' = [regs EXCEPT ![l] = s], l = Top \/ Alike(regs[l], s),
           px' \in [Proxies -> ProxySet(Top)], obj' \in Int, dead' \in BOOLEAN, tainted' \in BOOLEAN
    PROVE  After
  <1>1. Levels(regs) /\ Top \in 1 .. MaxDepth /\ Top = Len(regs)
    BY DEF Sound, State, Top
  <1>2. Levels(regs') /\ Len(regs') = Len(regs)
    BY <1>1, Edited
  <1>3. Apart(regs, regs')
    BY <1>1, ApartEdit
  <1> QED
    BY <1>1, <1>2, <1>3 DEF After, State

LEMMA Unmoved ==
    ASSUME Sound, regs' = regs, px' \in [Proxies -> ProxySet(Top)], obj' \in Int, dead' \in BOOLEAN, tainted' \in BOOLEAN
    PROVE  After
  <1>1. Levels(regs) /\ Top \in 1 .. MaxDepth /\ Top = Len(regs)
    BY DEF Sound, State, Top
  <1>2. Apart(regs, regs')
    BY DEF Apart
  <1> QED
    BY <1>1, <1>2 DEF After, State

\* The registry under a popped callee's becomes s.
LEMMA ReturnedLevel ==
    ASSUME Sound, Top > 1, NEW s, Good(s), regs' = [Front(regs) EXCEPT ![Top - 1] = s], Alike(Caller, s),
           px' \in [Proxies -> ProxySet(Top - 1)], obj' \in Int, dead' \in BOOLEAN, tainted' \in BOOLEAN
    PROVE  /\ After /\ Len(regs') = Top - 1
           /\ \A k \in 1 .. (Top - 1) : regs'[k] = IF k = Top - 1 THEN s ELSE regs[k]
  <1>1. Levels(regs) /\ Top \in 1 .. MaxDepth /\ Top = Len(regs) /\ Top \in Nat
    BY RegistryConstants DEF Sound, State, Top
  <1>2. PICK F : F = Front(regs)
    OBVIOUS
  <1>3. Levels(F) /\ Len(F) = Top - 1 /\ \A k \in 1 .. (Top - 1) : F[k] = regs[k]
    BY <1>1, <1>2, Popped
  <1>4. Top - 1 \in 1 .. Len(F) /\ Top - 1 \in 1 .. MaxDepth
    BY <1>1, <1>3, RegistryConstants
  <1>5. Levels(regs') /\ Len(regs') = Top - 1 /\ \A k \in 1 .. (Top - 1) : regs'[k] = IF k = Top - 1 THEN s ELSE F[k]
    <2>1. PICK l : l = Top - 1
      OBVIOUS
    <2>2. l \in 1 .. Len(F) /\ regs' = [F EXCEPT ![l] = s] /\ Len(F) = l
      BY <1>2, <1>3, <1>4, <2>1
    <2>3. Levels(F) /\ l \in 1 .. Len(F)
      BY <1>3, <2>2
    <2>4. /\ Levels([F EXCEPT ![l] = s]) /\ Len([F EXCEPT ![l] = s]) = Len(F)
          /\ \A k \in 1 .. Len(F) : [F EXCEPT ![l] = s][k] = IF k = l THEN s ELSE F[k]
      BY <2>3, Edited
    <2> QED
      BY <2>1, <2>2, <2>4
  <1>6. ASSUME NEW k \in 1 .. (Len(regs) - 1), NEW i \in Idx, regs[k].slot[i].live, regs'[k].slot[i].live
        PROVE  regs'[k].slot[i].field = regs[k].slot[i].field
    <2>1. k \in 1 .. (Top - 1)
      BY <1>1
    <2>2. CASE k = Top - 1
      BY <1>5, <1>6, <2>1, <2>2 DEF Alike, Caller
    <2>3. CASE k # Top - 1
      BY <1>3, <1>5, <2>1, <2>3
    <2> QED
      BY <2>2, <2>3
  <1> QED
    BY <1>3, <1>4, <1>5, <1>6 DEF After, State, Apart

LEMMA KeepsAlike ==
    ASSUME NEW r, NEW s, Keeps(r, s)
    PROVE  Alike(r, s)
  BY DEF Keeps, Alike

LEMMA CreateSound ==
    ASSUME Sound, NEW v \in Fields, Create(v)
    PROVE  After
  <1>1. PICK r : r = IF v \in Idx THEN Unrooted(Cur, v) ELSE Cur
    OBVIOUS
  <1>2. Good(r) /\ r.len = Cur.len /\ r.free = Cur.free /\ \A j \in Idx : r.root[j] <= Cur.root[j]
    <2>0. \A j \in Idx : Cur.root[j] \in Nat
      BY SoundFacts, RegistryFields
    <2>1. CASE v \in Idx
      <3>1. Cur.root[v] > 0
        BY <2>1 DEF Create
      <3>2. Good(Unrooted(Cur, v))
        BY <2>1, <3>1, SoundFacts, CountsGood
      <3>3. /\ Unrooted(Cur, v).len = Cur.len /\ Unrooted(Cur, v).free = Cur.free
            /\ \A j \in Idx : Unrooted(Cur, v).root[j] = IF j = v THEN Cur.root[j] - 1 ELSE Cur.root[j]
        BY <2>1, <3>1, SoundFacts, UnrootedEffect
      <3>4. \A j \in Idx : Unrooted(Cur, v).root[j] <= Cur.root[j]
        BY <2>0, <3>3
      <3> QED
        BY <1>1, <2>1, <3>2, <3>3, <3>4
    <2>2. CASE v \notin Idx
      BY <1>1, <2>0, <2>2, SoundFacts
    <2> QED
      BY <2>1, <2>2
  <1>3. PICK n : n = NextIdx(r)
    OBVIOUS
  <1>4. n = NextIdx(Cur) /\ HasRoom(r) /\ Cur.root[n] < MaxRoots
    BY <1>2, <1>3 DEF Create, NextIdx, HasRoom
  <1>5. PICK c : c = Created(r, v)
    OBVIOUS
  <1>6. n \in Idx /\ Good(c) /\ c.root = r.root
    BY <1>2, <1>3, <1>4, <1>5, CreatedEffect DEF Good
  <1>7. c.root[n] < MaxRoots
    <2>1. r.root[n] <= Cur.root[n] /\ r.root[n] \in Nat /\ Cur.root[n] \in Nat
      BY <1>2, <1>6, SoundFacts, RegistryFields DEF Good
    <2> QED
      BY <1>4, <1>6, <2>1, RegistryConstants
  <1>8. PICK s : s = Rooted(c, n)
    OBVIOUS
  <1>9. Good(s)
    BY <1>6, <1>7, <1>8, CountsGood
  <1>10. regs' = [regs EXCEPT ![Top] = s]
    BY <1>1, <1>3, <1>5, <1>8 DEF Create, SetCur
  <1>11. /\ px' \in [Proxies -> ProxySet(Top)] /\ obj' \in Int /\ dead' \in BOOLEAN /\ tainted' \in BOOLEAN
    BY SoundFacts DEF Create
  <1>12. Top \in 1 .. Top
    BY SoundFacts
  <1> QED
    BY <1>9, <1>10, <1>11, <1>12, EditedLevel

LEMMA DupSound ==
    ASSUME Sound, NEW i \in Idx, Dup(i)
    PROVE  After
  <1>1. Cur.root[i] < MaxRoots /\ Good(Cur)
    <2>1. Cur.root[i] \in 1 .. (MaxRoots - 1)
      BY DEF Dup
    <2> QED
      BY <2>1, SoundFacts, RegistryConstants
  <1>2. Good(Rooted(Cur, i))
    BY <1>1, CountsGood
  <1>3. Good(Incref(Rooted(Cur, i), i))
    BY <1>2, CountsGood
  <1>4. /\ px' \in [Proxies -> ProxySet(Top)] /\ obj' \in Int /\ dead' \in BOOLEAN /\ tainted' \in BOOLEAN
        /\ regs' = [regs EXCEPT ![Top] = Incref(Rooted(Cur, i), i)] /\ Top \in 1 .. Top
    BY SoundFacts DEF Dup, SetCur
  <1> QED
    BY <1>3, <1>4, EditedLevel

\* A release at level l, after an edit that changed no field of what is live there.
LEMMA AppliedLevel ==
    ASSUME Sound, NEW l \in 1 .. Top, NEW m \in Releases, Good(m.r), Apply(l, m), l = Top \/ Alike(regs[l], m.r),
           px' \in [Proxies -> ProxySet(Top)], tainted' \in BOOLEAN
    PROVE  After
  <1>1. m.obj \in Int /\ m.dead \in BOOLEAN
    BY DEF Releases
  <1>2. obj' \in Int /\ dead' \in BOOLEAN /\ regs' = [regs EXCEPT ![l] = m.r]
    BY <1>1, SoundFacts DEF Apply
  <1> QED
    BY <1>2, EditedLevel

LEMMA ReleaseSound ==
    ASSUME Sound, NEW i \in Idx, Release(i)
    PROVE  After
  <1>1. PICK r : r = Unrooted(Cur, i)
    OBVIOUS
  <1>2. Good(r)
    BY <1>1, SoundFacts, CountsGood DEF Release
  <1>3. PICK m : m = Released(r, obj, i)
    OBVIOUS
  <1>4. m \in Releases /\ Good(m.r)
    BY <1>2, <1>3, IdxFacts, SoundFacts, ReleasedEffect
  <1>5. /\ Apply(Top, m) /\ px' \in [Proxies -> ProxySet(Top)] /\ tainted' \in BOOLEAN /\ Top \in 1 .. Top
    BY <1>1, <1>3, SoundFacts DEF Release
  <1> QED
    BY <1>4, <1>5, AppliedLevel

LEMMA GetFieldSound ==
    ASSUME Sound, NEW i \in Idx, GetField(i)
    PROVE  After
  <1>1. PICK j : j = Cur.slot[i].field
    OBVIOUS
  <1>2. j \in Idx /\ Cur.root[j] < MaxRoots /\ Cur.root[i] > 0
    BY <1>1 DEF GetField, Live
  <1>3. PICK a : a = Rooted(Cur, j)
    OBVIOUS
  <1>4. Good(a) /\ a.root[i] > 0
    <2>1. Good(a)
      BY <1>2, <1>3, SoundFacts, CountsGood
    <2>2. a.root[i] = IF i = j THEN Cur.root[i] + 1 ELSE Cur.root[i]
      BY <1>2, <1>3, SoundFacts, RootedEffect
    <2>3. Cur.root[i] \in Nat
      BY SoundFacts, RegistryFields
    <2> QED
      BY <1>2, <2>1, <2>2, <2>3
  <1>5. PICK b : b = Incref(a, j)
    OBVIOUS
  <1>6. Good(b) /\ b.root[i] > 0
    <2>1. Good(b)
      BY <1>2, <1>4, <1>5, CountsGood
    <2>2. b.root = a.root
      BY <1>2, <1>4, <1>5, IncrefEffect DEF Good
    <2> QED
      BY <1>4, <2>1, <2>2
  <1>7. PICK r : r = Unrooted(b, i)
    OBVIOUS
  <1>8. Good(r)
    BY <1>6, <1>7, CountsGood
  <1>9. PICK m : m = Released(r, obj, i)
    OBVIOUS
  <1>10. m \in Releases /\ Good(m.r)
    BY <1>8, <1>9, IdxFacts, SoundFacts, ReleasedEffect
  <1>11. /\ Apply(Top, m) /\ px' \in [Proxies -> ProxySet(Top)] /\ tainted' \in BOOLEAN /\ Top \in 1 .. Top
    BY <1>1, <1>3, <1>5, <1>7, <1>9, SoundFacts DEF GetField
  <1> QED
    BY <1>10, <1>11, AppliedLevel

\* SetField, its intermediate registries named.
LEMMA SetFieldIs ==
    ASSUME NEW i, NEW v, SetField(i, v), NEW a, a = IF v \in Idx THEN Unrooted(Cur, v) ELSE Cur,
           NEW u, u = Unrooted(WithField(a, i, v), i), NEW o, o = (IF v = Obj THEN obj + 1 ELSE obj),
           NEW m, m = Released(u, o, Cur.slot[i].field), NEW n, n = Released(m.r, m.obj, i)
    PROVE  Apply(Top, [n EXCEPT !.dead = @ \/ m.dead])
  BY Zenon DEF SetField, WithField

LEMMA SetFieldSound ==
    ASSUME Sound, NEW i \in Idx, NEW v \in Fields, SetField(i, v)
    PROVE  After
  <1>1. PICK a : a = IF v \in Idx THEN Unrooted(Cur, v) ELSE Cur
    OBVIOUS
  <1>2. Good(a) /\ a.root[i] > 0
    <2>1. CASE v \in Idx
      <3>1. Cur.root[v] > 0 /\ v # i
        BY <2>1, ChainFacts DEF SetField
      <3>2. Good(Unrooted(Cur, v))
        BY <2>1, <3>1, SoundFacts, CountsGood
      <3>3. Unrooted(Cur, v).root[i] = Cur.root[i]
        BY <2>1, <3>1, SoundFacts, UnrootedEffect
      <3> QED
        BY <1>1, <2>1, <3>2, <3>3 DEF SetField
    <2>2. CASE v \notin Idx
      BY <1>1, <2>2, SoundFacts DEF SetField
    <2> QED
      BY <2>1, <2>2
  <1>3. PICK r : r = WithField(a, i, v)
    OBVIOUS
  <1>4. Good(r) /\ r.root[i] > 0
    <2>1. Good(r) /\ r.root = a.root
      BY <1>2, <1>3, WithFieldEffect
    <2> QED
      BY <1>2, <2>1
  <1>5. PICK u : u = Unrooted(r, i)
    OBVIOUS
  <1>6. Good(u)
    BY <1>4, <1>5, CountsGood
  <1>7. PICK o \in Int : o = IF v = Obj THEN obj + 1 ELSE obj
    BY SoundFacts
  <1>8. PICK f \in Fields : f = Cur.slot[i].field
    BY SoundFacts, RegistryFields
  <1>9. PICK m : m = Released(u, o, f)
    OBVIOUS
  <1>10. m \in Releases /\ Good(m.r) /\ m.obj \in Int /\ m.dead \in BOOLEAN
    BY <1>6, <1>9, ReleasedEffect
  <1>11. PICK n : n = Released(m.r, m.obj, i)
    OBVIOUS
  <1>12. n \in Releases /\ Good(n.r)
    BY <1>10, <1>11, IdxFacts, ReleasedEffect
  <1>13. PICK d \in BOOLEAN : d = (n.dead \/ m.dead)
    OBVIOUS
  <1>14. PICK e : e = [n EXCEPT !.dead = d]
    OBVIOUS
  <1>15. e \in Releases /\ e.r = n.r
    BY <1>12, <1>14 DEF Releases
  <1>16. Apply(Top, e)
    <2>1. Apply(Top, [n EXCEPT !.dead = @ \/ m.dead])
      BY <1>1, <1>3, <1>5, <1>7, <1>8, <1>9, <1>11, SetFieldIs
    <2>2. [n EXCEPT !.dead = @ \/ m.dead] = e
      BY <1>12, <1>13, <1>14 DEF Releases
    <2> QED
      BY <2>1, <2>2
  <1>17. px' \in [Proxies -> ProxySet(Top)] /\ tainted' \in BOOLEAN /\ Top \in 1 .. Top
    BY SoundFacts DEF SetField
  <1> QED
    BY <1>12, <1>15, <1>16, <1>17, AppliedLevel

LEMMA ExportSound ==
    ASSUME Sound, NEW i \in Idx, Export(i)
    PROVE  After
  <1>1. PICK S : S = Chain(Cur, i)
    OBVIOUS
  <1>2. S \subseteq Idx /\ Cardinality(S) <= Cardinality(Unused)
    BY <1>1, ChainFacts DEF Export
  <1>3. PICK g : g = OneGiving(S)
    OBVIOUS
  <1>4. g \in [S -> Proxies]
    BY <1>2, <1>3, GivenProxies
  <1>5. px' = Named(px, Top, g)
    BY <1>1, <1>3 DEF Export
  <1>6. px' \in [Proxies -> ProxySet(Top)]
    BY <1>2, <1>4, <1>5, SoundFacts, NamedEffect
  <1>7. PICK s : s = WithProxies(Cur, S)
    OBVIOUS
  <1>8. Good(s)
    BY <1>7, SoundFacts, WithProxiesEffect
  <1>9. /\ obj' \in Int /\ dead' \in BOOLEAN /\ tainted' \in BOOLEAN
        /\ regs' = [regs EXCEPT ![Top] = s] /\ Top \in 1 .. Top
    BY <1>1, <1>7, SoundFacts DEF Export, SetCur
  <1> QED
    BY <1>6, <1>8, <1>9, EditedLevel

LEMMA ImportTrustedSound ==
    ASSUME Sound, NEW x \in Proxies, ImportTrusted(x)
    PROVE  After
  <1>1. PICK i \in Idx : i = px[x].idx
    BY ProxyFacts
  <1>2. Good(Rooted(Cur, i))
    BY <1>1, SoundFacts, CountsGood DEF ImportTrusted
  <1>3. Good(Incref(Rooted(Cur, i), i))
    BY <1>2, CountsGood
  <1>4. /\ px' \in [Proxies -> ProxySet(Top)] /\ obj' \in Int /\ dead' \in BOOLEAN /\ tainted' \in BOOLEAN
        /\ regs' = [regs EXCEPT ![Top] = Incref(Rooted(Cur, i), i)] /\ Top \in 1 .. Top
    BY <1>1, SoundFacts DEF ImportTrusted, SetCur
  <1> QED
    BY <1>3, <1>4, EditedLevel

\* The struct of an orphan, created anew.
LEMMA RecreatedGood ==
    ASSUME Sound, HasRoom(Cur), Cur.root[NextIdx(Cur)] < MaxRoots, NEW v \in Fields
    PROVE  Good(Recreated(v)) /\ NextIdx(Cur) \in Idx
  <1>1. PICK n : n = NextIdx(Cur)
    OBVIOUS
  <1>2. PICK c : c = Created(Cur, v)
    OBVIOUS
  <1>3. n \in Idx /\ Good(c) /\ c.root = Cur.root
    BY <1>1, <1>2, SoundFacts, CreatedEffect DEF Good
  <1>4. Good(Rooted(c, n))
    BY <1>1, <1>3, CountsGood
  <1>5. Good(Incref(Rooted(c, n), n))
    BY <1>3, <1>4, CountsGood
  <1> QED
    BY <1>1, <1>2, <1>3, <1>5 DEF Recreated

LEMMA SlotReleasedEffect ==
    ASSUME NEW r, Good(r), NEW o \in Int, NEW i \in Idx
    PROVE  LET m == SlotReleased(r, o, i)
           IN  m \in Releases /\ Good(m.r) /\ m.obj \in Int /\ m.dead \in BOOLEAN /\ Keeps(r, m.r)
  <1>1. PICK v \in Fields : v = IF r.slot[i].live THEN i ELSE Nil
    BY IdxFacts
  <1>2. SlotReleased(r, o, i) = Released(r, o, v)
    BY <1>1 DEF SlotReleased
  <1> QED
    BY <1>2, ReleasedEffect

LEMMA ProxyMoved ==
    ASSUME Sound, NEW x \in Proxies, NEW n \in Idx
    PROVE  [px EXCEPT ![x].at = Top, ![x].idx = n] \in [Proxies -> ProxySet(Top)]
  <1>1. PICK l : l = Top
    OBVIOUS
  <1>2. l \in 0 .. l
    BY <1>1, SoundFacts
  <1>3. PICK p : p = [px[x] EXCEPT !.at = l, !.idx = n]
    OBVIOUS
  <1>4. px[x] \in ProxySet(l) /\ px \in [Proxies -> ProxySet(l)]
    BY <1>1, SoundFacts, ProxyFacts
  <1>5. p \in ProxySet(l)
    BY <1>2, <1>3, <1>4 DEF ProxySet
  <1>6. [px EXCEPT ![x].at = l, ![x].idx = n] = [px EXCEPT ![x] = p]
    BY <1>3, <1>4 DEF ProxySet
  <1>7. [px EXCEPT ![x] = p] \in [Proxies -> ProxySet(l)]
    BY <1>4, <1>5
  <1> QED
    BY <1>1, <1>6, <1>7

LEMMA ImportOrphanSound ==
    ASSUME Sound, NEW x \in Proxies, NEW v \in Fields, ImportOrphan(x, v)
    PROVE  After
  <1>1. PICK n : n = NextIdx(Cur)
    OBVIOUS
  <1>2. PICK s : s = Recreated(v)
    OBVIOUS
  <1>3. n \in Idx /\ Good(s)
    BY <1>1, <1>2, RecreatedGood DEF ImportOrphan
  <1>4. PICK o \in Int : o = IF v = Obj THEN obj + 1 ELSE obj
    BY SoundFacts
  <1>5. PICK old : old = px[x].at
    OBVIOUS
  <1>6. PICK rs : rs = [regs EXCEPT ![Top] = s]
    OBVIOUS
  <1>7. PICK i \in Idx : i = px[x].idx
    BY ProxyFacts
  <1>8. px' \in [Proxies -> ProxySet(Top)] /\ tainted' \in BOOLEAN
    <2>1. px' = [px EXCEPT ![x].at = Top, ![x].idx = n] /\ tainted' = tainted
      BY <1>1 DEF ImportOrphan
    <2> QED
      BY <1>3, <2>1, ProxyMoved, SoundFacts
  <1>9. Top \in 1 .. Top /\ old \in 0 .. Top /\ dead \in BOOLEAN /\ Levels(regs) /\ DOMAIN regs = 1 .. Top
    BY <1>5, SoundFacts, ProxyFacts
  <1>10. CASE old = 0
    <2>1. regs' = rs /\ obj' = o /\ dead' = dead
      BY <1>2, <1>4, <1>5, <1>6, <1>10 DEF ImportOrphan
    <2> QED
      BY <1>3, <1>6, <1>8, <1>9, <2>1, EditedLevel
  <1>11. CASE old # 0
    <2>1. PICK m : m = SlotReleased(rs[old], o, i)
      OBVIOUS
    <2>2. regs' = [rs EXCEPT ![old] = m.r] /\ obj' = m.obj /\ dead' = (dead \/ m.dead)
      BY <1>2, <1>4, <1>5, <1>6, <1>7, <1>11, <2>1 DEF ImportOrphan
    <2>3. old \in 1 .. Top
      BY <1>9, <1>11
    <2>4. Levels(rs) /\ \A k \in 1 .. Top : rs[k] = IF k = Top THEN s ELSE regs[k]
      BY <1>3, <1>6, <1>9, Edited DEF Top
    <2>5. Good(rs[old])
      BY <1>3, <2>3, <2>4, SoundFacts
    <2>6. m \in Releases /\ Good(m.r) /\ m.obj \in Int /\ m.dead \in BOOLEAN /\ Keeps(rs[old], m.r)
      BY <2>1, <2>5, SlotReleasedEffect
    <2>7. CASE old = Top
      <3>1. regs' = [regs EXCEPT ![Top] = m.r]
        BY <1>6, <1>9, <2>2, <2>7
      <3> QED
        BY <1>8, <1>9, <2>2, <2>6, <3>1, EditedLevel
    <2>8. CASE old # Top
      <3>1. PICK R : R = [regs EXCEPT ![old] = m.r]
        OBVIOUS
      <3>2. regs' = [R EXCEPT ![Top] = s]
        BY <1>6, <1>9, <2>2, <2>8, <3>1
      <3>3. Keeps(regs[old], m.r)
        BY <2>3, <2>4, <2>6, <2>8
      <3>4. Apart(regs, R) /\ Levels(R) /\ Len(R) = Top
        <4>1. old \in 1 .. Len(regs) /\ Alike(regs[old], m.r)
          BY <2>3, <3>3, KeepsAlike DEF Top
        <4>2. Apart(regs, R)
          BY <1>9, <2>6, <3>1, <4>1, ApartEdit
        <4>3. Levels(R) /\ Len(R) = Len(regs)
          BY <1>9, <2>6, <3>1, <4>1, Edited
        <4> QED
          BY <4>2, <4>3 DEF Top
      <3>5. Levels(regs') /\ Len(regs') = Top /\ \A k \in 1 .. Top : regs'[k] = IF k = Top THEN s ELSE R[k]
        <4>1. Levels(R) /\ Top \in 1 .. Len(R) /\ Good(s)
          BY <1>3, <1>9, <3>4
        <4>2. /\ Levels([R EXCEPT ![Top] = s]) /\ Len([R EXCEPT ![Top] = s]) = Len(R)
              /\ \A k \in 1 .. Len(R) : [R EXCEPT ![Top] = s][k] = IF k = Top THEN s ELSE R[k]
          BY <4>1, Edited
        <4> QED
          BY <3>2, <3>4, <4>2
      <3>6. Apart(regs, regs')
        <4>1. Top \in Nat /\ Top = Len(regs)
          BY SoundFacts DEF Top
        <4>2. \A k \in 1 .. (Len(regs) - 1) : regs'[k] = R[k]
          BY <3>5, <4>1
        <4> QED
          BY <3>4, <4>2 DEF Apart
      <3>7. Len(regs') \in 1 .. MaxDepth /\ px' \in [Proxies -> ProxySet(Len(regs'))]
        BY <1>8, <3>5 DEF Sound, State, Top
      <3> QED
        BY <1>8, <1>9, <2>2, <2>6, <3>5, <3>6, <3>7 DEF After, State
    <2> QED
      BY <2>7, <2>8
  <1> QED
    BY <1>10, <1>11

LEMMA DropProxySound ==
    ASSUME Sound, NEW x \in Proxies, DropProxy(x)
    PROVE  After
  <1>1. px' \in [Proxies -> ProxySet(Top)] /\ tainted' \in BOOLEAN
    <2>1. px' = [px EXCEPT ![x] = NoProxy] /\ tainted' = tainted
      BY DEF DropProxy
    <2>2. NoProxy \in ProxySet(Top)
      BY IdxFacts, SoundFacts DEF NoProxy, ProxySet
    <2> QED
      BY <2>1, <2>2, SoundFacts
  <1>2. CASE px[x].at = 0
    BY <1>1, <1>2, Unmoved, SoundFacts DEF DropProxy
  <1>3. CASE px[x].at # 0
    <2>1. PICK l : l = px[x].at
      OBVIOUS
    <2>2. PICK i \in Idx : i = px[x].idx
      BY ProxyFacts
    <2>3. l \in 1 .. Top
      BY <1>3, <2>1, ProxyFacts, SoundFacts
    <2>4. PICK m : m = SlotReleased(regs[l], obj, i)
      OBVIOUS
    <2>5. Apply(l, m)
      BY <1>3, <2>1, <2>2, <2>4 DEF DropProxy
    <2>6. m \in Releases /\ Good(m.r) /\ Alike(regs[l], m.r)
      BY <2>3, <2>4, SoundFacts, SlotReleasedEffect, KeepsAlike
    <2> QED
      BY <1>1, <2>3, <2>5, <2>6, AppliedLevel
  <1> QED
    BY <1>2, <1>3

LEMMA CallSound ==
    ASSUME Sound, Call
    PROVE  After
  <1>1. PICK s : s = CloneOf(Cur)
    OBVIOUS
  <1>2. Good(s)
    BY <1>1, SoundFacts, CloneEffect
  <1>3. Levels(regs) /\ Top = Len(regs) /\ Top \in Nat /\ Top >= 1 /\ Top < MaxDepth /\ MaxDepth \in Nat
    BY SoundFacts, RegistryConstants DEF Call, Top
  <1>4. regs' = Append(regs, s)
    BY <1>1 DEF Call
  <1>5. Levels(regs') /\ Len(regs') = Top + 1 /\ \A k \in 1 .. Top : regs'[k] = regs[k]
    BY <1>2, <1>3, <1>4, Pushed
  <1>6. Apart(regs, regs')
    <2>1. \A k \in 1 .. (Len(regs) - 1) : regs'[k] = regs[k]
      BY <1>3, <1>5
    <2> QED
      BY <2>1 DEF Apart
  <1>7. px' \in [Proxies -> ProxySet(Top + 1)]
    <2>1. 0 .. Top \subseteq 0 .. (Top + 1)
      BY <1>3
    <2>2. ProxySet(Top) \subseteq ProxySet(Top + 1)
      BY <2>1 DEF ProxySet
    <2>3. px' = px /\ px \in [Proxies -> ProxySet(Top)]
      BY SoundFacts DEF Call
    <2>4. \A x \in Proxies : px[x] \in ProxySet(Top + 1)
      BY <2>2, <2>3
    <2> QED
      BY <2>3, <2>4
  <1>8. ObjFields(Cur, Live(Cur)) \in Int
    <2>1. Live(Cur) \subseteq Idx
      BY DEF Live
    <2>2. {i \in Live(Cur) : Cur.slot[i].field = Obj} \subseteq Idx
      BY <2>1
    <2> QED
      BY <2>2, IdxFinite DEF ObjFields
  <1>9. obj' \in Int /\ dead' \in BOOLEAN /\ tainted' \in BOOLEAN
    BY <1>8, SoundFacts DEF Call
  <1>10. Top + 1 \in 1 .. MaxDepth
    BY <1>3
  <1> QED
    BY <1>5, <1>6, <1>7, <1>9, <1>10 DEF After, State

LEMMA DroppedObjects ==
    ASSUME NEW o \in Int
    PROVE  ObjAfterDrop(o) \in Int
  <1>1. {i \in {j \in Live(Cur) : Cur.slot[j].snap} : Cur.slot[i].field = Obj} \subseteq Idx
    BY DEF Live
  <1>2. ObjFields(Cur, {j \in Live(Cur) : Cur.slot[j].snap}) \in Int
    BY <1>1, IdxFinite DEF ObjFields
  <1> QED
    BY <1>2 DEF ObjAfterDrop

\* What the caller keeps, and what it gets.
LEMMA TransplantAlike ==
    ASSUME Good(Caller), Good(Cur)
    PROVE  Good(Transplanted) /\ \A j \in Idx : Caller.slot[j].live => Transplanted.slot[j] = Caller.slot[j]
  <1>1. \A j \in Idx : Caller.slot[j].live => j \notin Fresh
    BY FreshFacts
  <1> QED
    BY <1>1, TransplantedEffect

LEMMA ReturnOtherSound ==
    ASSUME Sound, ReturnOther
    PROVE  After
  <1>1. PICK s : s = Transplanted
    OBVIOUS
  <1>2. Top > 1 /\ Good(Caller) /\ Good(Cur)
    BY SoundFacts DEF ReturnOther
  <1>3. Good(s) /\ Alike(Caller, s)
    BY <1>1, <1>2, TransplantAlike DEF Alike
  <1>4. regs' = [Front(regs) EXCEPT ![Top - 1] = s]
    BY <1>1 DEF ReturnOther
  <1>5. px' \in [Proxies -> ProxySet(Top - 1)]
    BY <1>2, SoundFacts, ReanchoredEffect DEF ReturnOther
  <1>6. obj' \in Int /\ dead' \in BOOLEAN /\ tainted' \in BOOLEAN
    BY SoundFacts, DroppedObjects DEF ReturnOther
  <1> QED
    BY <1>2, <1>3, <1>4, <1>5, <1>6, ReturnedLevel

LEMMA FailSound ==
    ASSUME Sound, Fail
    PROVE  After
  <1>1. Levels(regs) /\ Top = Len(regs) /\ Top \in Nat /\ Top > 1 /\ Top <= MaxDepth /\ MaxDepth \in Nat
    BY SoundFacts, RegistryConstants DEF Fail, Top
  <1>2. regs' = Front(regs)
    BY DEF Fail
  <1>3. Levels(regs') /\ Len(regs') = Top - 1 /\ \A k \in 1 .. (Top - 1) : regs'[k] = regs[k]
    BY <1>1, <1>2, Popped
  <1>4. Apart(regs, regs')
    BY <1>1, <1>3 DEF Apart
  <1>5. px' \in [Proxies -> ProxySet(Top - 1)]
    <2>1. \A x \in Proxies : Forgotten(px[x]) \in ProxySet(Top - 1)
      BY <1>1, ProxyFacts, ForgottenEffect
    <2> QED
      BY <2>1 DEF Fail
  <1>6. obj' \in Int /\ dead' \in BOOLEAN /\ tainted' \in BOOLEAN
    BY SoundFacts, DroppedObjects DEF Fail
  <1>7. Top - 1 \in 1 .. MaxDepth
    BY <1>1
  <1> QED
    BY <1>3, <1>4, <1>5, <1>6, <1>7 DEF After, State

SameSnaps(r, s, n) == \A j \in Idx : j # n => s.slot[j].snap = r.slot[j].snap

LEMMA MaterializedEffect ==
    ASSUME NEW r, Good(r), HasRoom(r), NEW i \in Idx, Cur.slot[i].field \in Fields
    PROVE  LET s == Materialized(r, i)
               f == Cur.slot[i].field
               n == NextIdx(r)
           IN  /\ Good(s) /\ n \in Idx /\ ~r.slot[n].live /\ s.root = r.root
               /\ s.slot[n] = Slot(1, f, FALSE)
               /\ \A j \in Idx : j # n => /\ s.slot[j].live = r.slot[j].live /\ s.slot[j].field = r.slot[j].field
                                          /\ s.slot[j].rc = IF j = f THEN r.slot[j].rc + 1 ELSE r.slot[j].rc
               /\ SameSnaps(r, s, n)
  <1>1. PICK f \in Fields : f = Cur.slot[i].field
    OBVIOUS
  <1>2. PICK a : a = IF f \in Idx THEN Incref(r, f) ELSE r
    OBVIOUS
  <1>3. /\ Good(a) /\ a.len = r.len /\ a.free = r.free /\ a.root = r.root
        /\ \A j \in Idx : /\ a.slot[j].live = r.slot[j].live /\ a.slot[j].field = r.slot[j].field
                          /\ a.slot[j].snap = r.slot[j].snap
                          /\ a.slot[j].rc = IF j = f THEN r.slot[j].rc + 1 ELSE r.slot[j].rc
    <2>1. CASE f \in Idx
      <3>1. a = Incref(r, f)
        BY <1>2, <2>1
      <3>2. Good(a)
        BY <2>1, <3>1, CountsGood
      <3>3. /\ Incref(r, f).len = r.len /\ Incref(r, f).free = r.free /\ Incref(r, f).root = r.root
            /\ \A j \in Idx : /\ Incref(r, f).slot[j].live = r.slot[j].live /\ Incref(r, f).slot[j].field = r.slot[j].field
                              /\ Incref(r, f).slot[j].snap = r.slot[j].snap
                              /\ Incref(r, f).slot[j].rc = IF j = f THEN r.slot[j].rc + 1 ELSE r.slot[j].rc
        <4>1. r \in Registries
          BY DEF Good
        <4> QED
          BY <2>1, <4>1, IncrefEffect
      <3> QED
        BY <3>1, <3>2, <3>3
    <2>2. CASE f \notin Idx
      BY <1>2, <2>2
    <2> QED
      BY <2>1, <2>2
  <1>4. HasRoom(a) /\ NextIdx(a) = NextIdx(r)
    BY <1>3 DEF HasRoom, NextIdx
  <1>5. PICK s : s = Created(a, f)
    OBVIOUS
  <1>6. s = Materialized(r, i)
    BY <1>1, <1>2, <1>5 DEF Materialized
  <1>7. PICK n : n = NextIdx(r)
    OBVIOUS
  <1>8. /\ n \in Idx /\ ~a.slot[n].live /\ Good(s) /\ s.root = a.root
        /\ \A j \in Idx : s.slot[j] = IF j = n THEN Slot(1, f, FALSE) ELSE a.slot[j]
    <2>1. a \in Registries /\ Exact(a) /\ HasRoom(a) /\ n = NextIdx(a)
      BY <1>3, <1>4, <1>7 DEF Good
    <2> QED
      BY <1>5, <2>1, CreatedEffect DEF Good
  <1>9. /\ ~r.slot[n].live /\ s.root = r.root /\ s.slot[n] = Slot(1, f, FALSE)
        /\ \A j \in Idx : j # n => s.slot[j] = a.slot[j]
    BY <1>3, <1>8
  <1>10. \A j \in Idx : j # n => /\ s.slot[j].live = r.slot[j].live /\ s.slot[j].field = r.slot[j].field
                                  /\ s.slot[j].snap = r.slot[j].snap
                                  /\ s.slot[j].rc = IF j = f THEN r.slot[j].rc + 1 ELSE r.slot[j].rc
    BY <1>3, <1>9
  <1>11. SameSnaps(r, s, n)
    BY <1>10 DEF SameSnaps
  <1> QED
    BY <1>1, <1>6, <1>7, <1>8, <1>9, <1>10, <1>11

\* The caller's registry with the result in it, new or made from the caller's own.
Received(i) == IF i \in Fresh THEN Transplanted ELSE Materialized(Transplanted, i)
Result(i)   == IF i \in Fresh THEN i ELSE NextIdx(Transplanted)

LEMMA ReceivedAlike ==
    ASSUME Good(Caller), Good(Cur), NEW i \in Idx, i \notin Fresh => HasRoom(Transplanted)
    PROVE  Good(Received(i)) /\ Result(i) \in Idx /\ Alike(Caller, Received(i))
  <1>1. CASE i \in Fresh
    BY <1>1, TransplantAlike DEF Received, Result, Alike
  <1>2. CASE i \notin Fresh
    <2>1. PICK t : t = Transplanted
      OBVIOUS
    <2>2. Good(t) /\ HasRoom(t) /\ \A j \in Idx : Caller.slot[j].live => t.slot[j] = Caller.slot[j]
      BY <1>2, <2>1, TransplantAlike
    <2>3. Cur.slot[i].field \in Fields
      BY RegistryFields DEF Good
    <2>4. PICK s : s = Materialized(t, i)
      OBVIOUS
    <2>5. PICK n : n = NextIdx(t)
      OBVIOUS
    <2>6. /\ Good(s) /\ n \in Idx /\ ~t.slot[n].live
          /\ \A j \in Idx : j # n => s.slot[j].field = t.slot[j].field
      BY <2>2, <2>3, <2>4, <2>5, MaterializedEffect
    <2>7. Alike(Caller, s)
      BY <2>2, <2>6 DEF Alike
    <2> QED
      BY <1>2, <2>1, <2>4, <2>5, <2>6, <2>7 DEF Received, Result
  <1> QED
    BY <1>1, <1>2

LEMMA ReturnStructSound ==
    ASSUME Sound, NEW i \in Idx, ReturnStruct(i)
    PROVE  After
  <1>1. Top > 1 /\ Good(Caller) /\ Good(Cur) /\ (i \notin Fresh => HasRoom(Transplanted))
    BY SoundFacts DEF ReturnStruct
  <1>2. PICK r : r = Received(i)
    OBVIOUS
  <1>3. PICK k : k = Result(i)
    OBVIOUS
  <1>4. Good(r) /\ k \in Idx /\ Alike(Caller, r)
    BY <1>1, <1>2, <1>3, ReceivedAlike
  <1>5. PICK S : S = Chain(r, k)
    OBVIOUS
  <1>6. S \subseteq Idx
    BY <1>4, <1>5, ChainFacts
  <1>7. PICK w : w = WithProxies(r, S)
    OBVIOUS
  <1>8. /\ Good(w) /\ \A j \in Idx : w.slot[j].live = r.slot[j].live /\ w.slot[j].field = r.slot[j].field
    BY <1>4, <1>7, WithProxiesEffect
  <1>9. PICK o \in Int : o = IF ~(i \in Fresh) /\ Cur.slot[i].field = Obj THEN obj + 1 ELSE obj
    BY SoundFacts
  <1>10. PICK m : m = VmCount(w, o, k)
    OBVIOUS
  <1>11. m \in Releases /\ Good(m.r) /\ m.obj \in Int /\ m.dead \in BOOLEAN /\ Keeps(w, m.r)
    BY <1>4, <1>8, <1>10, SlotReleasedEffect DEF VmCount
  <1>12. /\ Cardinality(S) <= Cardinality(Unused)
         /\ regs' = [Front(regs) EXCEPT ![Top - 1] = m.r]
         /\ obj' = ObjAfterDrop(m.obj)
         /\ dead' = (dead \/ m.dead \/ ~(S \subseteq Live(r)))
         /\ px' = Named(Reanchored, Top - 1, OneGiving(S))
         /\ tainted' = (tainted \/ Taints(FALSE))
    BY <1>2, <1>3, <1>5, <1>7, <1>9, <1>10 DEF ReturnStruct, Received, Result
  <1>13. Alike(Caller, m.r)
    BY <1>4, <1>8, <1>11 DEF Alike, Keeps
  <1>14. px' \in [Proxies -> ProxySet(Top - 1)]
    <2>1. PICK n \in Nat : n = Top - 1 /\ n \in 1 .. n
      BY <1>1, SoundFacts
    <2>2. Reanchored \in [Proxies -> ProxySet(n)]
      BY <1>1, <2>1, SoundFacts, ReanchoredEffect
    <2>3. PICK g : g = OneGiving(S)
      OBVIOUS
    <2>4. g \in [S -> Proxies]
      BY <1>6, <1>12, <2>3, GivenProxies
    <2>5. PICK P : P = Reanchored
      OBVIOUS
    <2>6. Named(P, n, g) \in [Proxies -> ProxySet(n)]
      BY <1>6, <2>1, <2>2, <2>4, <2>5, NamedEffect
    <2> QED
      BY <1>12, <2>1, <2>3, <2>5, <2>6
  <1>15. obj' \in Int /\ dead' \in BOOLEAN /\ tainted' \in BOOLEAN
    BY <1>11, <1>12, DroppedObjects
  <1> QED
    BY <1>1, <1>11, <1>12, <1>13, <1>14, <1>15, ReturnedLevel

LEMMA InitSound ==
    ASSUME Init
    PROVE  Sound
  <1>1. PICK r : r = NewRegistry
    OBVIOUS
  <1>2. /\ r.slot \in [Idx -> Slots] /\ r.len = 0 /\ r.free = <<>> /\ r.root \in [Idx -> 0 .. MaxRoots]
        /\ r \in Registries /\ \A i \in Idx : ~r.slot[i].live
    <2>1. 0 \in 0 .. MaxSlots /\ 0 \in 0 .. MaxRoots /\ <<>> \in Seq(Idx)
      BY RegistryConstants
    <2> QED
      BY <1>1, <2>1, FreeSlot DEF NewRegistry, Registries
  <1>3. Exact(r)
    <2>1. DOMAIN r.free = {} /\ ~(\E i \in Idx : Listed(r, i)) /\ \A i \in Idx : ~(i < r.len)
      BY <1>2, IdxFacts DEF Listed, Idx
    <2> QED
      BY <1>2, <2>1, ExactPoints
  <1>4. regs \in Seq(Registries) /\ Len(regs) = 1 /\ regs[1] = r
    BY <1>1, <1>2 DEF Init
  <1>5. Levels(regs)
    BY <1>3, <1>4 DEF Levels
  <1>6. NoProxy \in ProxySet(1)
    BY IdxFacts DEF NoProxy, ProxySet
  <1>7. 1 \in 1 .. MaxDepth
    BY RegistryConstants
  <1>8. px \in [Proxies -> ProxySet(1)] /\ obj = 0 /\ dead = FALSE /\ tainted = FALSE
    BY <1>6 DEF Init
  <1>9. px \in [Proxies -> ProxySet(Len(regs))] /\ Len(regs) \in 1 .. MaxDepth
    BY <1>4, <1>7, <1>8
  <1>10. obj \in Int
    BY DEF Init
  <1>11. dead \in BOOLEAN
    BY DEF Init
  <1>12. tainted \in BOOLEAN
    BY DEF Init
  <1> QED
    BY <1>5, <1>9, <1>10, <1>11, <1>12 DEF Sound, State

LEMMA StepSound ==
    ASSUME Sound, [Next]_vars
    PROVE  Sound' /\ [Apart(regs, regs')]_vars
  <1>1. CASE Next
    <2>1. After
      BY <1>1, IdxFacts, CreateSound, DupSound, ReleaseSound, GetFieldSound, ExportSound, ReturnStructSound,
         SetFieldSound, ImportTrustedSound, DropProxySound, ImportOrphanSound, CallSound, ReturnOtherSound, FailSound
         DEF Next, Step
    <2> QED
      BY <2>1 DEF After, Sound, State, Levels
  <1>2. CASE UNCHANGED vars
    BY <1>2 DEF vars, Sound, State, Levels
  <1> QED
    BY <1>1, <1>2

\* The inductive invariant of the shape: every reachable state is well typed, and in every
\* registry the free list is exact (create_instance and decref of structs.rs).
THEOREM SoundCorrect == Spec => []Sound
  <1>1. Init => Sound
    BY InitSound
  <1>2. Sound /\ [Next]_vars => Sound'
    BY StepSound
  <1> QED
    BY <1>1, <1>2, PTL DEF Spec

\* TypeOK, whatever the bounds: every registry on the stack, every proxy.
THEOREM TypeCorrect == Spec => []TypeOK
  <1>1. Sound => TypeOK
    BY DEF Sound, State, Levels, TypeOK, Top, ProxySet
  <1> QED
    BY <1>1, SoundCorrect, PTL

\* FreeListExact: in every registry, at any depth of calls, after frees, reuse and transplants
\* with holes in any order, the free list names each slot that can be reused once and no live one.
THEOREM FreeListCorrect == Spec => []FreeListExact
  <1>1. Sound => FreeListExact
    BY DEF Sound, State, Levels, Exact, FreeListExact, Top
  <1> QED
    BY <1>1, SoundCorrect, PTL

\* Isolated: no callee changes a field of a struct its caller keeps, by running, by returning
\* or by failing.
THEOREM IsolatedCorrect == Spec => Isolated
  <1>1. Sound /\ [Next]_vars => [\A l \in 1 .. (Top - 1), i \in Idx :
            regs[l].slot[i].live /\ regs'[l].slot[i].live => regs'[l].slot[i].field = regs[l].slot[i].field]_vars
    BY StepSound DEF Apart, Top
  <1> QED
    BY <1>1, SoundCorrect, PTL DEF Spec, Isolated
-----------------------------------------------------------------------------
\* Counting owners: the fields of a registry that hold i, and the references from outside it.

Holders(r, i) == {j \in Live(r) : r.slot[j].field = i}
Inner(r, i)   == Cardinality(Holders(r, i))
Outside       == [Idx -> Nat]
Plus(E, v)    == [i \in Idx |-> IF i = v THEN E[i] + 1 ELSE E[i]]
PlusAll(E, S) == [i \in Idx |-> IF i \in S THEN E[i] + 1 ELSE E[i]]
Balance(r, E, i) == /\ ~r.slot[i].live => r.slot[i].rc = 0 /\ Inner(r, i) = 0 /\ E[i] = 0
                    /\ r.slot[i].live => /\ r.slot[i].rc >= Inner(r, i) + E[i]
                                         /\ ~r.slot[i].snap => r.slot[i].rc = Inner(r, i) + E[i]
Counted(r, E) == \A i \in Idx : Balance(r, E, i)

LEMMA OneMore ==
    ASSUME NEW A, A \subseteq Idx, NEW B, B \subseteq Idx, NEW n \in Idx, n \notin A, B = A \cup {n}
    PROVE  Cardinality(B) = Cardinality(A) + 1 /\ Cardinality(A) \in Nat
  <1>1. IsFiniteSet(A) /\ Cardinality(A) \in Nat
    BY IdxFinite
  <1> QED
    BY <1>1, FS_AddElement

LEMMA InnerFacts ==
    ASSUME NEW r, NEW i
    PROVE  /\ Holders(r, i) \subseteq Idx /\ IsFiniteSet(Holders(r, i)) /\ Inner(r, i) \in Nat
           /\ Inner(r, i) = 0 <=> \A j \in Idx : ~(r.slot[j].live /\ r.slot[j].field = i)
  <1>1. Holders(r, i) \subseteq Idx
    BY DEF Holders, Live
  <1>2. IsFiniteSet(Holders(r, i)) /\ Inner(r, i) \in Nat
    BY <1>1, IdxFinite DEF Inner
  <1>3. Inner(r, i) = 0 <=> Holders(r, i) = {}
    BY <1>2, FS_EmptySet DEF Inner
  <1>4. Holders(r, i) = {} <=> \A j \in Idx : ~(r.slot[j].live /\ r.slot[j].field = i)
    BY DEF Holders, Live
  <1> QED
    BY <1>1, <1>2, <1>3, <1>4

LEMMA SameInner ==
    ASSUME NEW r, NEW s, \A j \in Idx : s.slot[j].live = r.slot[j].live,
           \A j \in Idx : r.slot[j].live => s.slot[j].field = r.slot[j].field
    PROVE  \A i : Inner(s, i) = Inner(r, i)
  <1>1. \A i : Holders(s, i) = Holders(r, i)
    BY DEF Holders, Live
  <1> QED
    BY <1>1 DEF Inner

\* One slot changes: its own reference is all that changes.
Holds(r, n, i) == IF r.slot[n].live /\ r.slot[n].field = i THEN 1 ELSE 0

Elsewhere(r, s, n) == \A j \in Idx : j # n => s.slot[j].live = r.slot[j].live /\ s.slot[j].field = r.slot[j].field

LEMMA OneHolder ==
    ASSUME NEW r, NEW s, NEW n \in Idx, NEW i, Elsewhere(r, s, n)
    PROVE  Inner(s, i) + Holds(r, n, i) = Inner(r, i) + Holds(s, n, i)
  <1> \A j \in Idx : j # n => s.slot[j].live = r.slot[j].live /\ s.slot[j].field = r.slot[j].field
    BY DEF Elsewhere
  <1>1. PICK A : A = Holders(r, i) \ {n}
    OBVIOUS
  <1>2. A \subseteq Idx /\ n \notin A /\ Cardinality(A) \in Nat
    BY <1>1, InnerFacts, IdxFinite
  <1>3. A = Holders(s, i) \ {n}
    BY <1>1 DEF Holders, Live
  <1>4. n \in Holders(r, i) <=> r.slot[n].live /\ r.slot[n].field = i
    BY DEF Holders, Live
  <1>5. n \in Holders(s, i) <=> s.slot[n].live /\ s.slot[n].field = i
    BY DEF Holders, Live
  <1>6. Inner(r, i) = Cardinality(A) + Holds(r, n, i)
    <2>1. CASE n \in Holders(r, i)
      <3>1. Holders(r, i) = A \cup {n} /\ Holders(r, i) \subseteq Idx
        BY <1>1, <2>1, InnerFacts
      <3>2. Cardinality(Holders(r, i)) = Cardinality(A) + 1
        BY <1>2, <3>1, OneMore
      <3> QED
        BY <1>4, <2>1, <3>2 DEF Inner, Holds
    <2>2. CASE n \notin Holders(r, i)
      <3>1. Holders(r, i) = A
        BY <1>1, <2>2
      <3> QED
        BY <1>2, <1>4, <2>2, <3>1 DEF Inner, Holds
    <2> QED
      BY <2>1, <2>2
  <1>7. Inner(s, i) = Cardinality(A) + Holds(s, n, i)
    <2>1. CASE n \in Holders(s, i)
      <3>1. Holders(s, i) = A \cup {n} /\ Holders(s, i) \subseteq Idx
        BY <1>3, <2>1, InnerFacts
      <3>2. Cardinality(Holders(s, i)) = Cardinality(A) + 1
        BY <1>2, <3>1, OneMore
      <3> QED
        BY <1>5, <2>1, <3>2 DEF Inner, Holds
    <2>2. CASE n \notin Holders(s, i)
      <3>1. Holders(s, i) = A
        BY <1>3, <2>2
      <3> QED
        BY <1>2, <1>5, <2>2, <3>1 DEF Inner, Holds
    <2> QED
      BY <2>1, <2>2
  <1>8. Holds(r, n, i) \in Nat /\ Holds(s, n, i) \in Nat
    BY DEF Holds
  <1> QED
    BY <1>2, <1>6, <1>7, <1>8

LEMMA PlusFacts ==
    ASSUME NEW E \in Outside
    PROVE  /\ \A i \in Idx : E[i] \in Nat
           /\ \A v : Plus(E, v) \in Outside /\ \A i \in Idx : Plus(E, v)[i] = IF i = v THEN E[i] + 1 ELSE E[i]
           /\ \A S : PlusAll(E, S) \in Outside /\ \A i \in Idx : PlusAll(E, S)[i] = IF i \in S THEN E[i] + 1 ELSE E[i]
  BY DEF Outside, Plus, PlusAll

LEMMA CountedSame ==
    ASSUME NEW r, NEW s, NEW E, NEW F, Counted(r, E), s.slot = r.slot, \A i \in Idx : F[i] = E[i]
    PROVE  Counted(s, F)
  <1>1. \A i : Inner(s, i) = Inner(r, i)
    BY DEF Inner, Holders, Live
  <1> QED
    BY <1>1 DEF Counted, Balance

LEMMA CountedLive ==
    ASSUME NEW r \in Registries, NEW E \in Outside, Counted(r, E), NEW i \in Idx, E[i] # 0
    PROVE  r.slot[i].live /\ r.slot[i].rc >= 1
  <1>1. Balance(r, E, i)
    BY DEF Counted
  <1>2. r.slot[i].live
    BY <1>1 DEF Balance
  <1>3. r.slot[i].rc >= Inner(r, i) + E[i]
    BY <1>1, <1>2 DEF Balance
  <1>4. Inner(r, i) \in Nat /\ E[i] \in Nat /\ r.slot[i].rc \in Int
    BY InnerFacts, PlusFacts, RegistryFields
  <1> QED
    BY <1>2, <1>3, <1>4

\* A struct held by a field is live.
LEMMA FieldLive ==
    ASSUME NEW r \in Registries, NEW E \in Outside, Counted(r, E), NEW i \in Idx, r.slot[i].live,
           r.slot[i].field \in Idx
    PROVE  r.slot[r.slot[i].field].live
  <1>1. PICK j \in Idx : j = r.slot[i].field
    OBVIOUS
  <1>2. Balance(r, E, j)
    BY DEF Counted
  <1>3. Inner(r, j) # 0
    BY <1>1, InnerFacts
  <1> QED
    BY <1>1, <1>2, <1>3 DEF Balance

LEMMA CountedIncref ==
    ASSUME NEW r \in Registries, NEW E \in Outside, Counted(r, E), NEW i \in Idx, r.slot[i].live
    PROVE  Counted(Incref(r, i), Plus(E, i))
  <1>1. PICK s : s = Incref(r, i)
    OBVIOUS
  <1>2. \A j \in Idx : /\ s.slot[j].live = r.slot[j].live /\ s.slot[j].field = r.slot[j].field
                       /\ s.slot[j].snap = r.slot[j].snap
                       /\ s.slot[j].rc = IF j = i THEN r.slot[j].rc + 1 ELSE r.slot[j].rc
    BY <1>1, IncrefEffect
  <1>3. \A j : Inner(s, j) = Inner(r, j)
    BY <1>2, SameInner
  <1>4. ASSUME NEW j \in Idx PROVE Balance(s, Plus(E, i), j)
    <2>1. Balance(r, E, j)
      BY DEF Counted
    <2>2. Inner(r, j) \in Nat /\ E[j] \in Nat /\ r.slot[j].rc \in Int
      BY InnerFacts, PlusFacts, RegistryFields
    <2>3. Plus(E, i)[j] = IF j = i THEN E[j] + 1 ELSE E[j]
      BY PlusFacts
    <2>4. Inner(s, j) = Inner(r, j)
      BY <1>3
    <2> QED
      BY <1>2, <2>1, <2>2, <2>3, <2>4 DEF Balance
  <1> QED
    BY <1>1, <1>4 DEF Counted

LEMMA CountedCreated ==
    ASSUME NEW r \in Registries, Exact(r), HasRoom(r), NEW E \in Outside, NEW f \in Fields, Counted(r, Plus(E, f))
    PROVE  /\ Counted(Created(r, f), Plus(E, NextIdx(r)))
           /\ Inner(Created(r, f), Obj) = Inner(r, Obj) + (IF f = Obj THEN 1 ELSE 0)
           /\ f # NextIdx(r)
  <1>1. PICK n : n = NextIdx(r)
    OBVIOUS
  <1>2. PICK s : s = Created(r, f)
    OBVIOUS
  <1>3. /\ n \in Idx /\ ~r.slot[n].live
        /\ \A j \in Idx : s.slot[j] = IF j = n THEN Slot(1, f, FALSE) ELSE r.slot[j]
    BY <1>1, <1>2, CreatedEffect
  <1>4. s.slot[n].live /\ s.slot[n].field = f /\ s.slot[n].rc = 1 /\ ~s.slot[n].snap
    BY <1>3, NewSlots
  <1>5. \A j \in Idx : j # n => s.slot[j].live = r.slot[j].live /\ s.slot[j].field = r.slot[j].field
    BY <1>3
  <1>6. \A i : Inner(s, i) = Inner(r, i) + (IF i = f THEN 1 ELSE 0)
    <2>1. SUFFICES ASSUME NEW i PROVE Inner(s, i) = Inner(r, i) + (IF i = f THEN 1 ELSE 0)
      OBVIOUS
    <2>2. Inner(s, i) + Holds(r, n, i) = Inner(r, i) + Holds(s, n, i)
      <3>1. Elsewhere(r, s, n)
        BY <1>3, <1>5 DEF Elsewhere
      <3> QED
        BY <1>3, <3>1, OneHolder
    <2>3. Holds(r, n, i) = 0
      BY <1>3 DEF Holds
    <2>4. Holds(s, n, i) = IF i = f THEN 1 ELSE 0
      BY <1>4 DEF Holds
    <2>5. Inner(s, i) \in Nat /\ Inner(r, i) \in Nat
      BY InnerFacts
    <2> QED
      BY <2>2, <2>3, <2>4, <2>5
  <1>7. f # n
    <2>1. SUFFICES ASSUME f = n PROVE FALSE
      OBVIOUS
    <2>2. Plus(E, f)[n] = E[n] + 1 /\ E[n] \in Nat /\ Plus(E, f) \in Outside
      BY <1>3, <2>1, PlusFacts
    <2>3. Plus(E, f)[n] # 0
      BY <2>2
    <2> QED
      BY <1>3, <2>2, <2>3, CountedLive
  <1>8. ASSUME NEW j \in Idx PROVE Balance(s, Plus(E, n), j)
    <2>1. Balance(r, Plus(E, f), j)
      BY DEF Counted
    <2>2. Inner(r, j) \in Nat /\ E[j] \in Nat /\ r.slot[j].rc \in Int
      BY InnerFacts, PlusFacts, RegistryFields
    <2>3. Plus(E, f)[j] = IF j = f THEN E[j] + 1 ELSE E[j]
      BY PlusFacts
    <2>4. Plus(E, n)[j] = IF j = n THEN E[j] + 1 ELSE E[j]
      BY PlusFacts
    <2>5. Inner(s, j) = Inner(r, j) + (IF j = f THEN 1 ELSE 0)
      BY <1>6
    <2>6. CASE j = n
      <3>1. Inner(r, j) = 0 /\ E[j] = 0
        BY <1>3, <1>7, <2>1, <2>3, <2>6 DEF Balance
      <3>2. Inner(s, j) = 0 /\ Plus(E, n)[j] = 1
        BY <1>7, <2>4, <2>5, <2>6, <3>1
      <3> QED
        BY <1>4, <2>6, <3>2 DEF Balance
    <2>7. CASE j # n
      <3>1. s.slot[j] = r.slot[j] /\ Plus(E, n)[j] = E[j]
        BY <1>3, <2>4, <2>7
      <3>2. Inner(s, j) + E[j] = Inner(r, j) + Plus(E, f)[j]
        BY <2>2, <2>3, <2>5
      <3>3. CASE j = f
        <4>1. Plus(E, f)[j] # 0
          BY <2>2, <2>3, <3>3
        <4>2. r.slot[j].live
          BY <2>1, <4>1 DEF Balance
        <4> QED
          BY <2>1, <3>1, <3>2, <4>2 DEF Balance
      <3>4. CASE j # f
        <4>1. Inner(s, j) = Inner(r, j) /\ Plus(E, f)[j] = E[j]
          BY <2>2, <2>3, <2>5, <3>4
        <4> QED
          BY <2>1, <3>1, <4>1 DEF Balance
      <3> QED
        BY <3>3, <3>4
    <2> QED
      BY <2>6, <2>7
  <1>9. Inner(s, Obj) = Inner(r, Obj) + (IF f = Obj THEN 1 ELSE 0)
    BY <1>6
  <1> QED
    BY <1>1, <1>2, <1>7, <1>8, <1>9 DEF Counted

LEMMA CountedWithField ==
    ASSUME NEW r \in Registries, NEW E \in Outside, NEW i \in Idx, NEW v \in Fields, r.slot[i].live,
           Counted(r, Plus(E, v)), Good(r)
    PROVE  /\ Counted(WithField(r, i, v), Plus(E, r.slot[i].field))
           /\ Inner(WithField(r, i, v), Obj) + (IF r.slot[i].field = Obj THEN 1 ELSE 0)
                = Inner(r, Obj) + (IF v = Obj THEN 1 ELSE 0)
  <1>1. PICK s : s = WithField(r, i, v)
    OBVIOUS
  <1>2. PICK f : f = r.slot[i].field
    OBVIOUS
  <1>3. \A j \in Idx : /\ s.slot[j].live = r.slot[j].live /\ s.slot[j].rc = r.slot[j].rc
                       /\ s.slot[j].snap = r.slot[j].snap
                       /\ s.slot[j].field = IF j = i THEN v ELSE r.slot[j].field
    BY <1>1, WithFieldEffect
  <1>4. \A j : Inner(s, j) + (IF j = f THEN 1 ELSE 0) = Inner(r, j) + (IF j = v THEN 1 ELSE 0)
    <2>1. SUFFICES ASSUME NEW j
                   PROVE  Inner(s, j) + (IF j = f THEN 1 ELSE 0) = Inner(r, j) + (IF j = v THEN 1 ELSE 0)
      OBVIOUS
    <2>2. Elsewhere(r, s, i)
      BY <1>3 DEF Elsewhere
    <2>3. Inner(s, j) + Holds(r, i, j) = Inner(r, j) + Holds(s, i, j)
      BY <2>2, OneHolder
    <2>4. Holds(r, i, j) = IF j = f THEN 1 ELSE 0
      BY <1>2 DEF Holds
    <2>5. s.slot[i].live /\ s.slot[i].field = v
      BY <1>3
    <2>6. Holds(s, i, j) = IF j = v THEN 1 ELSE 0
      BY <2>5 DEF Holds
    <2> QED
      BY <2>3, <2>4, <2>6
  <1>5. ASSUME NEW j \in Idx PROVE Balance(s, Plus(E, f), j)
    <2>1. Balance(r, Plus(E, v), j)
      BY DEF Counted
    <2>2. Inner(r, j) \in Nat /\ Inner(s, j) \in Nat /\ E[j] \in Nat /\ r.slot[j].rc \in Int
      BY InnerFacts, PlusFacts, RegistryFields
    <2>3. Plus(E, v)[j] = IF j = v THEN E[j] + 1 ELSE E[j]
      BY PlusFacts
    <2>4. Plus(E, f)[j] = IF j = f THEN E[j] + 1 ELSE E[j]
      BY PlusFacts
    <2>5. Inner(s, j) + (IF j = f THEN 1 ELSE 0) = Inner(r, j) + (IF j = v THEN 1 ELSE 0)
      BY <1>4
    <2>6. Inner(s, j) + Plus(E, f)[j] = Inner(r, j) + Plus(E, v)[j]
      BY <2>2, <2>3, <2>4, <2>5
    <2>7. CASE ~r.slot[j].live
      <3>1. r.slot[j].rc = 0 /\ Inner(r, j) = 0 /\ Plus(E, v)[j] = 0
        BY <2>1, <2>7 DEF Balance
      <3>2. Plus(E, f)[j] \in Nat
        BY <2>2, <2>4
      <3>3. Inner(s, j) = 0 /\ Plus(E, f)[j] = 0
        BY <2>2, <2>6, <3>1, <3>2
      <3> QED
        BY <1>3, <2>7, <3>1, <3>3 DEF Balance
    <2>8. CASE r.slot[j].live
      BY <1>3, <2>1, <2>6, <2>8 DEF Balance
    <2> QED
      BY <2>7, <2>8
  <1>6. Inner(s, Obj) + (IF f = Obj THEN 1 ELSE 0) = Inner(r, Obj) + (IF v = Obj THEN 1 ELSE 0)
    BY <1>4
  <1> QED
    BY <1>1, <1>2, <1>5, <1>6 DEF Counted

LEMMA FreedInner ==
    ASSUME NEW r \in Registries, Exact(r), NEW i \in Idx, r.slot[i].live
    PROVE  \A j : Inner(Freed(r, i), j) + (IF j = r.slot[i].field THEN 1 ELSE 0) = Inner(r, j)
  <1>1. PICK s : s = Freed(r, i)
    OBVIOUS
  <1>2. \A j \in Idx : s.slot[j] = IF j = i THEN Free ELSE r.slot[j]
    BY <1>1, FreedEffect
  <1>3. SUFFICES ASSUME NEW j PROVE Inner(s, j) + (IF j = r.slot[i].field THEN 1 ELSE 0) = Inner(r, j)
    BY <1>1
  <1>4. Elsewhere(r, s, i)
    BY <1>2 DEF Elsewhere
  <1>5. Inner(s, j) + Holds(r, i, j) = Inner(r, j) + Holds(s, i, j)
    BY <1>4, OneHolder
  <1>6. Holds(r, i, j) = IF j = r.slot[i].field THEN 1 ELSE 0
    BY DEF Holds
  <1>7. ~s.slot[i].live
    BY <1>2, FreeSlot
  <1>8. Holds(s, i, j) = 0
    BY <1>7 DEF Holds
  <1>9. Inner(r, j) \in Nat
    BY InnerFacts
  <1> QED
    BY <1>5, <1>6, <1>8, <1>9

LEMMA CountedFreed ==
    ASSUME NEW r \in Registries, Exact(r), NEW i \in Idx, r.slot[i].live, r.slot[i].rc = 1,
           NEW E \in Outside, Counted(r, Plus(E, i))
    PROVE  Counted(Freed(r, i), Plus(E, r.slot[i].field))
  <1>1. PICK s : s = Freed(r, i)
    OBVIOUS
  <1>2. PICK f : f = r.slot[i].field
    OBVIOUS
  <1>3. \A j \in Idx : s.slot[j] = IF j = i THEN Free ELSE r.slot[j]
    BY <1>1, FreedEffect
  <1>4. \A j : Inner(s, j) + (IF j = f THEN 1 ELSE 0) = Inner(r, j)
    BY <1>1, <1>2, FreedInner
  <1>5. Inner(r, i) = 0 /\ E[i] = 0
    <2>1. Balance(r, Plus(E, i), i)
      BY DEF Counted
    <2>2. Plus(E, i)[i] = E[i] + 1
      BY PlusFacts
    <2>3. 1 >= Inner(r, i) + (E[i] + 1)
      BY <2>1, <2>2 DEF Balance
    <2>4. Inner(r, i) \in Nat /\ E[i] \in Nat
      BY InnerFacts, PlusFacts
    <2> QED
      BY <2>3, <2>4
  <1>6. f # i
    BY <1>2, <1>5, InnerFacts
  <1>7. ASSUME NEW j \in Idx PROVE Balance(s, Plus(E, f), j)
    <2>1. Balance(r, Plus(E, i), j)
      BY DEF Counted
    <2>2. Inner(r, j) \in Nat /\ Inner(s, j) \in Nat /\ E[j] \in Nat /\ r.slot[j].rc \in Int
      BY InnerFacts, PlusFacts, RegistryFields
    <2>3. Plus(E, i)[j] = IF j = i THEN E[j] + 1 ELSE E[j]
      BY PlusFacts
    <2>4. Plus(E, f)[j] = IF j = f THEN E[j] + 1 ELSE E[j]
      BY PlusFacts
    <2>5. Inner(s, j) + (IF j = f THEN 1 ELSE 0) = Inner(r, j)
      BY <1>4
    <2>6. CASE j = i
      <3>1. ~s.slot[j].live /\ s.slot[j].rc = 0
        BY <1>3, <2>6, FreeSlot
      <3>2. Inner(s, j) = 0 /\ Plus(E, f)[j] = 0
        BY <1>5, <1>6, <2>2, <2>4, <2>5, <2>6
      <3> QED
        BY <3>1, <3>2 DEF Balance
    <2>7. CASE j # i
      <3>1. s.slot[j] = r.slot[j] /\ Plus(E, i)[j] = E[j]
        BY <1>3, <2>3, <2>7
      <3>2. Inner(s, j) + Plus(E, f)[j] = Inner(r, j) + E[j]
        BY <2>2, <2>4, <2>5
      <3>3. CASE r.slot[j].live
        BY <2>1, <3>1, <3>2, <3>3 DEF Balance
      <3>4. CASE ~r.slot[j].live
        <4>1. r.slot[j].rc = 0 /\ Inner(r, j) = 0 /\ E[j] = 0
          BY <2>1, <3>1, <3>4 DEF Balance
        <4>2. Plus(E, f)[j] \in Nat
          BY <2>2, <2>4
        <4>3. Inner(s, j) = 0 /\ Plus(E, f)[j] = 0
          BY <2>2, <3>2, <4>1, <4>2
        <4> QED
          BY <3>1, <3>4, <4>1, <4>3 DEF Balance
      <3> QED
        BY <3>3, <3>4
    <2> QED
      BY <2>6, <2>7
  <1> QED
    BY <1>1, <1>2, <1>7 DEF Counted

LEMMA CountedDecref ==
    ASSUME NEW r \in Registries, NEW i \in Idx, NEW E \in Outside, r.slot[i].live, Counted(r, Plus(E, i))
    PROVE  Counted(Decref(r, i), E) /\ \A j : Inner(Decref(r, i), j) = Inner(r, j)
  <1>1. PICK s : s = Decref(r, i)
    OBVIOUS
  <1>2. \A j \in Idx : /\ s.slot[j].live = r.slot[j].live /\ s.slot[j].field = r.slot[j].field
                       /\ s.slot[j].snap = r.slot[j].snap
                       /\ s.slot[j].rc = IF j = i THEN r.slot[j].rc - 1 ELSE r.slot[j].rc
    BY <1>1, DecrefEffect
  <1>3. \A j : Inner(s, j) = Inner(r, j)
    BY <1>2, SameInner
  <1>4. ASSUME NEW j \in Idx PROVE Balance(s, E, j)
    <2>1. Balance(r, Plus(E, i), j)
      BY DEF Counted
    <2>2. Inner(r, j) \in Nat /\ E[j] \in Nat /\ r.slot[j].rc \in Int
      BY InnerFacts, PlusFacts, RegistryFields
    <2>3. Plus(E, i)[j] = IF j = i THEN E[j] + 1 ELSE E[j]
      BY PlusFacts
    <2>4. Inner(s, j) = Inner(r, j)
      BY <1>3
    <2> QED
      BY <1>2, <2>1, <2>2, <2>3, <2>4 DEF Balance
  <1> QED
    BY <1>1, <1>3, <1>4 DEF Counted

\* Nothing in hand: the references are those of E.
LEMMA NothingInHand ==
    ASSUME NEW r, NEW E \in Outside, NEW v, v \notin Idx
    PROVE  Counted(r, Plus(E, v)) <=> Counted(r, E)
  <1>1. \A i \in Idx : Plus(E, v)[i] = E[i]
    BY PlusFacts
  <1> QED
    BY <1>1, CountedSame

\* One release: what is in hand is accounted for before and after.
Due(m) == m.obj - Inner(m.r, Obj) - (IF m.todo = Obj THEN 1 ELSE 0)

LEMMA CountedRelease ==
    ASSUME NEW m \in Releases, Exact(m.r), NEW E \in Outside, Counted(m.r, Plus(E, m.todo)), ~m.dead
    PROVE  LET n == ReleaseOne(m)
           IN  /\ Counted(n.r, Plus(E, n.todo)) /\ ~n.dead /\ Due(n) = Due(m)
               /\ \/ n.todo = Nil
                  \/ m.todo \in Live(m.r) /\ Live(n.r) = Live(m.r) \ {m.todo}
  <1>1. PICK n : n = ReleaseOne(m)
    OBVIOUS
  <1>2. PICK r \in Registries : r = m.r
    BY DEF Releases
  <1>3. PICK v \in Fields : v = m.todo
    BY DEF Releases
  <1>4. n \in Releases /\ (Nothing(m, n) \/ HeapObject(m, n) \/ DeadHandle(m, n) \/ LastCount(m, n) \/ OneCount(m, n))
    BY <1>1, ReleaseOneWays
  <1>5. m.obj \in Int /\ Inner(r, Obj) \in Nat /\ Inner(n.r, Obj) \in Nat /\ Nil \notin Idx /\ Obj \notin Idx /\ Nil # Obj
    BY InnerFacts, IdxFacts DEF Releases
  <1>6. CASE Nothing(m, n)
    BY <1>1, <1>6 DEF Nothing
  <1>7. CASE HeapObject(m, n)
    <2>1. n.r = r /\ n.obj = m.obj - 1 /\ n.todo = Nil /\ ~n.dead /\ v = Obj
      BY <1>2, <1>3, <1>7 DEF HeapObject
    <2>2. Counted(r, E)
      BY <1>2, <1>3, <1>5, <2>1, NothingInHand
    <2>3. Counted(n.r, Plus(E, n.todo))
      BY <1>5, <2>1, <2>2, NothingInHand
    <2>4. Due(n) = Due(m)
      BY <1>2, <1>3, <1>5, <2>1 DEF Due
    <2> QED
      BY <1>1, <2>1, <2>3, <2>4
  <1>8. CASE DeadHandle(m, n)
    <2>1. v \in Idx /\ ~r.slot[v].live
      BY <1>2, <1>3, <1>8 DEF DeadHandle
    <2>2. Plus(E, v)[v] = E[v] + 1 /\ E[v] \in Nat /\ Plus(E, v) \in Outside
      BY <2>1, PlusFacts
    <2>3. Plus(E, v)[v] # 0
      BY <2>2
    <2> QED
      BY <1>2, <1>3, <2>1, <2>2, <2>3, CountedLive
  <1>9. CASE LastCount(m, n)
    <2>1. /\ v \in Idx /\ r.slot[v].live /\ r.slot[v].rc = 1 /\ n.r = Freed(r, v) /\ n.obj = m.obj
          /\ n.todo = r.slot[v].field /\ ~n.dead /\ Exact(r)
      BY <1>2, <1>3, <1>9 DEF LastCount
    <2>2. Counted(n.r, Plus(E, n.todo))
      BY <1>2, <1>3, <2>1, CountedFreed
    <2>3. Inner(n.r, Obj) + (IF Obj = n.todo THEN 1 ELSE 0) = Inner(r, Obj)
      BY <2>1, FreedInner
    <2>4. Due(n) = Due(m)
      <3>1. v # Obj
        BY <1>5, <2>1
      <3>2. (IF Obj = n.todo THEN 1 ELSE 0) = (IF n.todo = Obj THEN 1 ELSE 0) /\ (IF n.todo = Obj THEN 1 ELSE 0) \in Nat
        OBVIOUS
      <3> QED
        BY <1>2, <1>3, <1>5, <2>1, <2>3, <3>1, <3>2 DEF Due
    <2>5. Live(n.r) = Live(r) \ {v}
      BY <2>1, FreedEffect, FreeSlot DEF Live
    <2>6. v \in Live(r)
      BY <2>1 DEF Live
    <2> QED
      BY <1>1, <1>2, <1>3, <2>1, <2>2, <2>4, <2>5, <2>6
  <1>10. CASE OneCount(m, n)
    <2>1. /\ v \in Idx /\ r.slot[v].live /\ n.r = Decref(r, v) /\ n.obj = m.obj /\ n.todo = Nil /\ ~n.dead
      BY <1>2, <1>3, <1>10 DEF OneCount
    <2>2. Counted(n.r, E) /\ Inner(n.r, Obj) = Inner(r, Obj)
      BY <1>2, <1>3, <2>1, CountedDecref
    <2>3. Counted(n.r, Plus(E, n.todo))
      BY <1>5, <2>1, <2>2, NothingInHand
    <2>4. Due(n) = Due(m)
      BY <1>2, <1>3, <1>5, <2>1, <2>2 DEF Due
    <2> QED
      BY <1>1, <2>1, <2>3, <2>4
  <1> QED
    BY <1>4, <1>6, <1>7, <1>8, <1>9, <1>10

\* The cascade releases what it was given and all that goes with it, and it ends.
LEMMA CountedReleased ==
    ASSUME NEW r, Good(r), NEW o \in Int, NEW v \in Fields, NEW E \in Outside, Counted(r, Plus(E, v))
    PROVE  LET m == Released(r, o, v)
           IN  /\ Counted(m.r, E) /\ ~m.dead
               /\ m.obj - Inner(m.r, Obj) = o - Inner(r, Obj) - (IF v = Obj THEN 1 ELSE 0)
  <1>1. PICK f : /\ f[0] = FirstRelease(r, o, v)
                 /\ \A n \in Nat : n < MaxSlots + 2 => f[n + 1] = ReleaseOne(f[n])
                 /\ Released(r, o, v) = f[MaxSlots + 2]
    BY ReleasedRounds
  <1> DEFINE Fine(n) == /\ f[n] \in Releases /\ Exact(f[n].r) /\ Counted(f[n].r, Plus(E, f[n].todo)) /\ ~f[n].dead
                        /\ Due(f[n]) = Due(f[0])
                        /\ f[n].todo = Nil \/ Cardinality(Live(f[n].r)) + n <= MaxSlots
             T == {n \in Nat : n <= MaxSlots + 2 => Fine(n)}
  <1>2. 0 \in T
    <2>1. f[0].r = r /\ f[0] \in Releases /\ ~f[0].dead /\ f[0].todo = v
      BY <1>1 DEF FirstRelease, Releases, Good
    <2>2. Cardinality(Live(r)) <= MaxSlots /\ Cardinality(Live(r)) \in Nat
      <3>1. Live(r) \subseteq Idx
        BY DEF Live
      <3> QED
        BY <3>1, IdxFinite, FS_Subset
    <2> QED
      BY <2>1, <2>2 DEF Good
  <1>3. ASSUME NEW n \in Nat, n \in T PROVE n + 1 \in T
    <2>1. SUFFICES ASSUME n + 1 <= MaxSlots + 2 PROVE Fine(n + 1)
      BY <1>3
    <2>2. n < MaxSlots + 2 /\ n <= MaxSlots + 2
      BY <2>1, RegistryConstants
    <2>3. Fine(n)
      BY <1>3, <2>2
    <2>4. PICK m : m = f[n]
      OBVIOUS
    <2>5. PICK k : k = f[n + 1]
      OBVIOUS
    <2>6. k = ReleaseOne(m)
      BY <1>1, <2>2, <2>4, <2>5
    <2>7. m \in Releases /\ Exact(m.r) /\ Counted(m.r, Plus(E, m.todo)) /\ ~m.dead
      BY <2>3, <2>4
    <2>8. k \in Releases /\ Exact(k.r)
      BY <2>6, <2>7, ReleaseOneWays
    <2>9. /\ Counted(k.r, Plus(E, k.todo)) /\ ~k.dead /\ Due(k) = Due(m)
          /\ \/ k.todo = Nil
             \/ m.todo \in Live(m.r) /\ Live(k.r) = Live(m.r) \ {m.todo}
      BY <2>6, <2>7, CountedRelease
    <2>10. k.todo = Nil \/ Cardinality(Live(k.r)) + (n + 1) <= MaxSlots
      <3>1. SUFFICES ASSUME k.todo # Nil PROVE Cardinality(Live(k.r)) + (n + 1) <= MaxSlots
        OBVIOUS
      <3>2. m.todo \in Live(m.r) /\ Live(k.r) = Live(m.r) \ {m.todo}
        BY <2>9, <3>1
      <3>3. m.todo # Nil
        BY <3>2, IdxFacts DEF Live
      <3>4. Cardinality(Live(m.r)) + n <= MaxSlots
        BY <2>3, <2>4, <3>3
      <3>5. IsFiniteSet(Live(m.r)) /\ Cardinality(Live(m.r)) \in Nat
        <4>1. Live(m.r) \subseteq Idx
          BY DEF Live
        <4> QED
          BY <4>1, IdxFinite
      <3>6. Cardinality(Live(k.r)) = Cardinality(Live(m.r)) - 1
        BY <3>2, <3>5, FS_RemoveElement
      <3> QED
        BY <3>4, <3>5, <3>6, RegistryConstants
    <2> QED
      BY <2>3, <2>4, <2>5, <2>8, <2>9, <2>10
  <1>4. MaxSlots + 2 \in T
    <2>1. Nat \subseteq T
      <3> HIDE DEF T
      <3> QED
        BY <1>2, <1>3, Induction
    <2> QED
      BY <2>1, RegistryConstants
  <1>5. Fine(MaxSlots + 2)
    BY <1>4, RegistryConstants
  <1>6. PICK m : m = Released(r, o, v)
    OBVIOUS
  <1>7. m = f[MaxSlots + 2]
    BY <1>1, <1>6
  <1>8. m.todo = Nil
    <2>1. Cardinality(Live(m.r)) \in Nat
      <3>1. Live(m.r) \subseteq Idx
        BY DEF Live
      <3> QED
        BY <3>1, IdxFinite
    <2>2. m.todo = Nil \/ Cardinality(Live(m.r)) + (MaxSlots + 2) <= MaxSlots
      BY <1>5, <1>7
    <2> QED
      BY <2>1, <2>2, RegistryConstants
  <1>9. m \in Releases /\ Counted(m.r, Plus(E, m.todo)) /\ ~m.dead /\ Due(m) = Due(FirstRelease(r, o, v))
    BY <1>1, <1>5, <1>7
  <1>10. Counted(m.r, E)
    BY <1>8, <1>9, IdxFacts, NothingInHand
  <1>11. m.obj - Inner(m.r, Obj) = o - Inner(r, Obj) - (IF v = Obj THEN 1 ELSE 0)
    <2>1. Due(m) = m.obj - Inner(m.r, Obj) - 0
      BY <1>8, IdxFacts DEF Due
    <2>2. Due(FirstRelease(r, o, v)) = o - Inner(r, Obj) - (IF v = Obj THEN 1 ELSE 0)
      BY DEF Due, FirstRelease
    <2>3. m.obj \in Int /\ Inner(m.r, Obj) \in Int
      BY <1>9, InnerFacts DEF Releases
    <2>4. \A a, b \in Int : a - b - 0 = a - b
      OBVIOUS
    <2>5. Due(m) = m.obj - Inner(m.r, Obj)
      BY <2>1, <2>3, <2>4
    <2> QED
      BY <1>9, <2>2, <2>5
  <1> QED
    BY <1>6, <1>9, <1>10, <1>11

LEMMA CountedWithProxies ==
    ASSUME NEW r, Good(r), NEW E \in Outside, Counted(r, E), NEW S, S \subseteq Live(r)
    PROVE  /\ Counted(WithProxies(r, S), PlusAll(E, S))
           /\ \A j : Inner(WithProxies(r, S), j) = Inner(r, j)
  <1>1. PICK s : s = WithProxies(r, S)
    OBVIOUS
  <1>2. \A j \in Idx : /\ s.slot[j].live = r.slot[j].live /\ s.slot[j].field = r.slot[j].field
                       /\ s.slot[j].snap = r.slot[j].snap
                       /\ s.slot[j].rc = IF j \in S THEN r.slot[j].rc + 1 ELSE r.slot[j].rc
    BY <1>1, WithProxiesEffect
  <1>3. \A j : Inner(s, j) = Inner(r, j)
    BY <1>2, SameInner
  <1>4. ASSUME NEW j \in Idx PROVE Balance(s, PlusAll(E, S), j)
    <2>1. Balance(r, E, j)
      BY DEF Counted
    <2>2. Inner(r, j) \in Nat /\ E[j] \in Nat /\ r.slot[j].rc \in Int
      BY InnerFacts, PlusFacts, RegistryFields DEF Good
    <2>3. PlusAll(E, S)[j] = IF j \in S THEN E[j] + 1 ELSE E[j]
      BY PlusFacts
    <2>4. Inner(s, j) = Inner(r, j)
      BY <1>3
    <2>5. j \in S => r.slot[j].live
      BY DEF Live
    <2>6. CASE j \in S
      BY <1>2, <2>1, <2>2, <2>3, <2>4, <2>5, <2>6 DEF Balance
    <2>7. CASE j \notin S
      BY <1>2, <2>1, <2>2, <2>3, <2>4, <2>7 DEF Balance
    <2> QED
      BY <2>6, <2>7
  <1> QED
    BY <1>1, <1>3, <1>4 DEF Counted

LEMMA CountedClone ==
    ASSUME NEW r, Good(r), NEW E \in Outside, Counted(r, E), NEW F, \A i \in Idx : F[i] = 0
    PROVE  Counted(CloneOf(r), F) /\ \A j : Inner(CloneOf(r), j) = Inner(r, j)
  <1>1. PICK s : s = CloneOf(r)
    OBVIOUS
  <1>2. \A j \in Idx : /\ s.slot[j].live = r.slot[j].live
                       /\ r.slot[j].live => /\ s.slot[j].rc = r.slot[j].rc /\ s.slot[j].snap
                                            /\ s.slot[j].field = r.slot[j].field
                       /\ ~r.slot[j].live => s.slot[j] = Free
    BY <1>1, CloneEffect
  <1>3. \A j : Inner(s, j) = Inner(r, j)
    BY <1>2, SameInner
  <1>4. ASSUME NEW j \in Idx PROVE Balance(s, F, j)
    <2>1. Balance(r, E, j)
      BY DEF Counted
    <2>2. Inner(r, j) \in Nat /\ E[j] \in Nat /\ r.slot[j].rc \in Int /\ F[j] = 0
      BY InnerFacts, PlusFacts, RegistryFields DEF Good
    <2>3. Inner(s, j) = Inner(r, j)
      BY <1>3
    <2> QED
      BY <1>2, <2>1, <2>2, <2>3, FreeSlot DEF Balance
  <1> QED
    BY <1>1, <1>3, <1>4 DEF Counted
-----------------------------------------------------------------------------
\* References from outside the registry of a level: its VM's and the proxies anchored on it.

At(P, l, i) == {x \in Proxies : P[x].used /\ P[x].at = l /\ P[x].idx = i}
External(r, P, l) == [i \in Idx |-> r.root[i] + Cardinality(At(P, l, i))]

LEMMA AtFinite ==
    ASSUME NEW P, NEW l, NEW i
    PROVE  IsFiniteSet(At(P, l, i)) /\ Cardinality(At(P, l, i)) \in Nat /\ At(P, l, i) \subseteq Proxies
  BY RegistryConstants, FS_Subset, FS_CardinalityType DEF At

LEMMA ExternalFacts ==
    ASSUME NEW r \in Registries, NEW P, NEW l
    PROVE  /\ External(r, P, l) \in Outside
           /\ \A i \in Idx : /\ External(r, P, l)[i] = r.root[i] + Cardinality(At(P, l, i))
                             /\ r.root[i] \in Nat /\ Cardinality(At(P, l, i)) \in Nat
                             /\ External(r, P, l)[i] = 0 => r.root[i] = 0 /\ At(P, l, i) = {}
  <1>1. ASSUME NEW i \in Idx
        PROVE  r.root[i] \in Nat /\ Cardinality(At(P, l, i)) \in Nat /\ r.root[i] + Cardinality(At(P, l, i)) \in Nat
    BY RegistryFields, AtFinite
  <1>2. ASSUME NEW i \in Idx, r.root[i] + Cardinality(At(P, l, i)) = 0 PROVE r.root[i] = 0 /\ At(P, l, i) = {}
    <2>1. r.root[i] = 0 /\ Cardinality(At(P, l, i)) = 0
      BY <1>1, <1>2
    <2> QED
      BY <2>1, AtFinite, FS_EmptySet
  <1> QED
    BY <1>1, <1>2 DEF External, Outside

\* The same registry with one more reference from its VM.
LEMMA ExternalRooted ==
    ASSUME NEW r \in Registries, NEW s \in Registries, NEW P, NEW l, NEW i \in Idx,
           \A j \in Idx : s.root[j] = IF j = i THEN r.root[j] + 1 ELSE r.root[j]
    PROVE  \A j \in Idx : External(s, P, l)[j] = Plus(External(r, P, l), i)[j]
  <1>1. SUFFICES ASSUME NEW j \in Idx PROVE External(s, P, l)[j] = Plus(External(r, P, l), i)[j]
    OBVIOUS
  <1>2. /\ External(r, P, l) \in Outside /\ External(r, P, l)[j] = r.root[j] + Cardinality(At(P, l, j))
        /\ r.root[j] \in Nat /\ Cardinality(At(P, l, j)) \in Nat
    BY ExternalFacts
  <1>3. External(s, P, l)[j] = s.root[j] + Cardinality(At(P, l, j))
    BY ExternalFacts
  <1>4. Plus(External(r, P, l), i)[j] = IF j = i THEN External(r, P, l)[j] + 1 ELSE External(r, P, l)[j]
    BY <1>2, PlusFacts
  <1> QED
    BY <1>2, <1>3, <1>4

\* The same references from the VM.
LEMMA ExternalSame ==
    ASSUME NEW r \in Registries, NEW s \in Registries, NEW P, NEW Q, NEW l, s.root = r.root,
           \A j \in Idx : At(Q, l, j) = At(P, l, j)
    PROVE  \A j \in Idx : External(s, Q, l)[j] = External(r, P, l)[j]
  BY DEF External

\* The proxy x takes a reference to i, of level l.
LEMMA ExternalProxy ==
    ASSUME NEW r \in Registries, NEW P, NEW Q, NEW l, NEW i \in Idx, NEW x \in Proxies,
           \A y \in Proxies : y # x => (Q[y].used /\ Q[y].at = l <=> P[y].used /\ P[y].at = l) /\ Q[y].idx = P[y].idx,
           Q[x].used, Q[x].at = l, Q[x].idx = i, ~(P[x].used /\ P[x].at = l)
    PROVE  \A j \in Idx : External(r, Q, l)[j] = Plus(External(r, P, l), i)[j]
  <1>1. SUFFICES ASSUME NEW j \in Idx PROVE External(r, Q, l)[j] = Plus(External(r, P, l), i)[j]
    OBVIOUS
  <1>2. /\ External(r, P, l) \in Outside /\ External(r, P, l)[j] = r.root[j] + Cardinality(At(P, l, j))
        /\ r.root[j] \in Nat /\ Cardinality(At(P, l, j)) \in Nat
    BY ExternalFacts
  <1>3. External(r, Q, l)[j] = r.root[j] + Cardinality(At(Q, l, j))
    BY ExternalFacts
  <1>4. Plus(External(r, P, l), i)[j] = IF j = i THEN External(r, P, l)[j] + 1 ELSE External(r, P, l)[j]
    BY <1>2, PlusFacts
  <1>5. CASE j = i
    <2>1. At(Q, l, j) = At(P, l, j) \cup {x} /\ x \notin At(P, l, j)
      BY <1>5 DEF At
    <2>2. Cardinality(At(Q, l, j)) = Cardinality(At(P, l, j)) + 1
      BY <2>1, AtFinite, FS_AddElement
    <2> QED
      BY <1>2, <1>3, <1>4, <1>5, <2>2
  <1>6. CASE j # i
    <2>1. At(Q, l, j) = At(P, l, j)
      BY <1>6 DEF At
    <2> QED
      BY <1>2, <1>3, <1>4, <1>6, <2>1
  <1> QED
    BY <1>5, <1>6

\* New proxies of the structs of S, one each.
LEMMA ExternalNamed ==
    ASSUME NEW r \in Registries, NEW n \in Nat, NEW l \in 1 .. n, NEW P \in [Proxies -> ProxySet(n)],
           NEW S, S \subseteq Idx, NEW g \in [S -> Proxies],
           \A i \in S : ~P[g[i]].used, \A i, j \in S : g[i] = g[j] => i = j
    PROVE  /\ \A j \in Idx : External(r, Named(P, l, g), l)[j] = PlusAll(External(r, P, l), S)[j]
           /\ \A k, j : k # l => At(Named(P, l, g), k, j) = At(P, k, j)
  <1>1. PICK Q : Q = Named(P, l, g)
    OBVIOUS
  <1>2. \A x \in Proxies : \/ \E i \in S : g[i] = x /\ Q[x] = Level(l, i)
                           \/ (\A i \in S : g[i] # x) /\ Q[x] = P[x]
    BY <1>1, NamedEffect
  <1>3. \A i \in S : Q[g[i]].used /\ Q[g[i]].at = l /\ Q[g[i]].idx = i
    <2>1. SUFFICES ASSUME NEW i \in S PROVE Q[g[i]].used /\ Q[g[i]].at = l /\ Q[g[i]].idx = i
      OBVIOUS
    <2>2. Q[g[i]] = Level(l, i)
      BY <1>2
    <2>3. i \in Idx
      OBVIOUS
    <2> QED
      BY <2>2, <2>3, LevelEffect
  <1>4. ASSUME NEW j \in Idx PROVE External(r, Q, l)[j] = PlusAll(External(r, P, l), S)[j]
    <2>1. /\ External(r, P, l) \in Outside /\ External(r, P, l)[j] = r.root[j] + Cardinality(At(P, l, j))
          /\ r.root[j] \in Nat /\ Cardinality(At(P, l, j)) \in Nat
      BY ExternalFacts
    <2>2. External(r, Q, l)[j] = r.root[j] + Cardinality(At(Q, l, j))
      BY ExternalFacts
    <2>3. PlusAll(External(r, P, l), S)[j] = IF j \in S THEN External(r, P, l)[j] + 1 ELSE External(r, P, l)[j]
      BY <2>1, PlusFacts
    <2>4. CASE j \in S
      <3>1. g[j] \notin At(P, l, j)
        BY <2>4 DEF At
      <3>2. At(Q, l, j) = At(P, l, j) \cup {g[j]}
        BY <1>2, <1>3, <2>4 DEF At
      <3>3. Cardinality(At(Q, l, j)) = Cardinality(At(P, l, j)) + 1
        BY <3>1, <3>2, AtFinite, FS_AddElement
      <3> QED
        BY <2>1, <2>2, <2>3, <2>4, <3>3
    <2>5. CASE j \notin S
      <3>1. At(Q, l, j) = At(P, l, j)
        BY <1>2, <1>3, <2>5 DEF At
      <3> QED
        BY <2>1, <2>2, <2>3, <2>5, <3>1
    <2> QED
      BY <2>4, <2>5
  <1>5. ASSUME NEW k, NEW j, k # l PROVE At(Q, k, j) = At(P, k, j)
    BY <1>2, <1>3, <1>5 DEF At
  <1> QED
    BY <1>1, <1>4, <1>5
-----------------------------------------------------------------------------
\* The fields that hold the heap object, in all the registries.

HeapIn(R, L)  == {q \in L \X Idx : R[q[1]].slot[q[2]].live /\ R[q[1]].slot[q[2]].field = Obj}
HeapFields(R) == HeapIn(R, 1 .. Len(R))

LEMMA HeapOne ==
    ASSUME NEW R, NEW L, NEW l, l \notin L, IsFiniteSet(HeapIn(R, L))
    PROVE  /\ IsFiniteSet(HeapIn(R, L \cup {l}))
           /\ Cardinality(HeapIn(R, L \cup {l})) = Cardinality(HeapIn(R, L)) + Inner(R[l], Obj)
  <1>1. PICK A : A = Holders(R[l], Obj)
    OBVIOUS
  <1>2. A \subseteq Idx /\ IsFiniteSet(A) /\ Cardinality(A) = Inner(R[l], Obj) /\ Cardinality(A) \in Nat
    BY <1>1, InnerFacts DEF Inner
  <1>3. PICK B : B = {<<l, i>> : i \in A}
    OBVIOUS
  <1>4. IsFiniteSet(B) /\ Cardinality(B) = Cardinality(A)
    <2>1. PICK f : f = [i \in A |-> <<l, i>>]
      OBVIOUS
    <2>2. /\ f \in [A -> B] /\ \A a, b \in A : f[a] = f[b] => a = b
          /\ \A t \in B : \E s \in A : f[s] = t
      BY <1>3, <2>1
    <2> QED
      BY <1>2, <2>2, SameByBijection
  <1>5. HeapIn(R, L \cup {l}) = HeapIn(R, L) \cup B /\ HeapIn(R, L) \cap B = {}
    BY <1>1, <1>3 DEF HeapIn, Holders, Live
  <1>6. Cardinality(HeapIn(R, L)) \in Nat
    BY FS_CardinalityType
  <1>7. /\ IsFiniteSet(HeapIn(R, L) \cup B)
        /\ Cardinality(HeapIn(R, L) \cup B) = Cardinality(HeapIn(R, L)) + Cardinality(B)
    <2>1. Cardinality(HeapIn(R, L) \cap B) = 0
      BY <1>5, FS_EmptySet
    <2>2. /\ IsFiniteSet(HeapIn(R, L) \cup B)
          /\ Cardinality(HeapIn(R, L) \cup B)
               = Cardinality(HeapIn(R, L)) + Cardinality(B) - Cardinality(HeapIn(R, L) \cap B)
      BY <1>4, FS_Union
    <2> QED
      BY <1>2, <1>4, <1>6, <2>1, <2>2
  <1> QED
    BY <1>2, <1>4, <1>5, <1>7

LEMMA HeapFinite ==
    ASSUME NEW R, NEW n \in Nat, NEW L, L \subseteq 1 .. n
    PROVE  IsFiniteSet(HeapIn(R, L)) /\ Cardinality(HeapIn(R, L)) \in Nat
  <1>1. IsFiniteSet(1 .. n)
    BY FS_Interval
  <1>2. IsFiniteSet(L)
    BY <1>1, FS_Subset
  <1>3. IsFiniteSet(L \X Idx)
    BY <1>2, IdxFinite, FS_Product
  <1>4. HeapIn(R, L) \subseteq L \X Idx
    BY DEF HeapIn
  <1> QED
    BY <1>3, <1>4, FS_Subset, FS_CardinalityType

LEMMA HeapSame ==
    ASSUME NEW R, NEW S, NEW L, \A k \in L : S[k] = R[k]
    PROVE  HeapIn(S, L) = HeapIn(R, L)
  BY DEF HeapIn

LEMMA HeapEdited ==
    ASSUME NEW R, NEW S, Len(R) \in Nat, Len(S) = Len(R), NEW l \in 1 .. Len(R),
           \A k \in 1 .. Len(R) : k # l => S[k] = R[k]
    PROVE  /\ Cardinality(HeapFields(S)) + Inner(R[l], Obj) = Cardinality(HeapFields(R)) + Inner(S[l], Obj)
           /\ Cardinality(HeapFields(S)) \in Nat /\ Cardinality(HeapFields(R)) \in Nat
  <1>1. PICK n \in Nat : n = Len(R)
    OBVIOUS
  <1>2. PICK L : L = (1 .. n) \ {l}
    OBVIOUS
  <1>3. L \subseteq 1 .. n /\ l \notin L /\ 1 .. n = L \cup {l}
    BY <1>1, <1>2
  <1>4. HeapIn(S, L) = HeapIn(R, L)
    BY <1>1, <1>2, HeapSame
  <1>5. IsFiniteSet(HeapIn(R, L)) /\ Cardinality(HeapIn(R, L)) \in Nat
    BY <1>3, HeapFinite
  <1>6. Cardinality(HeapIn(R, L \cup {l})) = Cardinality(HeapIn(R, L)) + Inner(R[l], Obj)
    BY <1>3, <1>5, HeapOne
  <1>7. Cardinality(HeapIn(S, L \cup {l})) = Cardinality(HeapIn(S, L)) + Inner(S[l], Obj)
    BY <1>3, <1>4, <1>5, HeapOne
  <1>8. Inner(R[l], Obj) \in Nat /\ Inner(S[l], Obj) \in Nat
    BY InnerFacts
  <1>9. HeapFields(R) = HeapIn(R, L \cup {l}) /\ HeapFields(S) = HeapIn(S, L \cup {l})
    BY <1>1, <1>3 DEF HeapFields
  <1> QED
    BY <1>4, <1>5, <1>6, <1>7, <1>8, <1>9

LEMMA HeapLonger ==
    ASSUME NEW R, NEW S, Len(R) \in Nat, Len(S) = Len(R) + 1, \A k \in 1 .. Len(R) : S[k] = R[k]
    PROVE  /\ Cardinality(HeapFields(S)) = Cardinality(HeapFields(R)) + Inner(S[Len(R) + 1], Obj)
           /\ Cardinality(HeapFields(R)) \in Nat
  <1>1. PICK n \in Nat : n = Len(R)
    OBVIOUS
  <1>2. n + 1 \notin 1 .. n /\ 1 .. (n + 1) = (1 .. n) \cup {n + 1}
    OBVIOUS
  <1>3. HeapIn(S, 1 .. n) = HeapIn(R, 1 .. n)
    BY <1>1, HeapSame
  <1>4. IsFiniteSet(HeapIn(R, 1 .. n)) /\ Cardinality(HeapIn(R, 1 .. n)) \in Nat
    BY HeapFinite
  <1>5. Cardinality(HeapIn(S, (1 .. n) \cup {n + 1})) = Cardinality(HeapIn(S, 1 .. n)) + Inner(S[n + 1], Obj)
    <2>1. PICK L, k : L = 1 .. n /\ k = n + 1
      OBVIOUS
    <2>2. k \notin L /\ IsFiniteSet(HeapIn(S, L))
      BY <1>2, <1>3, <1>4, <2>1
    <2>3. Cardinality(HeapIn(S, L \cup {k})) = Cardinality(HeapIn(S, L)) + Inner(S[k], Obj)
      BY <2>2, HeapOne
    <2> QED
      BY <2>1, <2>3
  <1>6. HeapFields(R) = HeapIn(R, 1 .. n) /\ HeapFields(S) = HeapIn(S, (1 .. n) \cup {n + 1})
    BY <1>1, <1>2 DEF HeapFields
  <1> QED
    BY <1>1, <1>3, <1>4, <1>5, <1>6
-----------------------------------------------------------------------------
\* The invariant behind the counts, until a call mixes two registries' structs.

Sums(R, P)  == \A l \in 1 .. Len(R) : Counted(R[l], External(R[l], P, l))
Plain(R)    == \A i \in Idx : ~R[1].slot[i].snap
\* A proxy recorded by a registry is anchored there or deeper; it names a struct that is no
\* copy of a caller's, unless it is still the one that was recorded.
Trace(R, p) == /\ p.by # 0 => p.used /\ p.by > 1 /\ p.at >= p.by
               /\ p.used /\ p.at # 0 /\ ~(p.by = p.at /\ p.rec = p.idx) => ~R[p.at].slot[p.idx].snap
Balanced(R, P, o) == /\ Sums(R, P) /\ Plain(R) /\ \A x \in Proxies : Trace(R, P[x])
                     /\ o = Cardinality(HeapFields(R))

LEMMA EditedBalance ==
    ASSUME Sound, Balanced(regs, px, obj), NEW l \in 1 .. Top, NEW s, Good(s), regs' = [regs EXCEPT ![l] = s],
           Counted(s, External(s, px', l)),
           \A i \in Idx : s.slot[i].snap => regs[l].slot[i].snap,
           \A k \in 1 .. Top, i \in Idx : k # l => At(px', k, i) = At(px, k, i),
           \A x \in Proxies : px'[x] = px[x] \/ Trace(regs', px'[x]),
           obj' \in Int, obj' - Inner(s, Obj) = obj - Inner(regs[l], Obj)
    PROVE  Balanced(regs', px', obj')
  <1>1. Levels(regs) /\ Top = Len(regs) /\ Top \in Nat /\ Top >= 1 /\ l \in 1 .. Len(regs)
    BY SoundFacts DEF Top
  <1>2. Len(regs') = Top /\ \A k \in 1 .. Top : regs'[k] = IF k = l THEN s ELSE regs[k]
    BY <1>1, Edited
  <1>3. Sums(regs', px')
    <2>1. SUFFICES ASSUME NEW k \in 1 .. Top PROVE Counted(regs'[k], External(regs'[k], px', k))
      BY <1>2 DEF Sums
    <2>2. CASE k = l
      BY <1>2, <2>2
    <2>3. CASE k # l
      <3>1. regs'[k] = regs[k] /\ Counted(regs[k], External(regs[k], px, k)) /\ regs[k] \in Registries
        BY <1>1, <1>2, <2>3, SoundFacts DEF Balanced, Sums, Good
      <3>2. \A i \in Idx : External(regs[k], px', k)[i] = External(regs[k], px, k)[i]
        BY <2>3, <3>1, ExternalSame
      <3> QED
        BY <3>1, <3>2, CountedSame
    <2> QED
      BY <2>2, <2>3
  <1>4. \A k \in 1 .. Top, i \in Idx : regs'[k].slot[i].snap => regs[k].slot[i].snap
    BY <1>2
  <1>5. Plain(regs')
    <2>1. 1 \in 1 .. Top
      BY <1>1
    <2> QED
      BY <1>4, <2>1 DEF Balanced, Plain
  <1>6. ASSUME NEW x \in Proxies PROVE Trace(regs', px'[x])
    <2>1. SUFFICES ASSUME px'[x] = px[x] PROVE Trace(regs', px'[x])
      OBVIOUS
    <2>2. PICK p : p = px[x]
      OBVIOUS
    <2>3. Trace(regs, p) /\ p.at \in 0 .. Top /\ p.idx \in Idx
      BY <2>2, ProxyFacts DEF Balanced
    <2>4. p.at # 0 => p.at \in 1 .. Top
      BY <1>1, <2>3
    <2> QED
      BY <1>4, <2>1, <2>2, <2>3, <2>4 DEF Trace
  <1>7. obj' = Cardinality(HeapFields(regs'))
    <2>1. /\ Cardinality(HeapFields(regs')) + Inner(regs[l], Obj) = Cardinality(HeapFields(regs)) + Inner(regs'[l], Obj)
          /\ Cardinality(HeapFields(regs')) \in Nat /\ Cardinality(HeapFields(regs)) \in Nat
      <3>1. PICK S : S = regs'
        OBVIOUS
      <3>2. /\ Len(regs) \in Nat /\ Len(S) = Len(regs) /\ l \in 1 .. Len(regs)
            /\ \A k \in 1 .. Len(regs) : k # l => S[k] = regs[k]
        BY <1>1, <1>2, <3>1
      <3>3. /\ Cardinality(HeapFields(S)) + Inner(regs[l], Obj) = Cardinality(HeapFields(regs)) + Inner(S[l], Obj)
            /\ Cardinality(HeapFields(S)) \in Nat /\ Cardinality(HeapFields(regs)) \in Nat
        BY <3>2, HeapEdited
      <3> QED
        BY <3>1, <3>3
    <2>2. regs'[l] = s /\ obj = Cardinality(HeapFields(regs))
      BY <1>2 DEF Balanced
    <2>3. Inner(s, Obj) \in Nat /\ Inner(regs[l], Obj) \in Nat
      BY InnerFacts
    <2> QED
      BY <2>1, <2>2, <2>3
  <1> QED
    BY <1>3, <1>5, <1>6, <1>7 DEF Balanced

LEMMA TopBalance ==
    ASSUME Sound, Balanced(regs, px, obj)
    PROVE  /\ Counted(Cur, External(Cur, px, Top)) /\ External(Cur, px, Top) \in Outside
           /\ \A l \in 1 .. Top : Counted(regs[l], External(regs[l], px, l)) /\ External(regs[l], px, l) \in Outside
           /\ \A i \in Idx : Cur.root[i] > 0 => Cur.slot[i].live
  <1>1. \A l \in 1 .. Top : Counted(regs[l], External(regs[l], px, l)) /\ External(regs[l], px, l) \in Outside
    BY SoundFacts, ExternalFacts DEF Balanced, Sums, Top, Good
  <1>2. Counted(Cur, External(Cur, px, Top)) /\ External(Cur, px, Top) \in Outside
    BY <1>1, SoundFacts DEF Cur
  <1>3. ASSUME NEW i \in Idx, Cur.root[i] > 0 PROVE Cur.slot[i].live
    <2>1. External(Cur, px, Top)[i] # 0
      BY <1>3, SoundFacts, ExternalFacts
    <2> QED
      BY <1>2, <2>1, SoundFacts, CountedLive
  <1> QED
    BY <1>1, <1>2, <1>3

LEMMA PlusSame ==
    ASSUME NEW E \in Outside, NEW F \in Outside, \A i \in Idx : F[i] = E[i]
    PROVE  \A v, i : i \in Idx => Plus(F, v)[i] = Plus(E, v)[i]
  BY PlusFacts

\* A reference leaves the VM and is in hand.
LEMMA UnrootedBalance ==
    ASSUME NEW r, Good(r), NEW i \in Idx, r.root[i] > 0, NEW P, NEW l
    PROVE  LET u == Unrooted(r, i)
           IN  /\ Good(u) /\ External(u, P, l) \in Outside
               /\ \A j \in Idx : External(r, P, l)[j] = Plus(External(u, P, l), i)[j]
               /\ \A v : Counted(r, Plus(External(r, P, l), v)) => Counted(u, Plus(Plus(External(u, P, l), i), v))
               /\ Counted(r, External(r, P, l)) => Counted(u, Plus(External(u, P, l), i))
               /\ Inner(u, Obj) = Inner(r, Obj) /\ u.slot = r.slot
  <1>1. PICK u : u = Unrooted(r, i)
    OBVIOUS
  <1>2. /\ r \in Registries /\ u \in Registries /\ Good(u) /\ u.slot = r.slot
        /\ \A j \in Idx : u.root[j] = IF j = i THEN r.root[j] - 1 ELSE r.root[j]
    BY <1>1, CountsGood, UnrootedEffect DEF Good
  <1>3. \A j \in Idx : r.root[j] = IF j = i THEN u.root[j] + 1 ELSE u.root[j]
    <2>1. \A j \in Idx : r.root[j] \in Nat
      BY <1>2, RegistryFields
    <2> QED
      BY <1>2, <2>1
  <1>4. PICK E : E = External(r, P, l)
    OBVIOUS
  <1>5. PICK F : F = External(u, P, l)
    OBVIOUS
  <1>6. E \in Outside /\ F \in Outside
    BY <1>2, <1>4, <1>5, ExternalFacts
  <1>7. \A j \in Idx : E[j] = Plus(F, i)[j]
    BY <1>2, <1>3, <1>4, <1>5, ExternalRooted
  <1>8. Plus(F, i) \in Outside
    BY <1>6, PlusFacts
  <1>9. ASSUME NEW v, Counted(r, Plus(E, v)) PROVE Counted(u, Plus(Plus(F, i), v))
    <2>1. \A j \in Idx : Plus(Plus(F, i), v)[j] = Plus(E, v)[j]
      BY <1>6, <1>7, <1>8, PlusSame
    <2> QED
      BY <1>2, <1>9, <2>1, CountedSame
  <1>10. ASSUME Counted(r, E) PROVE Counted(u, Plus(F, i))
    BY <1>2, <1>7, <1>10, CountedSame
  <1>11. Inner(u, Obj) = Inner(r, Obj)
    BY <1>2 DEF Inner, Holders, Live
  <1> QED
    BY <1>1, <1>2, <1>4, <1>5, <1>6, <1>7, <1>9, <1>10, <1>11

\* A reference in hand goes to the VM.
LEMMA RootedBalance ==
    ASSUME NEW r, Good(r), NEW i \in Idx, r.root[i] < MaxRoots, NEW P, NEW l,
           Counted(r, Plus(External(r, P, l), i))
    PROVE  LET s == Rooted(r, i)
           IN  Good(s) /\ Counted(s, External(s, P, l)) /\ Inner(s, Obj) = Inner(r, Obj) /\ s.slot = r.slot
  <1>1. PICK s : s = Rooted(r, i)
    OBVIOUS
  <1>2. /\ r \in Registries /\ s \in Registries /\ Good(s) /\ s.slot = r.slot
        /\ \A j \in Idx : s.root[j] = IF j = i THEN r.root[j] + 1 ELSE r.root[j]
    BY <1>1, CountsGood, RootedEffect DEF Good
  <1>3. \A j \in Idx : External(s, P, l)[j] = Plus(External(r, P, l), i)[j]
    BY <1>2, ExternalRooted
  <1>4. Counted(s, External(s, P, l))
    BY <1>2, <1>3, CountedSame
  <1>5. Inner(s, Obj) = Inner(r, Obj)
    BY <1>2 DEF Inner, Holders, Live
  <1> QED
    BY <1>1, <1>2, <1>4, <1>5

\* A live struct gets a reference from the VM, counted.
LEMMA DuplicatedBalance ==
    ASSUME NEW r, Good(r), NEW i \in Idx, r.root[i] < MaxRoots, r.slot[i].live, NEW P, NEW l,
           Counted(r, External(r, P, l))
    PROVE  LET s == Incref(Rooted(r, i), i)
           IN  /\ Good(s) /\ Counted(s, External(s, P, l)) /\ Inner(s, Obj) = Inner(r, Obj)
               /\ \A j \in Idx : /\ s.slot[j].live = r.slot[j].live /\ s.slot[j].field = r.slot[j].field
                                 /\ s.slot[j].snap = r.slot[j].snap /\ s.root[j] >= r.root[j]
  <1>1. PICK a : a = Rooted(r, i)
    OBVIOUS
  <1>2. /\ r \in Registries /\ a \in Registries /\ Good(a) /\ a.slot = r.slot
        /\ \A j \in Idx : a.root[j] = IF j = i THEN r.root[j] + 1 ELSE r.root[j]
    BY <1>1, CountsGood, RootedEffect DEF Good
  <1>3. External(r, P, l) \in Outside
    BY <1>2, ExternalFacts
  <1>4. Counted(a, External(r, P, l))
    BY <1>2, CountedSame
  <1>5. PICK s : s = Incref(a, i)
    OBVIOUS
  <1>6. /\ s \in Registries /\ s.root = a.root /\ Good(s)
        /\ \A j \in Idx : /\ s.slot[j].live = a.slot[j].live /\ s.slot[j].field = a.slot[j].field
                          /\ s.slot[j].snap = a.slot[j].snap
    BY <1>2, <1>5, IncrefEffect, CountsGood
  <1>7. Counted(s, Plus(External(r, P, l), i))
    BY <1>2, <1>3, <1>4, <1>5, CountedIncref
  <1>8. \A j \in Idx : s.root[j] = IF j = i THEN r.root[j] + 1 ELSE r.root[j]
    BY <1>2, <1>6
  <1>9. \A j \in Idx : External(s, P, l)[j] = Plus(External(r, P, l), i)[j]
    BY <1>2, <1>6, <1>8, ExternalRooted
  <1>10. Counted(s, External(s, P, l))
    BY <1>7, <1>9, CountedSame
  <1>11. Inner(s, Obj) = Inner(r, Obj)
    BY <1>2, <1>6, SameInner
  <1>12. \A j \in Idx : s.root[j] >= r.root[j]
    <2>1. \A j \in Idx : r.root[j] \in Nat
      BY <1>2, RegistryFields
    <2> QED
      BY <1>8, <2>1
  <1> QED
    BY <1>1, <1>2, <1>5, <1>6, <1>10, <1>11, <1>12

\* What is in hand is released.
LEMMA ReleasedBalance ==
    ASSUME NEW r, Good(r), NEW o \in Int, NEW v \in Fields, NEW P, NEW l, Counted(r, Plus(External(r, P, l), v))
    PROVE  LET m == Released(r, o, v)
           IN  /\ Good(m.r) /\ Counted(m.r, External(m.r, P, l)) /\ ~m.dead /\ m.obj \in Int
               /\ m.obj - Inner(m.r, Obj) = o - Inner(r, Obj) - (IF v = Obj THEN 1 ELSE 0)
               /\ \A i \in Idx : m.r.slot[i].snap => r.slot[i].snap
  <1>1. PICK m : m = Released(r, o, v)
    OBVIOUS
  <1>2. Good(m.r) /\ Keeps(r, m.r) /\ m.obj \in Int
    BY <1>1, ReleasedEffect
  <1>3. PICK E \in Outside : E = External(r, P, l)
    BY ExternalFacts DEF Good
  <1>4. /\ Counted(m.r, E) /\ ~m.dead
        /\ m.obj - Inner(m.r, Obj) = o - Inner(r, Obj) - (IF v = Obj THEN 1 ELSE 0)
    BY <1>1, <1>3, CountedReleased
  <1>5. External(m.r, P, l) = E
    BY <1>2, <1>3 DEF Keeps, External
  <1> QED
    BY <1>1, <1>2, <1>4, <1>5 DEF Keeps

LEMMA CreateBalance ==
    ASSUME Sound, Balanced(regs, px, obj), NEW v \in Fields, Create(v)
    PROVE  Balanced(regs', px', obj')
  <1>1. PICK r : r = IF v \in Idx THEN Unrooted(Cur, v) ELSE Cur
    OBVIOUS
  <1>2. /\ Good(r) /\ r.len = Cur.len /\ r.free = Cur.free /\ r.slot = Cur.slot
        /\ Counted(r, Plus(External(r, px, Top), v))
        /\ \A j \in Idx : r.root[j] <= Cur.root[j]
    <2>0. \A j \in Idx : Cur.root[j] \in Nat
      BY SoundFacts, RegistryFields
    <2>1. CASE v \in Idx
      <3>1. Cur.root[v] > 0 /\ r = Unrooted(Cur, v)
        BY <1>1, <2>1 DEF Create
      <3>2. /\ r.len = Cur.len /\ r.free = Cur.free
            /\ \A j \in Idx : r.root[j] = IF j = v THEN Cur.root[j] - 1 ELSE Cur.root[j]
        BY <2>1, <3>1, SoundFacts, UnrootedEffect
      <3>3. Good(Cur) /\ Counted(Cur, External(Cur, px, Top))
        BY SoundFacts, TopBalance
      <3>4. Good(r) /\ r.slot = Cur.slot /\ Counted(r, Plus(External(r, px, Top), v))
        BY <2>1, <3>1, <3>3, UnrootedBalance
      <3>5. \A j \in Idx : r.root[j] <= Cur.root[j]
        BY <2>0, <3>2
      <3> QED
        BY <3>2, <3>4, <3>5
    <2>2. CASE v \notin Idx
      <3>1. r = Cur
        BY <1>1, <2>2
      <3>2. Counted(r, Plus(External(r, px, Top), v))
        BY <2>2, <3>1, TopBalance, NothingInHand
      <3> QED
        BY <2>0, <3>1, <3>2, SoundFacts
    <2> QED
      BY <2>1, <2>2
  <1>3. PICK n : n = NextIdx(r)
    OBVIOUS
  <1>4. n = NextIdx(Cur) /\ HasRoom(r) /\ Cur.root[n] < MaxRoots
    BY <1>2, <1>3 DEF Create, NextIdx, HasRoom
  <1>5. PICK c : c = Created(r, v)
    OBVIOUS
  <1>6. /\ n \in Idx /\ Good(c) /\ c.root = r.root
        /\ \A j \in Idx : c.slot[j] = IF j = n THEN Slot(1, v, FALSE) ELSE r.slot[j]
    BY <1>2, <1>3, <1>4, <1>5, CreatedEffect DEF Good
  <1>7. c.root[n] < MaxRoots
    <2>1. r.root[n] <= Cur.root[n] /\ r.root[n] \in Nat /\ Cur.root[n] \in Nat
      BY <1>2, <1>6, SoundFacts, RegistryFields DEF Good
    <2> QED
      BY <1>4, <1>6, <2>1, RegistryConstants
  <1>8. PICK E \in Outside : E = External(r, px, Top)
    BY <1>2, ExternalFacts DEF Good
  <1>9. Counted(c, Plus(E, n)) /\ Inner(c, Obj) = Inner(r, Obj) + (IF v = Obj THEN 1 ELSE 0)
    BY <1>2, <1>3, <1>4, <1>5, <1>8, CountedCreated DEF Good
  <1>10. External(c, px, Top) = E
    BY <1>6, <1>8 DEF External
  <1>11. PICK s : s = Rooted(c, n)
    OBVIOUS
  <1>12. Good(s) /\ Counted(s, External(s, px, Top)) /\ Inner(s, Obj) = Inner(c, Obj) /\ s.slot = c.slot
    BY <1>6, <1>7, <1>9, <1>10, <1>11, RootedBalance
  <1>13. regs' = [regs EXCEPT ![Top] = s] /\ px' = px /\ obj' = IF v = Obj THEN obj + 1 ELSE obj
    BY <1>1, <1>3, <1>5, <1>11 DEF Create, SetCur
  <1>14. \A i \in Idx : s.slot[i].snap => regs[Top].slot[i].snap
    <2>1. ~Slot(1, v, FALSE).snap
      BY NewSlots
    <2>2. \A i \in Idx : s.slot[i].snap => r.slot[i].snap
      BY <1>6, <1>12, <2>1
    <2> QED
      BY <1>2, <2>2 DEF Cur
  <1>15. obj' \in Int /\ obj' - Inner(s, Obj) = obj - Inner(regs[Top], Obj)
    <2>1. Inner(r, Obj) = Inner(regs[Top], Obj)
      BY <1>2 DEF Inner, Holders, Live, Cur
    <2>2. Inner(r, Obj) \in Nat /\ obj \in Int
      BY InnerFacts, SoundFacts
    <2> QED
      BY <1>9, <1>12, <1>13, <2>1, <2>2
  <1>16. Top \in 1 .. Top
    BY SoundFacts
  <1> QED
    BY <1>12, <1>13, <1>14, <1>15, <1>16, EditedBalance

\* An edit of the running VM's registry that leaves the proxies alone.
LEMMA RunningBalance ==
    ASSUME Sound, Balanced(regs, px, obj), NEW s, Good(s), regs' = [regs EXCEPT ![Top] = s], px' = px,
           Counted(s, External(s, px, Top)), \A i \in Idx : s.slot[i].snap => Cur.slot[i].snap,
           obj' \in Int, obj' - Inner(s, Obj) = obj - Inner(Cur, Obj)
    PROVE  Balanced(regs', px', obj')
  <1>1. Top \in 1 .. Top
    BY SoundFacts
  <1> QED
    BY <1>1, EditedBalance DEF Cur

LEMMA DupBalance ==
    ASSUME Sound, Balanced(regs, px, obj), NEW i \in Idx, Dup(i)
    PROVE  Balanced(regs', px', obj')
  <1>1. Cur.root[i] < MaxRoots /\ Cur.root[i] > 0 /\ Good(Cur)
    <2>1. Cur.root[i] \in 1 .. (MaxRoots - 1)
      BY DEF Dup
    <2> QED
      BY <2>1, SoundFacts, RegistryConstants
  <1>2. Cur.slot[i].live /\ Counted(Cur, External(Cur, px, Top))
    BY <1>1, TopBalance
  <1>3. PICK s : s = Incref(Rooted(Cur, i), i)
    OBVIOUS
  <1>4. /\ Good(s) /\ Counted(s, External(s, px, Top)) /\ Inner(s, Obj) = Inner(Cur, Obj)
        /\ \A j \in Idx : s.slot[j].snap = Cur.slot[j].snap
    BY <1>1, <1>2, <1>3, DuplicatedBalance
  <1>5. regs' = [regs EXCEPT ![Top] = s] /\ px' = px /\ obj' = obj
    BY <1>3 DEF Dup, SetCur
  <1>6. obj' \in Int /\ obj' - Inner(s, Obj) = obj - Inner(Cur, Obj)
    BY <1>4, <1>5, SoundFacts
  <1> QED
    BY <1>4, <1>5, <1>6, RunningBalance

LEMMA ReleaseBalance ==
    ASSUME Sound, Balanced(regs, px, obj), NEW i \in Idx, Release(i)
    PROVE  Balanced(regs', px', obj') /\ dead' = dead
  <1>1. PICK r : r = Unrooted(Cur, i)
    OBVIOUS
  <1>2. Cur.root[i] > 0 /\ Good(Cur) /\ Counted(Cur, External(Cur, px, Top)) /\ i \in Fields /\ i # Obj
    BY TopBalance, SoundFacts, IdxFacts DEF Release
  <1>3. Good(r) /\ Counted(r, Plus(External(r, px, Top), i)) /\ Inner(r, Obj) = Inner(Cur, Obj) /\ r.slot = Cur.slot
    BY <1>1, <1>2, UnrootedBalance
  <1>4. PICK m : m = Released(r, obj, i)
    OBVIOUS
  <1>5. /\ Good(m.r) /\ Counted(m.r, External(m.r, px, Top)) /\ ~m.dead /\ m.obj \in Int
        /\ m.obj - Inner(m.r, Obj) = obj - Inner(r, Obj) - (IF i = Obj THEN 1 ELSE 0)
        /\ \A j \in Idx : m.r.slot[j].snap => r.slot[j].snap
    BY <1>2, <1>3, <1>4, SoundFacts, ReleasedBalance
  <1>6. regs' = [regs EXCEPT ![Top] = m.r] /\ px' = px /\ obj' = m.obj /\ dead' = (dead \/ m.dead)
    BY <1>1, <1>4 DEF Release, Apply
  <1>7. obj' \in Int /\ obj' - Inner(m.r, Obj) = obj - Inner(Cur, Obj)
    <2>1. Inner(Cur, Obj) \in Nat /\ obj \in Int
      BY InnerFacts, SoundFacts
    <2> QED
      BY <1>2, <1>3, <1>5, <1>6, <2>1
  <1>8. \A j \in Idx : m.r.slot[j].snap => Cur.slot[j].snap
    BY <1>3, <1>5
  <1>9. dead' = dead
    BY <1>5, <1>6, SoundFacts
  <1>10. Balanced(regs', px', obj')
    BY <1>5, <1>6, <1>7, <1>8, RunningBalance
  <1> QED
    BY <1>9, <1>10

LEMMA GetFieldBalance ==
    ASSUME Sound, Balanced(regs, px, obj), NEW i \in Idx, GetField(i)
    PROVE  Balanced(regs', px', obj') /\ dead' = dead
  <1>1. PICK j : j = Cur.slot[i].field
    OBVIOUS
  <1>2. j \in Idx /\ Cur.slot[j].live /\ Cur.root[j] < MaxRoots /\ Cur.root[i] > 0
    BY <1>1 DEF GetField, Live
  <1>3. PICK b : b = Incref(Rooted(Cur, j), j)
    OBVIOUS
  <1>4. Good(Cur) /\ Counted(Cur, External(Cur, px, Top))
    BY TopBalance, SoundFacts
  <1>5. /\ Good(b) /\ Counted(b, External(b, px, Top)) /\ Inner(b, Obj) = Inner(Cur, Obj)
        /\ \A k \in Idx : b.slot[k].snap = Cur.slot[k].snap /\ b.root[k] >= Cur.root[k]
    BY <1>2, <1>3, <1>4, DuplicatedBalance
  <1>6. b.root[i] > 0
    <2>1. b.root[i] \in Nat /\ Cur.root[i] \in Nat /\ b.root[i] >= Cur.root[i]
      BY <1>4, <1>5, RegistryFields DEF Good
    <2> QED
      BY <1>2, <2>1
  <1>7. PICK r : r = Unrooted(b, i)
    OBVIOUS
  <1>8. Good(r) /\ Counted(r, Plus(External(r, px, Top), i)) /\ Inner(r, Obj) = Inner(b, Obj) /\ r.slot = b.slot
    BY <1>5, <1>6, <1>7, UnrootedBalance
  <1>9. PICK m : m = Released(r, obj, i)
    OBVIOUS
  <1>10. i \in Fields /\ i # Obj /\ obj \in Int
    BY IdxFacts, SoundFacts
  <1>11. /\ Good(m.r) /\ Counted(m.r, External(m.r, px, Top)) /\ ~m.dead /\ m.obj \in Int
         /\ m.obj - Inner(m.r, Obj) = obj - Inner(r, Obj) - (IF i = Obj THEN 1 ELSE 0)
         /\ \A k \in Idx : m.r.slot[k].snap => r.slot[k].snap
    BY <1>8, <1>9, <1>10, ReleasedBalance
  <1>12. regs' = [regs EXCEPT ![Top] = m.r] /\ px' = px /\ obj' = m.obj /\ dead' = (dead \/ m.dead)
    BY <1>1, <1>3, <1>7, <1>9 DEF GetField, Apply
  <1>13. obj' \in Int /\ obj' - Inner(m.r, Obj) = obj - Inner(Cur, Obj)
    <2>1. Inner(Cur, Obj) \in Nat
      BY InnerFacts
    <2> QED
      BY <1>5, <1>8, <1>10, <1>11, <1>12, <2>1
  <1>14. \A k \in Idx : m.r.slot[k].snap => Cur.slot[k].snap
    BY <1>5, <1>8, <1>11
  <1>15. dead' = dead
    BY <1>11, <1>12, SoundFacts
  <1>16. Balanced(regs', px', obj')
    BY <1>11, <1>12, <1>13, <1>14, RunningBalance
  <1> QED
    BY <1>15, <1>16

LEMMA SetFieldBalance ==
    ASSUME Sound, Balanced(regs, px, obj), NEW i \in Idx, NEW v \in Fields, SetField(i, v)
    PROVE  Balanced(regs', px', obj') /\ dead' = dead
  <1>1. PICK a : a = IF v \in Idx THEN Unrooted(Cur, v) ELSE Cur
    OBVIOUS
  <1>2. /\ Good(a) /\ a.root[i] > 0 /\ a.slot = Cur.slot /\ Inner(a, Obj) = Inner(Cur, Obj)
        /\ Counted(a, Plus(External(a, px, Top), v))
    <2>1. Good(Cur) /\ Counted(Cur, External(Cur, px, Top))
      BY SoundFacts, TopBalance
    <2>2. CASE v \in Idx
      <3>1. Cur.root[v] > 0 /\ v # i /\ a = Unrooted(Cur, v)
        BY <1>1, <2>2, ChainFacts DEF SetField
      <3>2. /\ Good(a) /\ a.slot = Cur.slot /\ Inner(a, Obj) = Inner(Cur, Obj)
            /\ Counted(a, Plus(External(a, px, Top), v))
        BY <2>1, <2>2, <3>1, UnrootedBalance
      <3>3. a.root[i] = Cur.root[i]
        BY <2>2, <3>1, SoundFacts, UnrootedEffect
      <3> QED
        BY <3>2, <3>3 DEF SetField
    <2>3. CASE v \notin Idx
      <3>1. a = Cur
        BY <1>1, <2>3
      <3>2. Counted(a, Plus(External(a, px, Top), v))
        BY <2>3, <3>1, TopBalance, NothingInHand
      <3> QED
        BY <2>1, <3>1, <3>2 DEF SetField
    <2> QED
      BY <2>2, <2>3
  <1>3. PICK E \in Outside : E = External(a, px, Top)
    BY <1>2, ExternalFacts DEF Good
  <1>4. PICK r : r = WithField(a, i, v)
    OBVIOUS
  <1>5. PICK f \in Fields : f = Cur.slot[i].field /\ f = a.slot[i].field
    BY <1>2, SoundFacts, RegistryFields
  <1>6. a.slot[i].live
    BY <1>2 DEF SetField
  <1>7. /\ Good(r) /\ r.root = a.root
        /\ \A j \in Idx : r.slot[j].snap = a.slot[j].snap
    BY <1>2, <1>4, WithFieldEffect
  <1>8. /\ Counted(r, Plus(E, f))
        /\ Inner(r, Obj) + (IF f = Obj THEN 1 ELSE 0) = Inner(a, Obj) + (IF v = Obj THEN 1 ELSE 0)
    BY <1>2, <1>3, <1>4, <1>5, <1>6, CountedWithField DEF Good
  <1>9. External(r, px, Top) = E
    BY <1>3, <1>7 DEF External
  <1>10. PICK u : u = Unrooted(r, i)
    OBVIOUS
  <1>11. PICK F : F = External(u, px, Top)
    OBVIOUS
  <1>12. /\ Good(u) /\ F \in Outside /\ Inner(u, Obj) = Inner(r, Obj) /\ u.slot = r.slot
         /\ Counted(u, Plus(Plus(F, i), f))
    <2>1. r.root[i] > 0
      BY <1>2, <1>7
    <2>2. /\ Good(u) /\ F \in Outside /\ Inner(u, Obj) = Inner(r, Obj) /\ u.slot = r.slot
          /\ \A w : Counted(r, Plus(External(r, px, Top), w)) => Counted(u, Plus(Plus(F, i), w))
      BY <1>7, <1>10, <1>11, <2>1, UnrootedBalance
    <2> QED
      BY <1>8, <1>9, <2>2
  <1>13. PICK o \in Int : o = IF v = Obj THEN obj + 1 ELSE obj
    BY SoundFacts
  <1>14. PICK m : m = Released(u, o, f)
    OBVIOUS
  <1>15. PICK G \in Outside : G = Plus(F, i)
    BY <1>12, PlusFacts
  <1>16. /\ Counted(m.r, G) /\ ~m.dead
         /\ m.obj - Inner(m.r, Obj) = o - Inner(u, Obj) - (IF f = Obj THEN 1 ELSE 0)
    BY <1>12, <1>14, <1>15, CountedReleased
  <1>17. Good(m.r) /\ m.obj \in Int /\ Keeps(u, m.r)
    BY <1>12, <1>14, ReleasedEffect
  <1>18. External(m.r, px, Top) = F
    BY <1>11, <1>17 DEF Keeps, External
  <1>19. PICK n : n = Released(m.r, m.obj, i)
    OBVIOUS
  <1>20. i \in Fields /\ i # Obj /\ obj \in Int
    BY IdxFacts, SoundFacts
  <1>21. /\ Good(n.r) /\ Counted(n.r, External(n.r, px, Top)) /\ ~n.dead /\ n.obj \in Int
         /\ n.obj - Inner(n.r, Obj) = m.obj - Inner(m.r, Obj) - (IF i = Obj THEN 1 ELSE 0)
         /\ \A k \in Idx : n.r.slot[k].snap => m.r.slot[k].snap
    <2>1. Counted(m.r, Plus(External(m.r, px, Top), i))
      BY <1>15, <1>16, <1>18
    <2> QED
      BY <1>17, <1>19, <1>20, <2>1, ReleasedBalance
  <1>22. n \in Releases
    BY <1>17, <1>19, <1>20, ReleasedEffect
  <1>23. regs' = [regs EXCEPT ![Top] = n.r] /\ px' = px /\ obj' = n.obj /\ dead' = (dead \/ n.dead \/ m.dead)
    <2>1. Apply(Top, [n EXCEPT !.dead = @ \/ m.dead])
      <3>1. u = Unrooted(WithField(a, i, v), i) /\ m = Released(u, o, Cur.slot[i].field) /\ n = Released(m.r, m.obj, i)
        BY <1>4, <1>5, <1>10, <1>14, <1>19
      <3> QED
        BY <1>1, <1>13, <3>1, SetFieldIs
    <2>3. px' = px
      BY DEF SetField
    <2>2. /\ [n EXCEPT !.dead = @ \/ m.dead].r = n.r /\ [n EXCEPT !.dead = @ \/ m.dead].obj = n.obj
          /\ [n EXCEPT !.dead = @ \/ m.dead].dead = (n.dead \/ m.dead)
      BY <1>22 DEF Releases
    <2> QED
      BY <2>1, <2>2, <2>3, Zenon DEF Apply
  <1>24. obj' \in Int /\ obj' - Inner(n.r, Obj) = obj - Inner(Cur, Obj)
    <2>1. Inner(Cur, Obj) \in Nat /\ Inner(r, Obj) \in Nat /\ Inner(m.r, Obj) \in Nat /\ Inner(n.r, Obj) \in Nat
      BY InnerFacts
    <2>2. n.obj - Inner(n.r, Obj) = m.obj - Inner(m.r, Obj)
      BY <1>17, <1>20, <1>21, <2>1
    <2>3. m.obj - Inner(m.r, Obj) = obj - Inner(Cur, Obj)
      BY <1>2, <1>8, <1>12, <1>13, <1>16, <1>17, <1>20, <2>1
    <2> QED
      BY <1>21, <1>23, <2>2, <2>3
  <1>25. \A k \in Idx : n.r.slot[k].snap => Cur.slot[k].snap
    BY <1>2, <1>7, <1>12, <1>17, <1>21 DEF Keeps
  <1>26. dead' = dead
    BY <1>16, <1>21, <1>23, SoundFacts
  <1>27. Balanced(regs', px', obj')
    BY <1>21, <1>23, <1>24, <1>25, RunningBalance
  <1> QED
    BY <1>26, <1>27

LEMMA ChainLive ==
    ASSUME NEW r \in Registries, NEW E \in Outside, Counted(r, E), NEW i \in Idx, r.slot[i].live
    PROVE  Chain(r, i) \subseteq Live(r) /\ Chain(r, i) \subseteq Idx
  <1>1. Live(r) \subseteq Idx /\ i \in Live(r)
    BY DEF Live
  <1>2. Closed(r, Live(r))
    BY FieldLive DEF Closed, Live
  <1> QED
    BY <1>1, <1>2, ChainFacts

LEMMA LevelTrace ==
    ASSUME NEW R, NEW l \in Nat, l >= 1, NEW i \in Idx, l = 1 => ~R[1].slot[i].snap
    PROVE  Trace(R, Level(l, i))
  <1>1. l \in 1 .. l
    OBVIOUS
  <1>2. /\ Level(l, i).used /\ Level(l, i).at = l /\ Level(l, i).idx = i
        /\ l = 1 => Level(l, i).by = 0
        /\ l > 1 => Level(l, i).by = l /\ Level(l, i).rec = i
    BY <1>1, LevelEffect
  <1>3. CASE l = 1
    BY <1>2, <1>3 DEF Trace
  <1>4. CASE l > 1
    BY <1>2, <1>4 DEF Trace
  <1> QED
    BY <1>3, <1>4

LEMMA ExportBalance ==
    ASSUME Sound, Balanced(regs, px, obj), NEW i \in Idx, Export(i)
    PROVE  Balanced(regs', px', obj')
  <1>1. PICK S : S = Chain(Cur, i)
    OBVIOUS
  <1>2. S \subseteq Idx /\ S \subseteq Live(Cur) /\ Cardinality(S) <= Cardinality(Unused)
    BY <1>1, ChainFacts DEF Export
  <1>3. PICK g : g = OneGiving(S)
    OBVIOUS
  <1>4. g \in [S -> Proxies] /\ (\A j \in S : ~px[g[j]].used) /\ \A j, k \in S : g[j] = g[k] => j = k
    BY <1>2, <1>3, GivenProxies DEF Unused
  <1>5. PICK Q : Q = Named(px, Top, g)
    OBVIOUS
  <1>6. px' = Q
    BY <1>1, <1>3, <1>5 DEF Export
  <1>7. PICK s : s = WithProxies(Cur, S)
    OBVIOUS
  <1>8. /\ Good(s) /\ s.root = Cur.root
        /\ \A j \in Idx : s.slot[j].snap = Cur.slot[j].snap
    BY <1>7, SoundFacts, WithProxiesEffect
  <1>9. PICK E \in Outside : E = External(Cur, px, Top)
    BY TopBalance
  <1>10. Counted(s, PlusAll(E, S)) /\ Inner(s, Obj) = Inner(Cur, Obj)
    BY <1>2, <1>7, <1>9, SoundFacts, TopBalance, CountedWithProxies
  <1>11. PICK n \in Nat : n = Top /\ n \in 1 .. n
    BY SoundFacts
  <1>12. px \in [Proxies -> ProxySet(n)] /\ Cur \in Registries
    BY <1>11, SoundFacts
  <1>13. /\ \A j \in Idx : External(Cur, Q, n)[j] = PlusAll(External(Cur, px, n), S)[j]
         /\ \A k, j : k # n => At(Q, k, j) = At(px, k, j)
    BY <1>2, <1>4, <1>5, <1>11, <1>12, ExternalNamed
  <1>14. \A x \in Proxies : \/ \E j \in S : g[j] = x /\ Q[x] = Level(n, j)
                            \/ (\A j \in S : g[j] # x) /\ Q[x] = px[x]
    BY <1>2, <1>4, <1>5, <1>11, <1>12, NamedEffect
  <1>15. External(s, Q, n) = External(Cur, Q, n)
    BY <1>8 DEF External
  <1>16. Counted(s, External(s, Q, Top))
    <2>1. \A j \in Idx : External(s, Q, n)[j] = PlusAll(E, S)[j]
      BY <1>9, <1>11, <1>13, <1>15
    <2> QED
      BY <1>10, <1>11, <2>1, CountedSame
  <1>17. regs' = [regs EXCEPT ![Top] = s] /\ obj' = obj
    BY <1>1, <1>7 DEF Export, SetCur
  <1>18. Top = 1 => \A j \in Idx : ~regs'[1].slot[j].snap
    <2>1. SUFFICES ASSUME Top = 1, NEW j \in Idx PROVE ~regs'[1].slot[j].snap
      OBVIOUS
    <2>2. regs'[1] = s /\ Cur = regs[1]
      BY <1>17, <2>1, SoundFacts DEF Cur
    <2> QED
      BY <1>8, <2>2 DEF Balanced, Plain
  <1>19. ASSUME NEW x \in Proxies PROVE px'[x] = px[x] \/ Trace(regs', px'[x])
    <2>1. CASE \E j \in S : g[j] = x /\ Q[x] = Level(n, j)
      <3>1. PICK j \in S : Q[x] = Level(n, j)
        BY <2>1
      <3>2. Trace(regs', Level(n, j))
        <4>1. j \in Idx /\ n >= 1 /\ (n = 1 => ~regs'[1].slot[j].snap)
          BY <1>2, <1>11, <1>18
        <4> QED
          BY <1>11, <4>1, LevelTrace
      <3> QED
        BY <1>6, <3>1, <3>2
    <2>2. CASE Q[x] = px[x]
      BY <1>6, <2>2
    <2> QED
      BY <1>14, <2>1, <2>2
  <1>20. \A k \in 1 .. Top, j \in Idx : k # Top => At(px', k, j) = At(px, k, j)
    BY <1>6, <1>11, <1>13
  <1>21. obj' \in Int /\ obj' - Inner(s, Obj) = obj - Inner(regs[Top], Obj)
    BY <1>10, <1>17, SoundFacts DEF Cur
  <1>22. \A j \in Idx : s.slot[j].snap => regs[Top].slot[j].snap
    BY <1>8 DEF Cur
  <1>23. Counted(s, External(s, px', Top)) /\ Top \in 1 .. Top
    BY <1>6, <1>11, <1>16
  <1> QED
    BY <1>8, <1>17, <1>19, <1>20, <1>21, <1>22, <1>23, EditedBalance

LEMMA ImportTrustedBalance ==
    ASSUME Sound, Balanced(regs, px, obj), NEW x \in Proxies, ImportTrusted(x)
    PROVE  Balanced(regs', px', obj')
  <1>1. PICK i \in Idx : i = px[x].idx
    BY ProxyFacts
  <1>2. Cur.slot[i].live /\ Cur.root[i] < MaxRoots /\ Good(Cur) /\ Counted(Cur, External(Cur, px, Top))
    BY <1>1, SoundFacts, TopBalance DEF ImportTrusted, Trusted
  <1>3. PICK s : s = Incref(Rooted(Cur, i), i)
    OBVIOUS
  <1>4. /\ Good(s) /\ Counted(s, External(s, px, Top)) /\ Inner(s, Obj) = Inner(Cur, Obj)
        /\ \A j \in Idx : s.slot[j].snap = Cur.slot[j].snap
    BY <1>2, <1>3, DuplicatedBalance
  <1>5. regs' = [regs EXCEPT ![Top] = s] /\ px' = px /\ obj' = obj
    BY <1>1, <1>3 DEF ImportTrusted, SetCur
  <1>6. obj' \in Int /\ obj' - Inner(s, Obj) = obj - Inner(Cur, Obj)
    BY <1>4, <1>5, SoundFacts
  <1> QED
    BY <1>4, <1>5, <1>6, RunningBalance

LEMMA DropProxyBalance ==
    ASSUME Sound, Balanced(regs, px, obj), NEW x \in Proxies, DropProxy(x)
    PROVE  Balanced(regs', px', obj') /\ dead' = dead
  <1>1. PICK i \in Idx : i = px[x].idx
    BY ProxyFacts
  <1>2. PICK l : l = px[x].at
    OBVIOUS
  <1>3. l \in 0 .. Top /\ px[x].used /\ Top \in Nat
    BY <1>2, ProxyFacts, SoundFacts DEF DropProxy
  <1>4. /\ px' = [px EXCEPT ![x] = NoProxy] /\ px'[x] = NoProxy
        /\ \A y \in Proxies : y # x => px'[y] = px[y]
    BY SoundFacts DEF DropProxy
  <1>5. ~NoProxy.used /\ NoProxy.by = 0
    BY DEF NoProxy
  <1>6. \A R : Trace(R, NoProxy)
    BY <1>5 DEF Trace
  <1>7. \A k, j : k # l => At(px', k, j) = At(px, k, j)
    BY <1>2, <1>4, <1>5 DEF At
  <1>8. \A y \in Proxies : px'[y] = px[y] \/ Trace(regs', px'[y])
    BY <1>4, <1>6
  <1>9. CASE l = 0
    <2>1. regs' = regs /\ obj' = obj /\ dead' = dead
      BY <1>2, <1>9 DEF DropProxy
    <2>2. \A k \in 1 .. Len(regs), j \in Idx : At(px', k, j) = At(px, k, j)
      BY <1>7, <1>9
    <2>3. Sums(regs, px')
      <3>1. SUFFICES ASSUME NEW k \in 1 .. Len(regs) PROVE Counted(regs[k], External(regs[k], px', k))
        BY DEF Sums
      <3>2. regs[k] \in Registries /\ Counted(regs[k], External(regs[k], px, k))
        BY SoundFacts DEF Balanced, Sums, Good, Top
      <3>3. \A j \in Idx : External(regs[k], px', k)[j] = External(regs[k], px, k)[j]
        BY <2>2, <3>2, ExternalSame
      <3> QED
        BY <3>2, <3>3, CountedSame
    <2>4. \A y \in Proxies : Trace(regs, px'[y])
      BY <1>8, <2>1 DEF Balanced
    <2>5. Balanced(regs, px', obj)
      BY <2>3, <2>4 DEF Balanced
    <2> QED
      BY <2>1, <2>5
  <1>10. CASE l # 0
    <2>1. l \in 1 .. Top
      BY <1>3, <1>10
    <2>2. PICK r : r = regs[l]
      OBVIOUS
    <2>3. Good(r) /\ r \in Registries /\ Counted(r, External(r, px, l)) /\ External(r, px, l) \in Outside
      BY <2>1, <2>2, SoundFacts, TopBalance DEF Good
    <2>4. \A j \in Idx : External(r, px, l)[j] = Plus(External(r, px', l), i)[j]
      <3>1. \A y \in Proxies : y # x => (px[y].used /\ px[y].at = l <=> px'[y].used /\ px'[y].at = l) /\ px[y].idx = px'[y].idx
        BY <1>4
      <3>2. px[x].used /\ px[x].at = l /\ px[x].idx = i /\ ~(px'[x].used /\ px'[x].at = l)
        BY <1>1, <1>2, <1>3, <1>4, <1>5
      <3> QED
        BY <2>3, <3>1, <3>2, ExternalProxy
    <2>5. Counted(r, Plus(External(r, px', l), i))
      BY <2>3, <2>4, CountedSame
    <2>6. r.slot[i].live
      <3>1. PICK F \in Outside : F = External(r, px', l)
        BY <2>3, ExternalFacts
      <3>2. Plus(F, i) \in Outside /\ Plus(F, i)[i] = F[i] + 1 /\ F[i] \in Nat
        BY PlusFacts
      <3>3. Plus(F, i)[i] # 0
        BY <3>2
      <3> QED
        BY <2>3, <2>5, <3>1, <3>2, <3>3, CountedLive
    <2>7. PICK m : m = Released(r, obj, i)
      OBVIOUS
    <2>8. i \in Fields /\ i # Obj /\ obj \in Int
      BY IdxFacts, SoundFacts
    <2>9. /\ Good(m.r) /\ Counted(m.r, External(m.r, px', l)) /\ ~m.dead /\ m.obj \in Int
          /\ m.obj - Inner(m.r, Obj) = obj - Inner(r, Obj) - (IF i = Obj THEN 1 ELSE 0)
          /\ \A k \in Idx : m.r.slot[k].snap => r.slot[k].snap
      BY <2>3, <2>5, <2>7, <2>8, ReleasedBalance
    <2>10. regs' = [regs EXCEPT ![l] = m.r] /\ obj' = m.obj /\ dead' = (dead \/ m.dead)
      <3>1. SlotReleased(r, obj, i) = m
        BY <2>6, <2>7 DEF SlotReleased
      <3> QED
        BY <1>1, <1>2, <1>10, <2>2, <3>1 DEF DropProxy, Apply
    <2>11. obj' \in Int /\ obj' - Inner(m.r, Obj) = obj - Inner(regs[l], Obj)
      <3>1. Inner(r, Obj) \in Nat
        BY InnerFacts
      <3> QED
        BY <2>2, <2>8, <2>9, <2>10, <3>1
    <2>12. \A k \in Idx : m.r.slot[k].snap => regs[l].slot[k].snap
      BY <2>2, <2>9
    <2>13. \A k \in 1 .. Top, j \in Idx : k # l => At(px', k, j) = At(px, k, j)
      BY <1>7
    <2>14. Balanced(regs', px', obj')
      BY <1>8, <2>1, <2>9, <2>10, <2>11, <2>12, <2>13, EditedBalance
    <2>15. dead' = dead
      BY <2>9, <2>10, SoundFacts
    <2> QED
      BY <2>14, <2>15
  <1> QED
    BY <1>9, <1>10

\* A reference to the slot i of level l is in hand, all others are counted.
InHand(R, P, l, i) == \A k \in 1 .. Len(R) :
    Counted(R[k], IF k = l THEN Plus(External(R[k], P, k), i) ELSE External(R[k], P, k))
Rest(R, P, o) == Plain(R) /\ (\A x \in Proxies : Trace(R, P[x])) /\ o = Cardinality(HeapFields(R))

LEMMA HandReleased ==
    ASSUME NEW R, Levels(R), NEW P \in [Proxies -> ProxySet(Len(R))], NEW l \in 1 .. Len(R), NEW i \in Idx,
           NEW o \in Int, NEW d \in Int, InHand(R, P, l, i), Rest(R, P, o - d)
    PROVE  LET m == SlotReleased(R[l], o, i)
           IN  Balanced([R EXCEPT ![l] = m.r], P, m.obj - d) /\ ~m.dead
  <1>1. PICK r : r = R[l]
    OBVIOUS
  <1>2. Good(r) /\ r \in Registries /\ Len(R) \in Nat /\ 1 \in 1 .. Len(R)
    <2>1. Good(R[l]) /\ Len(R) \in Nat
      BY LevelFacts
    <2> QED
      BY <1>1, <2>1 DEF Good
  <1>3. PICK F \in Outside : F = External(r, P, l)
    BY <1>2, ExternalFacts
  <1>4. Counted(r, Plus(F, i))
    BY <1>1, <1>3 DEF InHand
  <1>5. r.slot[i].live
    <2>1. Plus(F, i) \in Outside /\ Plus(F, i)[i] = F[i] + 1 /\ F[i] \in Nat
      BY PlusFacts
    <2>2. Plus(F, i)[i] # 0
      BY <2>1
    <2> QED
      BY <1>2, <1>4, <2>1, <2>2, CountedLive
  <1>6. PICK m : m = Released(r, o, i)
    OBVIOUS
  <1>7. i \in Fields /\ i # Obj
    BY IdxFacts
  <1>8. /\ Good(m.r) /\ Counted(m.r, External(m.r, P, l)) /\ ~m.dead /\ m.obj \in Int
        /\ m.obj - Inner(m.r, Obj) = o - Inner(r, Obj) - (IF i = Obj THEN 1 ELSE 0)
        /\ \A k \in Idx : m.r.slot[k].snap => r.slot[k].snap
    BY <1>2, <1>3, <1>4, <1>6, <1>7, ReleasedBalance
  <1>9. SlotReleased(R[l], o, i) = m
    BY <1>1, <1>5, <1>6 DEF SlotReleased
  <1>10. PICK s : s = m.r
    OBVIOUS
  <1>11. PICK S : S = [R EXCEPT ![l] = s]
    OBVIOUS
  <1>12. Len(S) = Len(R) /\ \A k \in 1 .. Len(R) : S[k] = IF k = l THEN s ELSE R[k]
    BY <1>8, <1>10, <1>11, Edited
  <1>13. Sums(S, P)
    <2>1. SUFFICES ASSUME NEW k \in 1 .. Len(R) PROVE Counted(S[k], External(S[k], P, k))
      BY <1>12 DEF Sums
    <2>2. CASE k = l
      BY <1>8, <1>10, <1>12, <2>2
    <2>3. CASE k # l
      BY <1>12, <2>3 DEF InHand
    <2> QED
      BY <2>2, <2>3
  <1>14. \A k \in 1 .. Len(R), j \in Idx : S[k].slot[j].snap => R[k].slot[j].snap
    BY <1>1, <1>8, <1>10, <1>12
  <1>15. Plain(S)
    BY <1>2, <1>14 DEF Rest, Plain
  <1>16. ASSUME NEW x \in Proxies PROVE Trace(S, P[x])
    <2>1. PICK p : p = P[x]
      OBVIOUS
    <2>2. Trace(R, p) /\ p.at \in 0 .. Len(R) /\ p.idx \in Idx
      BY <2>1 DEF Rest, ProxySet
    <2>3. p.at # 0 => p.at \in 1 .. Len(R)
      BY <1>2, <2>2
    <2> QED
      BY <1>14, <2>1, <2>2, <2>3 DEF Trace
  <1>17. m.obj - d = Cardinality(HeapFields(S))
    <2>1. \A k \in 1 .. Len(R) : k # l => S[k] = R[k]
      BY <1>12
    <2>2. /\ Cardinality(HeapFields(S)) + Inner(R[l], Obj) = Cardinality(HeapFields(R)) + Inner(S[l], Obj)
          /\ Cardinality(HeapFields(S)) \in Nat /\ Cardinality(HeapFields(R)) \in Nat
      BY <1>2, <1>12, <2>1, HeapEdited
    <2>3. S[l] = s /\ o - d = Cardinality(HeapFields(R))
      BY <1>12 DEF Rest
    <2>4. Inner(s, Obj) \in Nat /\ Inner(r, Obj) \in Nat
      BY InnerFacts
    <2>5. m.obj - Inner(s, Obj) = o - Inner(r, Obj)
      BY <1>7, <1>8, <1>10, <2>4
    <2>6. PICK a \in Nat, b \in Nat : a = Inner(s, Obj) /\ b = Inner(r, Obj)
      BY <2>4
    <2>7. PICK g \in Nat, h \in Nat : g = Cardinality(HeapFields(S)) /\ h = Cardinality(HeapFields(R))
      BY <2>2
    <2>8. g + b = h + a /\ o - d = h
      BY <1>1, <2>2, <2>3, <2>6, <2>7
    <2>9. PICK e \in Int : e = m.obj
      BY <1>8
    <2>10. e - a = o - b
      BY <2>5, <2>6, <2>9
    <2>11. e - d = g
      BY <2>8, <2>10
    <2> QED
      BY <2>7, <2>9, <2>11
  <1>18. Balanced(S, P, m.obj - d)
    BY <1>13, <1>15, <1>16, <1>17 DEF Balanced
  <1> QED
    BY <1>8, <1>9, <1>10, <1>11, <1>18

LEMMA RecreatedBalance ==
    ASSUME Sound, HasRoom(Cur), Cur.root[NextIdx(Cur)] < MaxRoots, NEW v \in Fields, v \notin Idx,
           NEW E \in Outside, Counted(Cur, E)
    PROVE  LET s == Recreated(v)
               n == NextIdx(Cur)
           IN  /\ n \in Idx /\ Good(s) /\ Counted(s, Plus(Plus(E, n), n))
               /\ \A j \in Idx : s.root[j] = IF j = n THEN Cur.root[j] + 1 ELSE Cur.root[j]
               /\ \A j \in Idx : s.slot[j].snap => Cur.slot[j].snap
               /\ ~s.slot[n].snap /\ ~Cur.slot[n].live
               /\ Inner(s, Obj) = Inner(Cur, Obj) + (IF v = Obj THEN 1 ELSE 0)
  <1>1. PICK n : n = NextIdx(Cur)
    OBVIOUS
  <1>2. PICK c : c = Created(Cur, v)
    OBVIOUS
  <1>3. /\ n \in Idx /\ ~Cur.slot[n].live /\ Good(c) /\ c.root = Cur.root
        /\ \A j \in Idx : c.slot[j] = IF j = n THEN Slot(1, v, FALSE) ELSE Cur.slot[j]
    BY <1>1, <1>2, SoundFacts, CreatedEffect DEF Good
  <1>4. Counted(Cur, Plus(E, v))
    BY NothingInHand
  <1>5. Counted(c, Plus(E, n)) /\ Inner(c, Obj) = Inner(Cur, Obj) + (IF v = Obj THEN 1 ELSE 0)
    BY <1>1, <1>2, <1>4, SoundFacts, CountedCreated
  <1>6. Slot(1, v, FALSE).live /\ ~Slot(1, v, FALSE).snap
    BY NewSlots
  <1>7. PICK a : a = Rooted(c, n)
    OBVIOUS
  <1>8. /\ Good(a) /\ a \in Registries /\ a.slot = c.slot
        /\ \A j \in Idx : a.root[j] = IF j = n THEN Cur.root[j] + 1 ELSE Cur.root[j]
    <2>1. c.root[n] < MaxRoots /\ c \in Registries
      BY <1>1, <1>3 DEF Good
    <2> QED
      BY <1>3, <1>7, <2>1, RootedEffect, CountsGood DEF Good
  <1>9. Counted(a, Plus(E, n)) /\ Plus(E, n) \in Outside
    BY <1>5, <1>8, CountedSame, PlusFacts
  <1>10. a.slot[n].live
    BY <1>3, <1>6, <1>8
  <1>11. PICK s : s = Incref(a, n)
    OBVIOUS
  <1>12. /\ Good(s) /\ s.root = a.root
         /\ \A j \in Idx : /\ s.slot[j].live = a.slot[j].live /\ s.slot[j].field = a.slot[j].field
                           /\ s.slot[j].snap = a.slot[j].snap
    BY <1>3, <1>8, <1>11, IncrefEffect, CountsGood
  <1>13. Counted(s, Plus(Plus(E, n), n))
    BY <1>3, <1>8, <1>9, <1>10, <1>11, CountedIncref
  <1>14. Inner(s, Obj) = Inner(c, Obj)
    BY <1>8, <1>12, SameInner
  <1>15. s = Recreated(v)
    BY <1>1, <1>2, <1>7, <1>11 DEF Recreated
  <1>16. \A j \in Idx : s.root[j] = IF j = n THEN Cur.root[j] + 1 ELSE Cur.root[j]
    BY <1>8, <1>12
  <1>17. ~s.slot[n].snap /\ \A j \in Idx : s.slot[j].snap => Cur.slot[j].snap
    <2>1. \A j \in Idx : s.slot[j].snap = c.slot[j].snap
      BY <1>8, <1>12
    <2>2. ~c.slot[n].snap /\ \A j \in Idx : c.slot[j].snap => Cur.slot[j].snap
      BY <1>3, <1>6
    <2> QED
      BY <1>3, <2>1, <2>2
  <1> QED
    BY <1>1, <1>3, <1>5, <1>12, <1>13, <1>14, <1>15, <1>16, <1>17

\* The references with the proxy x are those without it, and its own.
LEMMA WithOneProxy ==
    ASSUME NEW r \in Registries, NEW P, NEW Z, NEW x \in Proxies, P[x].used, ~Z[x].used, P[x].idx \in Idx,
           \A y \in Proxies : y # x => Z[y] = P[y], NEW k, NEW j \in Idx
    PROVE  External(r, P, k)[j] = (IF k = P[x].at THEN Plus(External(r, Z, k), P[x].idx)[j]
                                   ELSE External(r, Z, k)[j])
  <1>1. PICK i \in Idx : i = P[x].idx
    OBVIOUS
  <1>2. CASE k = P[x].at
    <2>1. \A y \in Proxies : y # x => (P[y].used /\ P[y].at = k <=> Z[y].used /\ Z[y].at = k) /\ P[y].idx = Z[y].idx
      OBVIOUS
    <2>2. P[x].used /\ P[x].at = k /\ P[x].idx = i /\ ~(Z[x].used /\ Z[x].at = k)
      BY <1>1, <1>2
    <2>3. \A h \in Idx : External(r, P, k)[h] = Plus(External(r, Z, k), i)[h]
      BY <2>1, <2>2, ExternalProxy
    <2> QED
      BY <1>1, <1>2, <2>3
  <1>3. CASE k # P[x].at
    <2>1. \A h \in Idx : At(P, k, h) = At(Z, k, h)
      BY <1>3 DEF At
    <2>2. \A h \in Idx : External(r, P, k)[h] = External(r, Z, k)[h]
      BY <2>1, ExternalSame
    <2> QED
      BY <1>3, <2>2
  <1> QED
    BY <1>2, <1>3

\* The orphan's proxy leaves the slot i of level old and has the new slot n of the top one.
Rehomed(x, n, Q) == /\ px[x].used /\ Q[x].used /\ Q[x].at = Top /\ Q[x].idx = n
                    /\ \A y \in Proxies : y # x => Q[y] = px[y]
Anew(s, n) == /\ Good(s) /\ Counted(s, Plus(Plus(External(Cur, px, Top), n), n))
              /\ \A j \in Idx : s.root[j] = IF j = n THEN Cur.root[j] + 1 ELSE Cur.root[j]

LEMMA OrphanSums ==
    ASSUME Sound, Balanced(regs, px, obj), NEW x \in Proxies, NEW s, NEW n \in Idx, Anew(s, n), NEW Q, Rehomed(x, n, Q),
           NEW k \in 1 .. Top, NEW r, r = IF k = Top THEN s ELSE regs[k]
    PROVE  Counted(r, IF k = px[x].at THEN Plus(External(r, Q, k), px[x].idx) ELSE External(r, Q, k))
  <1> /\ px[x].used /\ Q[x].used /\ Q[x].at = Top /\ Q[x].idx = n /\ \A y \in Proxies : y # x => Q[y] = px[y]
      /\ Good(s) /\ Counted(s, Plus(Plus(External(Cur, px, Top), n), n))
      /\ \A j \in Idx : s.root[j] = IF j = n THEN Cur.root[j] + 1 ELSE Cur.root[j]
    BY DEF Anew, Rehomed
  <1>1. PICK i \in Idx : i = px[x].idx
    BY ProxyFacts
  <1>2. PICK old : old = px[x].at
    OBVIOUS
  <1>3. PICK Z : Z = [px EXCEPT ![x] = NoProxy]
    OBVIOUS
  <1>4. ~Z[x].used /\ \A y \in Proxies : y # x => Z[y] = px[y]
    BY <1>3, SoundFacts DEF NoProxy
  <1>5. Good(r) /\ r \in Registries /\ Cur \in Registries /\ s \in Registries
    BY SoundFacts DEF Good
  <1>6. PICK F \in Outside : F = External(r, Z, k)
    BY <1>5, ExternalFacts
  <1>7. External(r, px, k) \in Outside /\ External(r, Q, k) \in Outside
    BY <1>5, ExternalFacts
  <1>8. PICK A \in Outside, B \in Outside : A = External(r, px, k) /\ B = External(r, Q, k)
    BY <1>7
  <1>9. \A j \in Idx : A[j] = IF k = old THEN Plus(F, i)[j] ELSE F[j]
    <2>1. PICK P : P = px
      OBVIOUS
    <2>2. P[x].used /\ ~Z[x].used /\ P[x].idx \in Idx /\ \A y \in Proxies : y # x => Z[y] = P[y]
      BY <1>1, <1>4, <2>1
    <2>3. \A j \in Idx : External(r, P, k)[j] = (IF k = P[x].at THEN Plus(External(r, Z, k), P[x].idx)[j]
                                               ELSE External(r, Z, k)[j])
      BY <1>5, <2>2, WithOneProxy
    <2> QED
      BY <1>1, <1>2, <1>6, <1>8, <2>1, <2>3
  <1>10. \A j \in Idx : B[j] = IF k = Top THEN Plus(F, n)[j] ELSE F[j]
    <2>1. Q[x].idx \in Idx /\ \A y \in Proxies : y # x => Z[y] = Q[y]
      BY <1>4
    <2> QED
      BY <1>4, <1>5, <1>6, <1>8, <2>1, WithOneProxy
  <1>11. \A E \in Outside : \A u, j : j \in Idx => Plus(E, u)[j] = IF j = u THEN E[j] + 1 ELSE E[j]
    BY PlusFacts
  <1>12. Counted(r, IF k = Top THEN Plus(A, n) ELSE A)
    <2>1. CASE k = Top
      <3>1. PICK E \in Outside : E = External(Cur, px, Top)
        BY <1>5, ExternalFacts
      <3>2. r = s /\ Plus(E, n) \in Outside
        BY <2>1, PlusFacts
      <3>3. \A j \in Idx : A[j] = Plus(E, n)[j]
        BY <1>5, <1>8, <2>1, <3>1, <3>2, ExternalRooted
      <3>4. \A j \in Idx : Plus(A, n)[j] = Plus(Plus(E, n), n)[j]
        BY <3>2, <3>3, PlusSame
      <3>5. Counted(s, Plus(Plus(E, n), n))
        BY <3>1
      <3>6. Counted(s, Plus(A, n))
        BY <3>4, <3>5, CountedSame
      <3> QED
        BY <2>1, <3>2, <3>6
    <2>2. CASE k # Top
      BY <1>8, <2>2, TopBalance
    <2> QED
      BY <2>1, <2>2
  <1>13. PICK G \in Outside : G = IF k = Top THEN Plus(A, n) ELSE A
    BY PlusFacts
  <1>14. PICK H \in Outside : H = IF k = old THEN Plus(B, i) ELSE B
    BY PlusFacts
  <1>15. \A j \in Idx : H[j] = G[j]
    <2>1. SUFFICES ASSUME NEW j \in Idx PROVE H[j] = G[j]
      OBVIOUS
    <2>2. F[j] \in Nat
      BY PlusFacts
    <2>3. G[j] = A[j] + (IF k = Top /\ j = n THEN 1 ELSE 0) /\ H[j] = B[j] + (IF k = old /\ j = i THEN 1 ELSE 0)
      BY <1>11, <1>13, <1>14, PlusFacts
    <2>4. A[j] = F[j] + (IF k = old /\ j = i THEN 1 ELSE 0) /\ B[j] = F[j] + (IF k = Top /\ j = n THEN 1 ELSE 0)
      BY <1>9, <1>10, <1>11, <2>2
    <2> QED
      BY <2>2, <2>3, <2>4
  <1>16. Counted(r, H)
    BY <1>12, <1>13, <1>15, CountedSame
  <1> QED
    BY <1>1, <1>2, <1>8, <1>14, <1>16

LEMMA ImportOrphanBalance ==
    ASSUME Sound, Balanced(regs, px, obj), NEW x \in Proxies, NEW v \in Fields, ImportOrphan(x, v)
    PROVE  Balanced(regs', px', obj') /\ dead' = dead
  <1>1. PICK n : n = NextIdx(Cur)
    OBVIOUS
  <1>2. PICK s : s = Recreated(v)
    OBVIOUS
  <1>3. PICK E \in Outside : E = External(Cur, px, Top) /\ Counted(Cur, E)
    BY TopBalance
  <1>4. /\ n \in Idx /\ Good(s) /\ Counted(s, Plus(Plus(E, n), n))
        /\ \A j \in Idx : s.root[j] = IF j = n THEN Cur.root[j] + 1 ELSE Cur.root[j]
        /\ \A j \in Idx : s.slot[j].snap => Cur.slot[j].snap
        /\ ~s.slot[n].snap
        /\ Inner(s, Obj) = Inner(Cur, Obj) + (IF v = Obj THEN 1 ELSE 0)
    <2>1. HasRoom(Cur) /\ Cur.root[NextIdx(Cur)] < MaxRoots /\ v \notin Idx
      BY DEF ImportOrphan
    <2> QED
      BY <1>1, <1>2, <1>3, <2>1, RecreatedBalance
  <1>5. PICK o \in Int : o = IF v = Obj THEN obj + 1 ELSE obj
    BY SoundFacts
  <1>6. PICK old : old = px[x].at
    OBVIOUS
  <1>7. PICK i \in Idx : i = px[x].idx
    BY ProxyFacts
  <1>8. PICK rs : rs = [regs EXCEPT ![Top] = s]
    OBVIOUS
  <1>9. PICK Q : Q = px'
    OBVIOUS
  <1>10. px[x].used /\ Q = [px EXCEPT ![x].at = Top, ![x].idx = n]
    BY <1>1, <1>9 DEF ImportOrphan
  <1>11. Q \in [Proxies -> ProxySet(Top)]
    BY <1>4, <1>10, ProxyMoved
  <1>12. /\ Q[x].used /\ Q[x].at = Top /\ Q[x].idx = n /\ Q[x].by = px[x].by /\ Q[x].rec = px[x].rec
         /\ \A y \in Proxies : y # x => Q[y] = px[y]
    BY <1>10, SoundFacts, ProxyFacts DEF ProxySet
  <1>13. Top \in 1 .. Top /\ Top \in Nat /\ 1 \in 1 .. Top /\ old \in 0 .. Top /\ Levels(regs)
    BY <1>6, SoundFacts, ProxyFacts
  <1>14. Levels(rs) /\ Len(rs) = Top /\ \A k \in 1 .. Top : rs[k] = IF k = Top THEN s ELSE regs[k]
    <2>1. Top \in 1 .. Len(regs) /\ Top = Len(regs) /\ Levels(regs) /\ Good(s)
      BY <1>4, <1>13 DEF Top
    <2>2. PICK R, l : R = regs /\ l = Top
      OBVIOUS
    <2>3. Levels(R) /\ l \in 1 .. Len(R)
      BY <2>1, <2>2
    <2>4. /\ Levels([R EXCEPT ![l] = s]) /\ Len([R EXCEPT ![l] = s]) = Len(R)
          /\ \A k \in 1 .. Len(R) : [R EXCEPT ![l] = s][k] = IF k = l THEN s ELSE R[k]
      BY <2>1, <2>3, Edited
    <2> QED
      BY <1>8, <2>1, <2>2, <2>4
  <1>15. \A k \in 1 .. Top : Counted(rs[k], IF k = old THEN Plus(External(rs[k], Q, k), i) ELSE External(rs[k], Q, k))
    <2>1. SUFFICES ASSUME NEW k \in 1 .. Top
                   PROVE  Counted(rs[k], IF k = old THEN Plus(External(rs[k], Q, k), i) ELSE External(rs[k], Q, k))
      OBVIOUS
    <2>2. PICK r : r = rs[k]
      OBVIOUS
    <2>3. r = IF k = Top THEN s ELSE regs[k]
      BY <1>14, <2>2
    <2>4. Counted(s, Plus(Plus(External(Cur, px, Top), n), n))
      BY <1>3, <1>4
    <2>5. Q[x].used /\ Q[x].at = Top /\ Q[x].idx = n /\ (\A y \in Proxies : y # x => Q[y] = px[y]) /\ px[x].used
      BY <1>10, <1>12
    <2>6. n \in Idx /\ Good(s) /\ \A j \in Idx : s.root[j] = IF j = n THEN Cur.root[j] + 1 ELSE Cur.root[j]
      BY <1>4
    <2>7. Counted(r, IF k = px[x].at THEN Plus(External(r, Q, k), px[x].idx) ELSE External(r, Q, k))
      <3>1. Anew(s, n) /\ Rehomed(x, n, Q)
        BY <2>4, <2>5, <2>6 DEF Anew, Rehomed
      <3> QED
        BY <1>4, <2>3, <3>1, OrphanSums
    <2> QED
      BY <1>6, <1>7, <2>2, <2>7
  <1>16. \A k \in 1 .. Top, j \in Idx : rs[k].slot[j].snap => regs[k].slot[j].snap
    BY <1>4, <1>14 DEF Cur
  <1>17. Plain(rs) /\ \A y \in Proxies : Trace(rs, Q[y])
    <2>1. Plain(rs)
      BY <1>13, <1>16 DEF Balanced, Plain
    <2>2. ASSUME NEW y \in Proxies PROVE Trace(rs, Q[y])
      <3>1. CASE y = x
        <4>1. px[x].by \in 0 .. Top /\ Trace(regs, px[x])
          BY ProxyFacts DEF Balanced
        <4>2. ~rs[Top].slot[n].snap
          BY <1>4, <1>13, <1>14
        <4> QED
          BY <1>12, <1>13, <3>1, <4>1, <4>2 DEF Trace
      <3>2. CASE y # x
        <4>1. PICK p : p = px[y]
          OBVIOUS
        <4>2. Trace(regs, p) /\ p.at \in 0 .. Top /\ p.idx \in Idx /\ Q[y] = p
          BY <1>12, <3>2, <4>1, ProxyFacts DEF Balanced
        <4>3. p.at # 0 => p.at \in 1 .. Top
          BY <1>13, <4>2
        <4> QED
          BY <1>16, <4>2, <4>3 DEF Trace
      <3> QED
        BY <3>1, <3>2
    <2> QED
      BY <2>1, <2>2
  <1>18. o = Cardinality(HeapFields(rs))
    <2>1. Len(regs) \in Nat /\ Len(rs) = Len(regs) /\ Top \in 1 .. Len(regs)
          /\ \A k \in 1 .. Len(regs) : k # Top => rs[k] = regs[k]
      BY <1>13, <1>14 DEF Top
    <2>2. /\ Cardinality(HeapFields(rs)) + Inner(regs[Top], Obj) = Cardinality(HeapFields(regs)) + Inner(rs[Top], Obj)
          /\ Cardinality(HeapFields(rs)) \in Nat /\ Cardinality(HeapFields(regs)) \in Nat
      BY <2>1, HeapEdited
    <2>3. rs[Top] = s /\ obj = Cardinality(HeapFields(regs)) /\ regs[Top] = Cur
      BY <1>13, <1>14 DEF Balanced, Cur
    <2>4. PICK a \in Nat, b \in Nat : a = Inner(s, Obj) /\ b = Inner(Cur, Obj)
      BY InnerFacts
    <2>5. PICK g \in Nat, h \in Nat : g = Cardinality(HeapFields(rs)) /\ h = Cardinality(HeapFields(regs))
      BY <2>2
    <2>6. g + b = h + a /\ obj = h /\ a = b + (IF v = Obj THEN 1 ELSE 0)
      BY <1>4, <2>2, <2>3, <2>4, <2>5
    <2> QED
      BY <1>5, <2>5, <2>6
  <1>19. CASE old = 0
    <2>1. regs' = rs /\ obj' = o /\ dead' = dead
      BY <1>2, <1>5, <1>6, <1>8, <1>19 DEF ImportOrphan
    <2>2. Sums(rs, Q)
      <3>1. \A k \in 1 .. Top : k # old
        BY <1>19
      <3> QED
        BY <1>14, <1>15, <3>1 DEF Sums
    <2>3. Balanced(rs, Q, o)
      BY <1>17, <1>18, <2>2 DEF Balanced
    <2> QED
      BY <1>9, <2>1, <2>3
  <1>20. CASE old # 0
    <2>1. PICK m : m = SlotReleased(rs[old], o, i)
      OBVIOUS
    <2>2. regs' = [rs EXCEPT ![old] = m.r] /\ obj' = m.obj /\ dead' = (dead \/ m.dead)
      BY <1>2, <1>5, <1>6, <1>7, <1>8, <1>20, <2>1 DEF ImportOrphan
    <2>3. old \in 1 .. Len(rs)
      BY <1>13, <1>14, <1>20
    <2>4. InHand(rs, Q, old, i)
      BY <1>14, <1>15 DEF InHand
    <2>5. o - 0 = o /\ 0 \in Int
      OBVIOUS
    <2>6. Rest(rs, Q, o - 0)
      BY <1>17, <1>18, <2>5 DEF Rest
    <2>7. Q \in [Proxies -> ProxySet(Len(rs))]
      BY <1>11, <1>14
    <2>8. Balanced([rs EXCEPT ![old] = m.r], Q, m.obj - 0) /\ ~m.dead
      BY <1>14, <2>1, <2>3, <2>4, <2>5, <2>6, <2>7, HandReleased
    <2>9. Good(rs[old])
      BY <1>14, <2>3, LevelFacts
    <2>10. m.obj \in Int
      BY <2>1, <2>9, SlotReleasedEffect
    <2>11. m.obj - 0 = m.obj
      BY <2>10
    <2> QED
      BY <1>9, <2>2, <2>8, <2>11, SoundFacts
  <1> QED
    BY <1>19, <1>20

LEMMA TraceShrinks ==
    ASSUME NEW R, NEW S, NEW n \in Nat, NEW p \in ProxySet(n), Trace(R, p),
           \A k \in 1 .. n, j \in Idx : S[k].slot[j].snap => R[k].slot[j].snap
    PROVE  Trace(S, p)
  <1>1. p.at \in 0 .. n /\ p.idx \in Idx
    BY DEF ProxySet
  <1>2. p.at # 0 => p.at \in 1 .. n
    BY <1>1
  <1> QED
    BY <1>1, <1>2 DEF Trace

\* The fields of the live copies that hold the heap object.
LEMMA ObjFieldsInner ==
    ASSUME NEW r
    PROVE  ObjFields(r, Live(r)) = Inner(r, Obj)
  BY DEF ObjFields, Inner, Holders

LEMMA CallBalance ==
    ASSUME Sound, Balanced(regs, px, obj), Call
    PROVE  Balanced(regs', px', obj') /\ dead' = dead
  <1>1. PICK s : s = CloneOf(Cur)
    OBVIOUS
  <1>2. Good(s) /\ \A j \in Idx : s.root[j] = 0
    BY <1>1, SoundFacts, CloneEffect
  <1>3. Levels(regs) /\ Top = Len(regs) /\ Top \in Nat /\ Top >= 1
    BY SoundFacts DEF Top
  <1>4. regs' = Append(regs, s) /\ px' = px /\ dead' = dead
    BY <1>1 DEF Call
  <1>5. PICK S : S = regs'
    OBVIOUS
  <1>6. Len(S) = Top + 1 /\ S[Top + 1] = s /\ \A k \in 1 .. Top : S[k] = regs[k]
    BY <1>2, <1>3, <1>4, <1>5, Pushed
  <1>7. \A j \in Idx : At(px, Top + 1, j) = {}
    BY <1>3, ProxyFacts DEF At
  <1>8. \A j \in Idx : External(s, px, Top + 1)[j] = 0
    <2>1. SUFFICES ASSUME NEW j \in Idx PROVE External(s, px, Top + 1)[j] = 0
      OBVIOUS
    <2>2. s \in Registries
      BY <1>2 DEF Good
    <2>3. External(s, px, Top + 1)[j] = s.root[j] + Cardinality(At(px, Top + 1, j))
      BY <2>2, ExternalFacts
    <2>4. Cardinality(At(px, Top + 1, j)) = 0
      BY <1>7, FS_EmptySet
    <2> QED
      BY <1>2, <2>3, <2>4
  <1>9. Counted(s, External(s, px, Top + 1)) /\ Inner(s, Obj) = Inner(Cur, Obj)
    <2>1. Good(Cur) /\ Counted(Cur, External(Cur, px, Top)) /\ External(Cur, px, Top) \in Outside
      BY SoundFacts, TopBalance
    <2>2. PICK F : F = External(s, px, Top + 1)
      OBVIOUS
    <2>3. \A j \in Idx : F[j] = 0
      BY <1>8, <2>2
    <2> QED
      BY <1>1, <2>1, <2>2, <2>3, CountedClone
  <1>10. Sums(S, px)
    <2>1. SUFFICES ASSUME NEW k \in 1 .. (Top + 1) PROVE Counted(S[k], External(S[k], px, k))
      BY <1>6 DEF Sums
    <2>2. k = Top + 1 \/ k \in 1 .. Top
      BY <1>3
    <2> QED
      BY <1>6, <1>9, <2>2, TopBalance
  <1>11. Plain(S)
    BY <1>3, <1>6 DEF Balanced, Plain
  <1>12. \A x \in Proxies : Trace(S, px[x])
    <2>1. SUFFICES ASSUME NEW x \in Proxies PROVE Trace(S, px[x])
      OBVIOUS
    <2>2. px[x] \in ProxySet(Top) /\ Trace(regs, px[x])
      BY ProxyFacts DEF Balanced
    <2>3. \A k \in 1 .. Top, j \in Idx : S[k].slot[j].snap => regs[k].slot[j].snap
      BY <1>6
    <2> QED
      BY <1>3, <2>2, <2>3, TraceShrinks
  <1>13. obj' = Cardinality(HeapFields(S))
    <2>1. Cardinality(HeapFields(S)) = Cardinality(HeapFields(regs)) + Inner(S[Len(regs) + 1], Obj)
      BY <1>3, <1>6, HeapLonger
    <2>2. obj' = obj + ObjFields(Cur, Live(Cur))
      BY DEF Call
    <2>3. obj = Cardinality(HeapFields(regs))
      BY DEF Balanced
    <2>4. ObjFields(Cur, Live(Cur)) = Inner(Cur, Obj)
      BY ObjFieldsInner
    <2> QED
      BY <1>3, <1>6, <1>9, <2>1, <2>2, <2>3, <2>4
  <1> QED
    BY <1>4, <1>5, <1>10, <1>11, <1>12, <1>13 DEF Balanced
-----------------------------------------------------------------------------
\* A return from a call that kept the two registries' structs apart.

LEMMA Separate ==
    ASSUME Sound, Balanced(regs, px, obj), Top > 1, ~Taints(FALSE)
    PROVE  /\ \A i \in Fresh : Cur.slot[i].field \notin Live(Cur) \ Fresh /\ ~Cur.slot[i].snap
           /\ \A i \in Live(Cur) \ Fresh : /\ Cur.slot[i].field \notin Fresh /\ Cur.slot[i].snap
                                           /\ i \in Live(Caller)
           /\ \A i \in Live(Cur) : Cur.slot[i].field \in Idx => Cur.slot[i].field \in Live(Cur)
           /\ \A x \in Proxies : px[x].used => (Follows(x) <=> px[x].at = Top /\ px[x].idx \in Fresh)
           /\ \A x \in Proxies : px[x].used /\ px[x].at = Top => px[x].idx \in Live(Cur)
  <1>1. \A i \in Fresh : Cur.slot[i].field \notin Live(Cur) \ Fresh /\ ~Cur.slot[i].snap
    BY DEF Taints
  <1>2. \A i \in Live(Cur) \ Fresh : Cur.slot[i].field \notin Fresh /\ Cur.slot[i].snap
    BY DEF Taints
  <1>3. \A i \in Live(Cur) \ Fresh : i \in Live(Caller)
    BY DEF Fresh
  <1>4. Good(Cur) /\ Cur \in Registries /\ Top \in Nat
    BY SoundFacts
  <1>5. PICK E \in Outside : E = External(Cur, px, Top) /\ Counted(Cur, E)
    BY TopBalance
  <1>6. \A i \in Live(Cur) : Cur.slot[i].field \in Idx => Cur.slot[i].field \in Live(Cur)
    BY <1>4, <1>5, FieldLive DEF Live
  <1>7. ASSUME NEW x \in Proxies, px[x].used, px[x].at = Top PROVE px[x].idx \in Live(Cur)
    <2>1. PICK j \in Idx : j = px[x].idx
      BY ProxyFacts
    <2>2. x \in At(px, Top, j)
      BY <1>7, <2>1 DEF At
    <2>3. E[j] # 0
      BY <1>4, <1>5, <2>2, ExternalFacts
    <2> QED
      BY <1>4, <1>5, <2>1, <2>3, CountedLive DEF Live
  <1>8. ASSUME NEW x \in Proxies, px[x].used
        PROVE  Follows(x) <=> px[x].at = Top /\ px[x].idx \in Fresh
    <2>1. CASE px[x].at = Top /\ px[x].idx \in Fresh
      BY <1>8, <2>1 DEF Taints
    <2>2. ASSUME Follows(x) PROVE px[x].at = Top /\ px[x].idx \in Fresh
      <3>1. px[x].by = Top /\ px[x].rec \in Fresh
        BY <2>2 DEF Follows
      <3>2. Trace(regs, px[x]) /\ px[x].at \in 0 .. Top
        BY ProxyFacts DEF Balanced
      <3>3. px[x].at = Top
        BY <1>4, <3>1, <3>2 DEF Trace
      <3>4. CASE px[x].rec = px[x].idx
        BY <3>1, <3>3, <3>4
      <3>5. CASE px[x].rec # px[x].idx
        <4>1. ~Cur.slot[px[x].idx].snap
          BY <1>4, <1>8, <3>2, <3>3, <3>5 DEF Trace, Cur
        <4> QED
          BY <1>2, <1>7, <1>8, <3>3, <4>1
      <3> QED
        BY <3>4, <3>5
    <2> QED
      BY <2>1, <2>2
  <1> QED
    BY <1>1, <1>2, <1>3, <1>6, <1>7, <1>8

LEMMA ReanchoredAt ==
    ASSUME Sound, Balanced(regs, px, obj), Top > 1, ~Taints(FALSE)
    PROVE  /\ \A j \in Fresh : At(Reanchored, Top - 1, j) = At(px, Top, j)
           /\ \A j \in Idx \ Fresh : At(Reanchored, Top - 1, j) = At(px, Top - 1, j)
           /\ \A k \in 1 .. (Top - 1), j \in Idx : k # Top - 1 => At(Reanchored, k, j) = At(px, k, j)
  <1>1. PICK Q : Q = Reanchored
    OBVIOUS
  <1>2. Top \in Nat /\ Top - 1 # 0 /\ Top - 1 # Top /\ px \in [Proxies -> ProxySet(Top)]
    BY SoundFacts
  <1>3. \A x \in Proxies : /\ Q[x].used = px[x].used /\ Q[x].idx = px[x].idx
                           /\ ~Follows(x) => Q[x].at = IF px[x].at = Top THEN 0 ELSE px[x].at
                           /\ Follows(x) => Q[x].at = Top - 1
    <2>1. SUFFICES ASSUME NEW x \in Proxies
                   PROVE  /\ Q[x].used = px[x].used /\ Q[x].idx = px[x].idx
                          /\ ~Follows(x) => Q[x].at = IF px[x].at = Top THEN 0 ELSE px[x].at
                          /\ Follows(x) => Q[x].at = Top - 1
      OBVIOUS
    <2>2. /\ Q[x].used = px[x].used /\ Q[x].idx = px[x].idx
          /\ ~Follows(x) => Q[x] = Forgotten(px[x])
          /\ Follows(x) => Q[x].at = Top - 1
      BY <1>1, <1>2, ReanchoredEffect
    <2>3. Forgotten(px[x]).at = IF px[x].at = Top THEN 0 ELSE px[x].at
      BY <1>2, ProxyFacts, ForgottenEffect
    <2> QED
      BY <2>2, <2>3
  <1>4. \A x \in Proxies : px[x].used => (Follows(x) <=> px[x].at = Top /\ px[x].idx \in Fresh)
    BY Separate
  <1>5. ASSUME NEW j \in Fresh PROVE At(Q, Top - 1, j) = At(px, Top, j)
    <2>1. j \in Idx /\ ~Caller.slot[j].live /\ Good(Caller) /\ Caller \in Registries
      BY SoundFacts, FreshFacts DEF Good
    <2>2. Counted(Caller, External(Caller, px, Top - 1))
      BY SoundFacts, TopBalance DEF Caller
    <2>3. At(px, Top - 1, j) = {}
      BY <2>1, <2>2, ExternalFacts DEF Counted, Balance
    <2>4. \A x \in Proxies : x \notin At(px, Top - 1, j)
      BY <2>3
    <2>5. \A x \in Proxies : Q[x].used /\ Q[x].at = Top - 1 /\ Q[x].idx = j <=> px[x].used /\ px[x].at = Top /\ px[x].idx = j
      <3>1. SUFFICES ASSUME NEW x \in Proxies, px[x].used, px[x].idx = j
                     PROVE  Q[x].at = Top - 1 <=> px[x].at = Top
        BY <1>3
      <3>2. px[x].at # Top - 1
        BY <2>4, <3>1 DEF At
      <3> QED
        BY <1>2, <1>3, <1>4, <3>1, <3>2
    <2> QED
      BY <2>5 DEF At
  <1>6. ASSUME NEW j \in Idx \ Fresh PROVE At(Q, Top - 1, j) = At(px, Top - 1, j)
    <2>1. \A x \in Proxies : Q[x].used /\ Q[x].at = Top - 1 /\ Q[x].idx = j <=> px[x].used /\ px[x].at = Top - 1 /\ px[x].idx = j
      <3>1. SUFFICES ASSUME NEW x \in Proxies, px[x].used, px[x].idx = j
                     PROVE  Q[x].at = Top - 1 <=> px[x].at = Top - 1
        BY <1>3
      <3>2. ~Follows(x)
        BY <1>4, <1>6, <3>1
      <3> QED
        BY <1>2, <1>3, <3>2
    <2> QED
      BY <2>1 DEF At
  <1>7. ASSUME NEW k \in 1 .. (Top - 1), NEW j \in Idx, k # Top - 1 PROVE At(Q, k, j) = At(px, k, j)
    <2>1. k # 0 /\ k # Top
      BY <1>2
    <2>2. \A x \in Proxies : Q[x].used /\ Q[x].at = k /\ Q[x].idx = j <=> px[x].used /\ px[x].at = k /\ px[x].idx = j
      <3>1. SUFFICES ASSUME NEW x \in Proxies, px[x].used, px[x].idx = j
                     PROVE  Q[x].at = k <=> px[x].at = k
        BY <1>3
      <3>2. CASE Follows(x)
        BY <1>3, <1>4, <1>7, <2>1, <3>1, <3>2
      <3>3. CASE ~Follows(x)
        BY <1>3, <2>1, <3>3
      <3> QED
        BY <3>2, <3>3
    <2> QED
      BY <2>2 DEF At
  <1> QED
    BY <1>1, <1>5, <1>6, <1>7

LEMMA ReanchoredTrace ==
    ASSUME Sound, Balanced(regs, px, obj), Top > 1, ~Taints(FALSE), NEW V,
           \A k \in 1 .. (Top - 1), j \in Idx : V[k].slot[j].snap => regs[k].slot[j].snap,
           \A j \in Fresh : ~V[Top - 1].slot[j].snap, NEW x \in Proxies
    PROVE  Trace(V, Reanchored[x])
  <1>1. PICK p : p = px[x]
    OBVIOUS
  <1>2. PICK q : q = Reanchored[x]
    OBVIOUS
  <1>3. Top \in Nat /\ px \in [Proxies -> ProxySet(Top)] /\ p \in ProxySet(Top) /\ Trace(regs, p)
        /\ p.at \in 0 .. Top /\ p.by \in 0 .. Top /\ p.idx \in Idx
    BY <1>1, SoundFacts, ProxyFacts DEF Balanced
  <1>4. p.used => (Follows(x) <=> p.at = Top /\ p.idx \in Fresh)
    BY <1>1, Separate
  <1>5. p.used /\ p.at = Top => p.idx \in Live(Cur)
    BY <1>1, Separate
  <1>6. CASE Follows(x)
    <2>1. /\ q.used = p.used /\ q.idx = p.idx /\ q.at = Top - 1
          /\ q.by = (IF Top - 1 > 1 THEN Top - 1 ELSE 0)
      BY <1>1, <1>2, <1>3, <1>6, ReanchoredEffect
    <2>2. p.by = Top
      BY <1>1, <1>6 DEF Follows
    <2>3. p.used /\ p.idx \in Fresh
      BY <1>3, <1>4, <1>6, <2>2 DEF Trace
    <2>4. ~V[q.at].slot[q.idx].snap
      BY <2>1, <2>3
    <2>5. q.by # 0 => q.used /\ q.by > 1 /\ q.at >= q.by
      BY <1>3, <2>1, <2>3
    <2> QED
      BY <1>2, <2>4, <2>5 DEF Trace
  <1>7. CASE ~Follows(x)
    <2>1. q = Forgotten(p)
      BY <1>1, <1>2, <1>3, <1>7, ReanchoredEffect
    <2>2. /\ q.used = p.used /\ q.idx = p.idx
          /\ q.at = (IF p.at = Top THEN 0 ELSE p.at) /\ q.by = (IF p.by = Top THEN 0 ELSE p.by)
          /\ p.by # Top => q.rec = p.rec
      BY <1>3, <2>1, ForgottenEffect
    <2>3. CASE p.at = Top
      <3>1. q.at = 0
        BY <2>2, <2>3
      <3>2. q.by = 0
        <4>1. SUFFICES ASSUME p.by # 0, p.by # Top PROVE FALSE
          BY <2>2
        <4>2. p.used
          BY <1>3, <4>1 DEF Trace
        <4>3. p.idx \in Live(Cur) \ Fresh
          BY <1>4, <1>5, <1>7, <2>3, <4>2
        <4>4. Cur.slot[p.idx].snap
          BY <4>3, Separate
        <4>5. ~regs[p.at].slot[p.idx].snap
          BY <1>3, <2>3, <4>1, <4>2 DEF Trace
        <4> QED
          BY <2>3, <4>4, <4>5 DEF Cur
      <3> QED
        BY <1>2, <3>1, <3>2 DEF Trace
    <2>4. CASE p.at # Top
      <3>1. p.by # Top
        BY <1>3, <2>4 DEF Trace
      <3>2. q.at = p.at /\ q.by = p.by /\ q.rec = p.rec /\ q.used = p.used /\ q.idx = p.idx
        BY <2>2, <2>4, <3>1
      <3>3. p.at # 0 => p.at \in 1 .. (Top - 1)
        BY <1>3, <2>4
      <3> QED
        BY <1>2, <1>3, <3>2, <3>3 DEF Trace
    <2> QED
      BY <2>3, <2>4
  <1> QED
    BY <1>6, <1>7

\* The caller's registry with the callee's new structs: what held them in the callee.
LEMMA TransplantHolders ==
    ASSUME Sound, Balanced(regs, px, obj), Top > 1, ~Taints(FALSE)
    PROVE  /\ \A j \in Fresh : Holders(Transplanted, j) = Holders(Cur, j)
           /\ \A j \in Idx \ Fresh : Holders(Transplanted, j) = Holders(Caller, j)
           /\ Holders(Transplanted, Obj) = Holders(Caller, Obj) \cup {i \in Fresh : Cur.slot[i].field = Obj}
  <1>1. PICK T : T = Transplanted
    OBVIOUS
  <1>2. Good(Caller) /\ Good(Cur) /\ Caller \in Registries
    BY SoundFacts DEF Good
  <1>3. \A j \in Idx : /\ j \in Fresh => T.slot[j].live /\ T.slot[j].field = Cur.slot[j].field
                       /\ j \notin Fresh => T.slot[j] = Caller.slot[j]
    BY <1>1, <1>2, TransplantedEffect
  <1>4. \A i \in Idx : i \in Fresh <=> Cur.slot[i].live /\ ~Caller.slot[i].live
    BY <1>2, FreshFacts
  <1>5. PICK C \in Outside : C = External(Caller, px, Top - 1) /\ Counted(Caller, C)
    BY SoundFacts, TopBalance DEF Caller
  <1>6. ASSUME NEW j \in Fresh PROVE Holders(T, j) = Holders(Cur, j)
    <2>1. j \in Idx /\ ~Caller.slot[j].live
      BY <1>2, FreshFacts
    <2>2. Inner(Caller, j) = 0
      BY <1>5, <2>1 DEF Counted, Balance
    <2>3. \A i \in Idx : ~(Caller.slot[i].live /\ Caller.slot[i].field = j)
      BY <2>2, InnerFacts
    <2>4. \A i \in Idx : T.slot[i].live /\ T.slot[i].field = j <=> Cur.slot[i].live /\ Cur.slot[i].field = j
      <3>1. SUFFICES ASSUME NEW i \in Idx
                     PROVE  T.slot[i].live /\ T.slot[i].field = j <=> Cur.slot[i].live /\ Cur.slot[i].field = j
        OBVIOUS
      <3>2. CASE i \in Fresh
        BY <1>3, <1>4, <3>2
      <3>3. CASE i \notin Fresh
        <4>1. T.slot[i] = Caller.slot[i]
          BY <1>3, <3>3
        <4>2. Cur.slot[i].live => Cur.slot[i].field # j
          BY <3>3, Separate DEF Live
        <4> QED
          BY <2>3, <4>1, <4>2
      <3> QED
        BY <3>2, <3>3
    <2> QED
      BY <2>4 DEF Holders, Live
  <1>7. ASSUME NEW j \in Idx \ Fresh PROVE Holders(T, j) = Holders(Caller, j)
    <2>1. \A i \in Idx : T.slot[i].live /\ T.slot[i].field = j <=> Caller.slot[i].live /\ Caller.slot[i].field = j
      <3>1. SUFFICES ASSUME NEW i \in Idx
                     PROVE  T.slot[i].live /\ T.slot[i].field = j <=> Caller.slot[i].live /\ Caller.slot[i].field = j
        OBVIOUS
      <3>2. CASE i \in Fresh
        <4>1. ~Caller.slot[i].live /\ i \in Live(Cur) /\ T.slot[i].field = Cur.slot[i].field
          BY <1>3, <1>4, <3>2 DEF Live
        <4>2. Cur.slot[i].field # j
          BY <1>7, <3>2, <4>1, Separate
        <4> QED
          BY <4>1, <4>2
      <3>3. CASE i \notin Fresh
        BY <1>3, <3>3
      <3> QED
        BY <3>2, <3>3
    <2> QED
      BY <2>1 DEF Holders, Live
  <1>8. Holders(T, Obj) = Holders(Caller, Obj) \cup {i \in Fresh : Cur.slot[i].field = Obj}
    <2>1. \A i \in Idx : T.slot[i].live /\ T.slot[i].field = Obj
                           <=> (Caller.slot[i].live /\ Caller.slot[i].field = Obj) \/ (i \in Fresh /\ Cur.slot[i].field = Obj)
      BY <1>3, <1>4
    <2>2. Fresh \subseteq Idx
      BY <1>2, FreshFacts
    <2> QED
      BY <2>1, <2>2 DEF Holders, Live
  <1> QED
    BY <1>1, <1>6, <1>7, <1>8

\* The new structs of the callee, but for the one in hand, are owned as they were.
LEMMA TransplantCounted ==
    ASSUME Sound, Balanced(regs, px, obj), Top > 1, ~Taints(FALSE), NEW v, v \in Idx => v \in Fresh,
           \A j \in Fresh : Cur.root[j] = IF j = v THEN 1 ELSE 0
    PROVE  Counted(Transplanted, Plus(External(Transplanted, Reanchored, Top - 1), v))
  <1>1. PICK T : T = Transplanted
    OBVIOUS
  <1>2. Good(Caller) /\ Good(Cur) /\ Caller \in Registries /\ Cur \in Registries
    BY SoundFacts DEF Good
  <1>3. /\ Good(T) /\ T \in Registries /\ T.root = Caller.root
        /\ \A j \in Idx : /\ j \in Fresh => /\ T.slot[j].live /\ T.slot[j].rc = Cur.slot[j].rc
                                            /\ T.slot[j].field = Cur.slot[j].field /\ T.slot[j].snap = FALSE
                          /\ j \notin Fresh => T.slot[j] = Caller.slot[j]
    BY <1>1, <1>2, TransplantedEffect DEF Good
  <1>4. PICK C \in Outside : C = External(Caller, px, Top - 1) /\ Counted(Caller, C)
    BY SoundFacts, TopBalance DEF Caller
  <1>5. PICK E \in Outside : E = External(Cur, px, Top) /\ Counted(Cur, E)
    BY TopBalance
  <1>6. PICK F \in Outside : F = External(T, Reanchored, Top - 1)
    BY <1>3, ExternalFacts
  <1>7. SUFFICES ASSUME NEW j \in Idx PROVE Balance(T, Plus(F, v), j)
    BY <1>1, <1>6 DEF Counted
  <1>8. Plus(F, v)[j] = IF j = v THEN F[j] + 1 ELSE F[j]
    BY PlusFacts
  <1>9. F[j] = Caller.root[j] + Cardinality(At(Reanchored, Top - 1, j))
    BY <1>3, <1>6, ExternalFacts
  <1>10. CASE j \in Fresh
    <2>1. ~Caller.slot[j].live /\ Cur.slot[j].live
      BY <1>2, <1>10, FreshFacts
    <2>2. Balance(Caller, C, j)
      BY <1>4 DEF Counted
    <2>3. C[j] = 0
      BY <2>1, <2>2 DEF Balance
    <2>4. Caller.root[j] = 0
      BY <1>2, <1>4, <2>3, ExternalFacts
    <2>5. At(Reanchored, Top - 1, j) = At(px, Top, j)
      BY <1>10, ReanchoredAt
    <2>6. PICK a \in Nat : a = Cardinality(At(px, Top, j))
      BY AtFinite
    <2>7. E[j] = Cur.root[j] + a
      BY <1>2, <1>5, <2>6, ExternalFacts
    <2>8. ~Cur.slot[j].snap
      BY <1>10, Separate
    <2>9. Cur.slot[j].rc = Inner(Cur, j) + E[j]
      BY <1>5, <2>1, <2>8 DEF Counted, Balance
    <2>10. Inner(T, j) = Inner(Cur, j) /\ Inner(Cur, j) \in Nat
      BY <1>1, <1>10, TransplantHolders, InnerFacts DEF Inner
    <2>11. PICK n \in Nat : n = Inner(Cur, j)
      BY <2>10
    <2>12. F[j] = a
      BY <1>9, <2>4, <2>5, <2>6
    <2>13. Cur.slot[j].rc = n + Plus(F, v)[j]
      BY <1>8, <1>10, <2>7, <2>9, <2>11, <2>12
    <2>14. T.slot[j].live /\ T.slot[j].rc = n + Plus(F, v)[j] /\ Inner(T, j) = n
      BY <1>3, <1>10, <2>10, <2>11, <2>13
    <2>15. n + Plus(F, v)[j] >= n + Plus(F, v)[j]
      BY <1>8, <2>12
    <2> QED
      BY <2>14, <2>15 DEF Balance
  <1>11. CASE j \notin Fresh
    <2>1. j # v
      BY <1>11
    <2>2. At(Reanchored, Top - 1, j) = At(px, Top - 1, j)
      BY <1>11, ReanchoredAt
    <2>3. C[j] = Caller.root[j] + Cardinality(At(px, Top - 1, j))
      BY <1>2, <1>4, ExternalFacts
    <2>4. Plus(F, v)[j] = C[j]
      BY <1>8, <1>9, <2>1, <2>2, <2>3
    <2>5. Inner(T, j) = Inner(Caller, j)
      BY <1>1, <1>11, TransplantHolders DEF Inner
    <2>6. T.slot[j] = Caller.slot[j]
      BY <1>3, <1>11
    <2>7. Balance(Caller, C, j)
      BY <1>4 DEF Counted
    <2> QED
      BY <2>4, <2>5, <2>6, <2>7 DEF Balance
  <1> QED
    BY <1>10, <1>11

\* The heap object: a struct of the callee is new, or a copy that releases when it is dropped.
LEMMA TransplantHeap ==
    ASSUME Sound, Balanced(regs, px, obj), Top > 1, ~Taints(FALSE)
    PROVE  LET d == ObjFields(Cur, {i \in Live(Cur) : Cur.slot[i].snap})
           IN  /\ d \in Nat /\ \A o : ObjAfterDrop(o) = o - d
               /\ Inner(Transplanted, Obj) + d = Inner(Caller, Obj) + Inner(Cur, Obj)
               /\ Fresh = {} => d = Inner(Cur, Obj)
  <1>1. PICK N, O : /\ N = {i \in Fresh : Cur.slot[i].field = Obj}
                    /\ O = {i \in {h \in Live(Cur) : Cur.slot[h].snap} : Cur.slot[i].field = Obj}
    OBVIOUS
  <1>2. \A i \in Live(Cur) : i \notin Fresh <=> Cur.slot[i].snap
    BY Separate
  <1>3. Good(Caller) /\ Good(Cur) /\ Fresh \subseteq Live(Cur) /\ Live(Cur) \subseteq Idx
    BY SoundFacts DEF Fresh, Live
  <1>4. IsFiniteSet(N) /\ IsFiniteSet(O)
    <2>1. N \subseteq Idx /\ O \subseteq Idx
      BY <1>1, <1>3
    <2> QED
      BY <2>1, IdxFinite
  <1>5. Holders(Cur, Obj) = N \cup O /\ N \cap O = {}
    BY <1>1, <1>2, <1>3 DEF Holders
  <1>6. Inner(Cur, Obj) = Cardinality(N) + Cardinality(O)
    <2>1. Cardinality(N \cup O) = Cardinality(N) + Cardinality(O) - Cardinality(N \cap O)
      BY <1>4, FS_Union
    <2>2. Cardinality(N \cap O) = 0 /\ Cardinality(N) \in Nat /\ Cardinality(O) \in Nat
      BY <1>4, <1>5, FS_EmptySet, FS_CardinalityType
    <2> QED
      BY <1>5, <2>1, <2>2 DEF Inner
  <1>7. Inner(Transplanted, Obj) = Inner(Caller, Obj) + Cardinality(N)
    <2>1. PICK H : H = Holders(Caller, Obj)
      OBVIOUS
    <2>2. H \cap N = {}
      <3>1. \A i \in Fresh : ~Caller.slot[i].live
        BY <1>3, FreshFacts
      <3> QED
        BY <1>1, <2>1, <3>1 DEF Holders, Live
    <2>3. IsFiniteSet(H)
      BY <2>1, InnerFacts
    <2>4. Cardinality(H \cup N) = Cardinality(H) + Cardinality(N) - Cardinality(H \cap N)
      BY <1>4, <2>3, FS_Union
    <2>5. Cardinality(H \cap N) = 0 /\ Cardinality(N) \in Nat /\ Cardinality(H) \in Nat
      BY <1>4, <2>2, <2>3, FS_EmptySet, FS_CardinalityType
    <2>6. Holders(Transplanted, Obj) = H \cup N
      BY <1>1, <2>1, TransplantHolders
    <2> QED
      BY <2>1, <2>4, <2>5, <2>6 DEF Inner
  <1>8. ObjFields(Cur, {i \in Live(Cur) : Cur.slot[i].snap}) = Cardinality(O)
    BY <1>1 DEF ObjFields
  <1>9. Cardinality(N) \in Nat /\ Cardinality(O) \in Nat /\ Inner(Caller, Obj) \in Nat
    BY <1>4, FS_CardinalityType, InnerFacts
  <1>10. Fresh = {} => Cardinality(N) = 0
    BY <1>1, FS_EmptySet
  <1>11. \A o : ObjAfterDrop(o) = o - Cardinality(O)
    BY <1>8 DEF ObjAfterDrop
  <1>12. PICK d \in Nat : d = Cardinality(O)
    BY <1>9
  <1>13. Inner(Transplanted, Obj) + d = Inner(Caller, Obj) + Inner(Cur, Obj)
    BY <1>6, <1>7, <1>9, <1>12
  <1>14. Fresh = {} => d = Inner(Cur, Obj)
    BY <1>6, <1>10, <1>12
  <1> QED
    BY <1>8, <1>11, <1>12, <1>13, <1>14

\* The registries after a return: the caller's is s, made from what was transplanted.
LEMMA Returned ==
    ASSUME Sound, Balanced(regs, px, obj), Top > 1, ~Taints(FALSE), NEW s, Good(s),
           \A j \in Idx : s.slot[j].snap => Caller.slot[j].snap, \A j \in Fresh : ~s.slot[j].snap,
           NEW o \in Int, o - Inner(s, Obj) = obj - Inner(Transplanted, Obj)
    PROVE  LET V == [Front(regs) EXCEPT ![Top - 1] = s]
           IN  /\ Levels(V) /\ Len(V) = Top - 1 /\ \A k \in 1 .. (Top - 1) : V[k] = IF k = Top - 1 THEN s ELSE regs[k]
               /\ Plain(V) /\ \A x \in Proxies : Trace(V, Reanchored[x])
               /\ \A k \in 1 .. (Top - 1) : k # Top - 1 => Counted(V[k], External(V[k], Reanchored, k))
               /\ ObjAfterDrop(o) = Cardinality(HeapFields(V))
  <1>1. Levels(regs) /\ Len(regs) = Top /\ Top \in Nat /\ Top - 1 \in Nat
    BY SoundFacts DEF Top
  <1>2. PICK A : A = Front(regs)
    OBVIOUS
  <1>3. Levels(A) /\ Len(A) = Top - 1 /\ \A k \in 1 .. (Top - 1) : A[k] = regs[k]
    BY <1>1, <1>2, Popped
  <1>4. PICK V : V = [A EXCEPT ![Top - 1] = s]
    OBVIOUS
  <1>5. Levels(V) /\ Len(V) = Top - 1 /\ \A k \in 1 .. (Top - 1) : V[k] = IF k = Top - 1 THEN s ELSE regs[k]
    <2>1. PICK l : l = Top - 1
      OBVIOUS
    <2>2. l \in 1 .. Len(A) /\ Levels(A)
      BY <1>1, <1>3, <2>1
    <2>3. /\ Levels([A EXCEPT ![l] = s]) /\ Len([A EXCEPT ![l] = s]) = Len(A)
          /\ \A k \in 1 .. Len(A) : [A EXCEPT ![l] = s][k] = IF k = l THEN s ELSE A[k]
      BY <2>2, Edited
    <2> QED
      BY <1>3, <1>4, <2>1, <2>3
  <1>6. \A k \in 1 .. (Top - 1), j \in Idx : V[k].slot[j].snap => regs[k].slot[j].snap
    BY <1>5 DEF Caller
  <1>7. Plain(V)
    <2>1. 1 \in 1 .. (Top - 1)
      BY <1>1
    <2> QED
      BY <1>6, <2>1 DEF Balanced, Plain
  <1>8. \A x \in Proxies : Trace(V, Reanchored[x])
    <2>1. Top - 1 \in 1 .. (Top - 1)
      BY <1>1
    <2>2. V[Top - 1] = s
      BY <1>5, <2>1
    <2>3. \A j \in Fresh : ~V[Top - 1].slot[j].snap
      BY <2>2
    <2> QED
      BY <1>6, <2>3, ReanchoredTrace
  <1>9. ASSUME NEW k \in 1 .. (Top - 1), k # Top - 1 PROVE Counted(V[k], External(V[k], Reanchored, k))
    <2>1. PICK r : r = regs[k]
      OBVIOUS
    <2>2. k \in 1 .. Top /\ V[k] = r
      BY <1>1, <1>5, <1>9, <2>1
    <2>3. r \in Registries /\ Counted(r, External(r, px, k))
      BY <2>1, <2>2, SoundFacts, TopBalance DEF Good
    <2>4. \A j \in Idx : At(Reanchored, k, j) = At(px, k, j)
      BY <1>9, ReanchoredAt
    <2>5. \A j \in Idx : External(r, Reanchored, k)[j] = External(r, px, k)[j]
      BY <2>3, <2>4, ExternalSame
    <2>6. Counted(r, External(r, Reanchored, k))
      BY <2>3, <2>5, CountedSame
    <2> QED
      BY <2>2, <2>6
  <1>10. ObjAfterDrop(o) = Cardinality(HeapFields(V))
    <2>1. /\ Cardinality(HeapFields(V)) + Inner(A[Top - 1], Obj) = Cardinality(HeapFields(A)) + Inner(V[Top - 1], Obj)
          /\ Cardinality(HeapFields(V)) \in Nat /\ Cardinality(HeapFields(A)) \in Nat
      <3>1. Len(A) \in Nat /\ Len(V) = Len(A) /\ Top - 1 \in 1 .. Len(A) /\ \A k \in 1 .. Len(A) : k # Top - 1 => V[k] = A[k]
        BY <1>1, <1>3, <1>5
      <3> QED
        BY <3>1, HeapEdited
    <2>2. Cardinality(HeapFields(regs)) = Cardinality(HeapFields(A)) + Inner(regs[Top], Obj)
      <3>1. Len(A) \in Nat /\ Len(regs) = Len(A) + 1 /\ (\A k \in 1 .. Len(A) : regs[k] = A[k]) /\ Len(A) + 1 = Top
        BY <1>1, <1>3
      <3> QED
        BY <3>1, HeapLonger
    <2>3. A[Top - 1] = Caller /\ V[Top - 1] = s /\ regs[Top] = Cur /\ obj = Cardinality(HeapFields(regs))
      BY <1>1, <1>3, <1>5 DEF Caller, Cur, Balanced
    <2>4. PICK d \in Nat : /\ ObjAfterDrop(o) = o - d
                           /\ Inner(Transplanted, Obj) + d = Inner(Caller, Obj) + Inner(Cur, Obj)
      BY TransplantHeap
    <2>5. PICK a \in Nat, b \in Nat, c \in Nat, e \in Nat :
            a = Inner(Transplanted, Obj) /\ b = Inner(Caller, Obj) /\ c = Inner(Cur, Obj) /\ e = Inner(s, Obj)
      BY InnerFacts
    <2>6. PICK g \in Nat, h \in Nat : g = Cardinality(HeapFields(V)) /\ h = Cardinality(HeapFields(A))
      BY <2>1
    <2>7. g + b = h + e
      BY <2>1, <2>3, <2>5, <2>6
    <2>8. obj = h + c
      BY <2>2, <2>3, <2>5, <2>6
    <2>9. o - e = obj - a /\ a + d = b + c
      BY <2>4, <2>5
    <2>10. o - d = g
      BY <2>7, <2>8, <2>9
    <2> QED
      BY <2>4, <2>6, <2>10
  <1> QED
    BY <1>2, <1>4, <1>5, <1>7, <1>8, <1>9, <1>10

LEMMA ReturnOtherBalance ==
    ASSUME Sound, Balanced(regs, px, obj), ReturnOther, ~Taints(FALSE)
    PROVE  Balanced(regs', px', obj') /\ dead' = dead
  <1>1. PICK T : T = Transplanted
    OBVIOUS
  <1>2. Top > 1 /\ Good(Caller) /\ Good(Cur) /\ obj \in Int
    BY SoundFacts DEF ReturnOther
  <1>3. Good(T) /\ (\A j \in Idx : T.slot[j].snap => Caller.slot[j].snap) /\ \A j \in Fresh : ~T.slot[j].snap
    <2>1. Fresh \subseteq Idx
      BY <1>2, FreshFacts
    <2> QED
      BY <1>1, <1>2, <2>1, TransplantedEffect
  <1>4. PICK V : V = [Front(regs) EXCEPT ![Top - 1] = T]
    OBVIOUS
  <1>5. obj - Inner(T, Obj) = obj - Inner(Transplanted, Obj)
    BY <1>1
  <1>6. /\ Levels(V) /\ Len(V) = Top - 1 /\ \A k \in 1 .. (Top - 1) : V[k] = IF k = Top - 1 THEN T ELSE regs[k]
        /\ Plain(V) /\ \A x \in Proxies : Trace(V, Reanchored[x])
        /\ \A k \in 1 .. (Top - 1) : k # Top - 1 => Counted(V[k], External(V[k], Reanchored, k))
        /\ ObjAfterDrop(obj) = Cardinality(HeapFields(V))
    BY <1>2, <1>3, <1>4, <1>5, Returned
  <1>7. Counted(T, External(T, Reanchored, Top - 1))
    <2>1. \A j \in Fresh : Cur.root[j] = IF j = Nil THEN 1 ELSE 0
      <3>1. Nil \notin Idx /\ Fresh \subseteq Idx
        BY <1>2, IdxFacts, FreshFacts
      <3> QED
        BY <3>1 DEF ReturnOther, OnlyRoot
    <2>2. Nil \notin Idx
      BY IdxFacts
    <2>3. Counted(T, Plus(External(T, Reanchored, Top - 1), Nil))
      BY <1>1, <1>2, <2>1, <2>2, TransplantCounted
    <2>4. PICK E \in Outside : E = External(T, Reanchored, Top - 1)
      BY <1>3, ExternalFacts DEF Good
    <2> QED
      BY <2>2, <2>3, <2>4, NothingInHand
  <1>8. Sums(V, Reanchored)
    BY <1>6, <1>7 DEF Sums
  <1>9. Balanced(V, Reanchored, ObjAfterDrop(obj))
    BY <1>6, <1>8 DEF Balanced
  <1>10. regs' = V /\ px' = Reanchored /\ obj' = ObjAfterDrop(obj) /\ dead' = dead
    BY <1>1, <1>4 DEF ReturnOther
  <1> QED
    BY <1>9, <1>10

LEMMA FailBalance ==
    ASSUME Sound, Balanced(regs, px, obj), Fail, ~Taints(TRUE)
    PROVE  Balanced(regs', px', obj') /\ dead' = dead
  <1>1. Top > 1 /\ Fresh = {} /\ ~Taints(FALSE)
    BY DEF Fail, Taints
  <1>2. Levels(regs) /\ Len(regs) = Top /\ Top \in Nat /\ px \in [Proxies -> ProxySet(Top)]
    BY SoundFacts DEF Top
  <1>3. PICK A : A = Front(regs)
    OBVIOUS
  <1>4. Levels(A) /\ Len(A) = Top - 1 /\ \A k \in 1 .. (Top - 1) : A[k] = regs[k]
    BY <1>1, <1>2, <1>3, Popped
  <1>5. PICK Q : Q = px'
    OBVIOUS
  <1>6. \A x \in Proxies : Q[x] = Reanchored[x]
    <2>1. Q = [x \in Proxies |-> Forgotten(px[x])]
      BY <1>5 DEF Fail
    <2>2. \A x \in Proxies : ~Follows(x)
      BY <1>1 DEF Follows
    <2> QED
      BY <1>1, <1>2, <2>1, <2>2, ReanchoredEffect
  <1>7. \A k, j : At(Q, k, j) = At(Reanchored, k, j)
    BY <1>6 DEF At
  <1>8. ASSUME NEW k \in 1 .. (Top - 1) PROVE Counted(A[k], External(A[k], Q, k))
    <2>1. PICK r : r = regs[k]
      OBVIOUS
    <2>2. k \in 1 .. Top /\ A[k] = r
      BY <1>2, <1>4, <2>1
    <2>3. r \in Registries /\ Counted(r, External(r, px, k))
      BY <2>1, <2>2, SoundFacts, TopBalance DEF Good
    <2>4. \A j \in Idx : At(Q, k, j) = At(px, k, j)
      <3>1. \A j \in Idx : j \notin Fresh
        BY <1>1
      <3>2. CASE k = Top - 1
        BY <1>1, <1>7, <3>1, <3>2, ReanchoredAt
      <3>3. CASE k # Top - 1
        BY <1>1, <1>7, <3>3, ReanchoredAt
      <3> QED
        BY <3>2, <3>3
    <2>5. \A j \in Idx : External(r, Q, k)[j] = External(r, px, k)[j]
      BY <2>3, <2>4, ExternalSame
    <2>6. Counted(r, External(r, Q, k))
      BY <2>3, <2>5, CountedSame
    <2> QED
      BY <2>2, <2>6
  <1>9. Sums(A, Q)
    BY <1>4, <1>8 DEF Sums
  <1>10. Plain(A)
    <2>1. 1 \in 1 .. (Top - 1)
      BY <1>1, <1>2
    <2> QED
      BY <1>4, <2>1 DEF Balanced, Plain
  <1>11. \A x \in Proxies : Trace(A, Q[x])
    <2>1. \A k \in 1 .. (Top - 1), j \in Idx : A[k].slot[j].snap => regs[k].slot[j].snap
      BY <1>4
    <2>2. \A j \in Fresh : ~A[Top - 1].slot[j].snap
      BY <1>1
    <2>3. \A x \in Proxies : Trace(A, Reanchored[x])
      BY <1>1, <2>1, <2>2, ReanchoredTrace
    <2> QED
      BY <1>6, <2>3
  <1>12. ObjAfterDrop(obj) = Cardinality(HeapFields(A))
    <2>1. Cardinality(HeapFields(regs)) = Cardinality(HeapFields(A)) + Inner(regs[Top], Obj)
          /\ Cardinality(HeapFields(A)) \in Nat
      <3>1. Len(A) \in Nat /\ Len(regs) = Len(A) + 1 /\ (\A k \in 1 .. Len(A) : regs[k] = A[k]) /\ Len(A) + 1 = Top
        BY <1>1, <1>2, <1>4
      <3> QED
        BY <3>1, HeapLonger
    <2>2. ObjAfterDrop(obj) = obj - Inner(Cur, Obj) /\ Inner(Cur, Obj) \in Nat
      BY <1>1, TransplantHeap, InnerFacts
    <2>3. obj = Cardinality(HeapFields(regs)) /\ regs[Top] = Cur
      BY DEF Balanced, Cur
    <2>4. PICK a \in Nat, b \in Nat : a = Cardinality(HeapFields(A)) /\ b = Inner(Cur, Obj)
      BY <2>1, <2>2
    <2> QED
      BY <2>1, <2>2, <2>3, <2>4
  <1>13. regs' = A /\ obj' = ObjAfterDrop(obj) /\ dead' = dead
    BY <1>3 DEF Fail
  <1>14. Balanced(A, Q, ObjAfterDrop(obj))
    BY <1>9, <1>10, <1>11, <1>12 DEF Balanced
  <1> QED
    BY <1>5, <1>13, <1>14

\* What the caller receives: its registry with the result, which the callee's VM still holds.
LEMMA ReceivedBalance ==
    ASSUME Sound, Balanced(regs, px, obj), Top > 1, ~Taints(FALSE), NEW i \in Idx, OnlyRoot({i}), Cur.slot[i].live,
           i \notin Fresh => HasRoom(Transplanted)
    PROVE  LET r == Received(i)
               k == Result(i)
               o == IF i \notin Fresh /\ Cur.slot[i].field = Obj THEN obj + 1 ELSE obj
           IN  /\ Good(r) /\ k \in Idx /\ r.slot[k].live
               /\ Counted(r, Plus(External(r, Reanchored, Top - 1), k))
               /\ \A j \in Idx : r.slot[j].snap => Caller.slot[j].snap
               /\ \A j \in Fresh : ~r.slot[j].snap
               /\ o \in Int /\ o - Inner(r, Obj) = obj - Inner(Transplanted, Obj)
  <1>1. PICK T : T = Transplanted
    OBVIOUS
  <1>2. Good(Caller) /\ Good(Cur) /\ Fresh \subseteq Idx /\ obj \in Int /\ Cur \in Registries
    BY SoundFacts, FreshFacts DEF Good
  <1>3. /\ Good(T) /\ T \in Registries /\ Exact(T)
        /\ \A j \in Idx : /\ j \in Fresh => T.slot[j].live /\ T.slot[j].snap = FALSE
                          /\ j \notin Fresh => T.slot[j] = Caller.slot[j]
    BY <1>1, <1>2, TransplantedEffect DEF Good
  <1>4. (\A j \in Idx : T.slot[j].snap => Caller.slot[j].snap) /\ \A j \in Fresh : ~T.slot[j].snap
    BY <1>2, <1>3
  <1>5. PICK F \in Outside : F = External(T, Reanchored, Top - 1)
    BY <1>3, ExternalFacts
  <1>6. CASE i \in Fresh
    <2>1. \A j \in Fresh : Cur.root[j] = IF j = i THEN 1 ELSE 0
      BY <1>2 DEF OnlyRoot
    <2>2. Counted(T, Plus(F, i))
      BY <1>1, <1>5, <1>6, <2>1, TransplantCounted
    <2>3. Received(i) = T /\ Result(i) = i
      BY <1>1, <1>6 DEF Received, Result
    <2>4. obj - Inner(T, Obj) = obj - Inner(Transplanted, Obj)
      BY <1>1
    <2> QED
      BY <1>2, <1>3, <1>4, <1>5, <1>6, <2>2, <2>3, <2>4
  <1>7. CASE i \notin Fresh
    <2>1. PICK f \in Fields : f = Cur.slot[i].field
      BY <1>2, RegistryFields
    <2>2. HasRoom(T)
      BY <1>1, <1>7
    <2>3. PICK s : s = Materialized(T, i)
      OBVIOUS
    <2>4. PICK k : k = NextIdx(T)
      OBVIOUS
    <2>5. /\ Good(s) /\ k \in Idx /\ ~T.slot[k].live /\ s.root = T.root /\ s.slot[k] = Slot(1, f, FALSE)
          /\ \A j \in Idx : j # k => s.slot[j].snap = T.slot[j].snap
      <3>1. Cur.slot[i].field \in Fields
        BY <2>1
      <3> QED
        <4>1. /\ Good(Materialized(T, i)) /\ NextIdx(T) \in Idx /\ ~T.slot[NextIdx(T)].live
              /\ Materialized(T, i).root = T.root
              /\ Materialized(T, i).slot[NextIdx(T)] = Slot(1, Cur.slot[i].field, FALSE)
              /\ \A j \in Idx : j # NextIdx(T) => Materialized(T, i).slot[j].snap = T.slot[j].snap
          <5>1. Good(T) /\ HasRoom(T)
            BY <1>3, <2>2
          <5>2. Materialized(T, i).slot[NextIdx(T)] = Slot(1, Cur.slot[i].field, FALSE)
            BY <3>1, <5>1, MaterializedEffect
          <5>3. SameSnaps(T, Materialized(T, i), NextIdx(T))
            BY <3>1, <5>1, MaterializedEffect
          <5>4. /\ Good(Materialized(T, i)) /\ NextIdx(T) \in Idx /\ ~T.slot[NextIdx(T)].live
                /\ Materialized(T, i).root = T.root
            BY <3>1, <5>1, MaterializedEffect
          <5> QED
            BY <5>2, <5>3, <5>4 DEF SameSnaps
        <4> QED
          BY <2>1, <2>3, <2>4, <4>1
    <2>6. s.slot[k].live /\ ~s.slot[k].snap
      BY <2>1, <2>5, NewSlots
    <2>7. Counted(T, F)
      <3>1. Nil \notin Idx
        BY IdxFacts
      <3>2. \A j \in Fresh : Cur.root[j] = IF j = Nil THEN 1 ELSE 0
        BY <1>2, <1>7, <3>1 DEF OnlyRoot
      <3>3. Counted(T, Plus(F, Nil))
        BY <1>1, <1>5, <3>1, <3>2, TransplantCounted
      <3> QED
        BY <3>1, <3>3, NothingInHand
    <2>8. PICK a : a = IF f \in Idx THEN Incref(T, f) ELSE T
      OBVIOUS
    <2>9. s = Created(a, f)
      BY <2>1, <2>3, <2>8 DEF Materialized
    <2>10. Good(a) /\ Counted(a, Plus(F, f)) /\ Inner(a, Obj) = Inner(T, Obj) /\ a.len = T.len /\ a.free = T.free
      <3>1. CASE f \in Idx
        <4>1. i \in Live(Cur) \ Fresh /\ f \in Live(Cur)
          BY <1>7, <2>1, <3>1, Separate DEF Live
        <4>2. f \in Live(Caller) /\ f \notin Fresh
          BY <2>1, <4>1, Separate
        <4>3. T.slot[f].live
          BY <1>3, <3>1, <4>2 DEF Live
        <4>4. a = Incref(T, f)
          BY <2>8, <3>1
        <4>5. Counted(a, Plus(F, f))
          BY <1>3, <2>7, <3>1, <4>3, <4>4, CountedIncref
        <4>6. Good(a)
          BY <1>3, <3>1, <4>4, CountsGood
        <4>7. /\ a.len = T.len /\ a.free = T.free
              /\ \A j \in Idx : a.slot[j].live = T.slot[j].live /\ a.slot[j].field = T.slot[j].field
          BY <1>3, <3>1, <4>4, IncrefEffect
        <4>8. Inner(a, Obj) = Inner(T, Obj)
          BY <4>7, SameInner
        <4> QED
          BY <4>5, <4>6, <4>7, <4>8
      <3>2. CASE f \notin Idx
        BY <1>3, <2>7, <2>8, <3>2, NothingInHand
      <3> QED
        BY <3>1, <3>2
    <2>11. Counted(s, Plus(F, k)) /\ Inner(s, Obj) = Inner(T, Obj) + (IF f = Obj THEN 1 ELSE 0)
      <3>1. HasRoom(a) /\ NextIdx(a) = k /\ a \in Registries /\ Exact(a)
        BY <2>2, <2>4, <2>10 DEF HasRoom, NextIdx, Good
      <3>2. Counted(Created(a, f), Plus(F, NextIdx(a))) /\ Inner(Created(a, f), Obj) = Inner(a, Obj) + (IF f = Obj THEN 1 ELSE 0)
        BY <2>10, <3>1, CountedCreated
      <3> QED
        BY <2>9, <2>10, <3>1, <3>2
    <2>12. Counted(s, Plus(External(s, Reanchored, Top - 1), k))
      <3>1. s \in Registries
        BY <2>5 DEF Good
      <3>2. PICK G \in Outside : G = External(s, Reanchored, Top - 1)
        BY <3>1, ExternalFacts
      <3>3. \A j \in Idx : G[j] = F[j]
        BY <1>3, <1>5, <2>5, <3>1, <3>2, ExternalSame
      <3>4. \A j \in Idx : Plus(G, k)[j] = Plus(F, k)[j]
        BY <3>3, PlusSame
      <3> QED
        BY <2>11, <3>2, <3>4, CountedSame
    <2>13. (\A j \in Idx : s.slot[j].snap => Caller.slot[j].snap) /\ \A j \in Fresh : ~s.slot[j].snap
      BY <1>2, <1>4, <2>5, <2>6
    <2>14. PICK o \in Int : o = IF f = Obj THEN obj + 1 ELSE obj
      BY <1>2
    <2>15. o - Inner(s, Obj) = obj - Inner(T, Obj)
      <3>1. PICK b \in Nat, c \in Nat : b = Inner(s, Obj) /\ c = Inner(T, Obj)
        BY InnerFacts
      <3> QED
        BY <1>2, <2>11, <2>14, <3>1
    <2>16. Received(i) = s /\ Result(i) = k
      BY <1>1, <1>7, <2>3, <2>4 DEF Received, Result
    <2> QED
      BY <1>1, <1>7, <2>1, <2>5, <2>6, <2>12, <2>13, <2>14, <2>15, <2>16
  <1> QED
    BY <1>6, <1>7

LEMMA ReturnStructBalance ==
    ASSUME Sound, Balanced(regs, px, obj), NEW i \in Idx, ReturnStruct(i), ~Taints(FALSE)
    PROVE  Balanced(regs', px', obj') /\ dead' = dead
  <1>1. /\ Top > 1 /\ OnlyRoot({i}) /\ Cur.slot[i].live /\ (i \notin Fresh => HasRoom(Transplanted))
        /\ Top \in Nat /\ Levels(regs) /\ dead \in BOOLEAN
    BY SoundFacts DEF ReturnStruct
  <1>2. PICK r : r = Received(i)
    OBVIOUS
  <1>3. PICK k : k = Result(i)
    OBVIOUS
  <1>4. PICK o : o = IF i \notin Fresh /\ Cur.slot[i].field = Obj THEN obj + 1 ELSE obj
    OBVIOUS
  <1>5. /\ Good(r) /\ k \in Idx /\ r.slot[k].live /\ r \in Registries
        /\ Counted(r, Plus(External(r, Reanchored, Top - 1), k))
        /\ \A j \in Idx : r.slot[j].snap => Caller.slot[j].snap
        /\ \A j \in Fresh : ~r.slot[j].snap
        /\ o \in Int /\ o - Inner(r, Obj) = obj - Inner(Transplanted, Obj)
    BY <1>1, <1>2, <1>3, <1>4, ReceivedBalance DEF Good
  <1>6. PICK E \in Outside : E = External(r, Reanchored, Top - 1)
    BY <1>5, ExternalFacts
  <1>7. PICK S : S = Chain(r, k)
    OBVIOUS
  <1>8. Counted(r, Plus(E, k)) /\ Plus(E, k) \in Outside
    BY <1>5, <1>6, PlusFacts
  <1>9. S \subseteq Live(r) /\ S \subseteq Idx
    BY <1>5, <1>7, <1>8, ChainLive
  <1>10. PICK w : w = WithProxies(r, S)
    OBVIOUS
  <1>11. PICK m : m = VmCount(w, o, k)
    OBVIOUS
  <1>12. PICK P : P = px'
    OBVIOUS
  <1>13. PICK g : g = OneGiving(S)
    OBVIOUS
  <1>14. PICK Q : Q = Reanchored
    OBVIOUS
  <1>15. /\ Cardinality(S) <= Cardinality(Unused)
         /\ regs' = [Front(regs) EXCEPT ![Top - 1] = m.r]
         /\ obj' = ObjAfterDrop(m.obj)
         /\ dead' = (dead \/ m.dead \/ ~(S \subseteq Live(r)))
         /\ P = Named(Q, Top - 1, g)
    BY <1>2, <1>3, <1>4, <1>7, <1>10, <1>11, <1>12, <1>13, <1>14 DEF ReturnStruct, Received, Result
  <1>16. PICK n \in Nat : n = Top - 1 /\ n \in 1 .. n
    BY <1>1
  <1>17. Q \in [Proxies -> ProxySet(n)] /\ \A x \in Proxies : Q[x].used = px[x].used
    BY <1>1, <1>14, <1>16, SoundFacts, ReanchoredEffect
  <1>18. g \in [S -> Proxies] /\ (\A j \in S : ~Q[g[j]].used) /\ \A a, b \in S : g[a] = g[b] => a = b
    <2>1. g \in [S -> Proxies] /\ (\A j \in S : g[j] \in Unused) /\ \A a, b \in S : g[a] = g[b] => a = b
      BY <1>9, <1>13, <1>15, GivenProxies
    <2> QED
      BY <1>17, <2>1 DEF Unused
  <1>19. /\ Good(w) /\ w \in Registries /\ w.root = r.root
         /\ \A j \in Idx : w.slot[j].snap = r.slot[j].snap
    BY <1>5, <1>10, WithProxiesEffect DEF Good
  <1>20. Counted(w, PlusAll(Plus(E, k), S)) /\ Inner(w, Obj) = Inner(r, Obj)
    BY <1>5, <1>8, <1>9, <1>10, CountedWithProxies
  <1>21. PICK F \in Outside : F = External(w, Q, n)
    BY <1>19, ExternalFacts
  <1>22. \A j \in Idx : F[j] = E[j]
    BY <1>5, <1>6, <1>14, <1>16, <1>19, <1>21, ExternalSame
  <1>23. PICK H \in Outside : H = External(w, P, n)
    BY <1>19, ExternalFacts
  <1>24. /\ \A j \in Idx : H[j] = PlusAll(F, S)[j]
         /\ \A h, j : h # n => At(P, h, j) = At(Q, h, j)
    <2>1. P = Named(Q, n, g)
      BY <1>15, <1>16
    <2>2. /\ \A j \in Idx : External(w, Named(Q, n, g), n)[j] = PlusAll(External(w, Q, n), S)[j]
          /\ \A h, j : h # n => At(Named(Q, n, g), h, j) = At(Q, h, j)
      <3>1. S \subseteq Idx /\ n \in 1 .. n /\ w \in Registries
        BY <1>9, <1>16, <1>19
      <3>2. Q \in [Proxies -> ProxySet(n)]
        BY <1>17
      <3> QED
        BY <1>18, <3>1, <3>2, ExternalNamed
    <2> QED
      BY <1>21, <1>23, <2>1, <2>2
  <1>25. Counted(w, Plus(H, k))
    <2>1. \A j \in Idx : Plus(H, k)[j] = PlusAll(Plus(E, k), S)[j]
      <3>1. SUFFICES ASSUME NEW j \in Idx PROVE Plus(H, k)[j] = PlusAll(Plus(E, k), S)[j]
        OBVIOUS
      <3>2. Plus(H, k)[j] = (IF j = k THEN H[j] + 1 ELSE H[j]) /\ E[j] \in Nat
        BY PlusFacts
      <3>3. H[j] = IF j \in S THEN E[j] + 1 ELSE E[j]
        BY <1>22, <1>24, PlusFacts
      <3>4. PlusAll(Plus(E, k), S)[j] = (IF j \in S THEN Plus(E, k)[j] + 1 ELSE Plus(E, k)[j])
        BY <1>8, PlusFacts
      <3>5. Plus(E, k)[j] = IF j = k THEN E[j] + 1 ELSE E[j]
        BY PlusFacts
      <3> QED
        BY <3>2, <3>3, <3>4, <3>5
    <2> QED
      BY <1>20, <2>1, CountedSame
  <1>26. PICK V : V = [Front(regs) EXCEPT ![Top - 1] = w]
    OBVIOUS
  <1>27. /\ Levels(V) /\ Len(V) = n /\ \A h \in 1 .. n : V[h] = IF h = n THEN w ELSE regs[h]
         /\ Plain(V) /\ \A x \in Proxies : Trace(V, Q[x])
         /\ \A h \in 1 .. n : h # n => Counted(V[h], External(V[h], Q, h))
         /\ ObjAfterDrop(o) = Cardinality(HeapFields(V))
    <2>1. \A j \in Idx : w.slot[j].snap => Caller.slot[j].snap
      BY <1>5, <1>19
    <2>2. \A j \in Fresh : ~w.slot[j].snap
      <3>1. Fresh \subseteq Idx
        BY <1>1, SoundFacts, FreshFacts
      <3> QED
        BY <1>5, <1>19, <3>1
    <2>3. o - Inner(w, Obj) = obj - Inner(Transplanted, Obj)
      BY <1>5, <1>20
    <2>4. /\ Levels(V) /\ Len(V) = Top - 1 /\ \A h \in 1 .. (Top - 1) : V[h] = IF h = Top - 1 THEN w ELSE regs[h]
          /\ Plain(V) /\ \A x \in Proxies : Trace(V, Reanchored[x])
          /\ \A h \in 1 .. (Top - 1) : h # Top - 1 => Counted(V[h], External(V[h], Reanchored, h))
          /\ ObjAfterDrop(o) = Cardinality(HeapFields(V))
      BY <1>1, <1>5, <1>19, <1>26, <2>1, <2>2, <2>3, Returned
    <2> QED
      BY <1>14, <1>16, <2>4
  <1>28. PICK d \in Nat : \A q : ObjAfterDrop(q) = q - d
    BY <1>1, TransplantHeap
  <1>29. InHand(V, P, n, k)
    <2>1. SUFFICES ASSUME NEW h \in 1 .. n
                   PROVE  Counted(V[h], IF h = n THEN Plus(External(V[h], P, h), k) ELSE External(V[h], P, h))
      BY <1>27 DEF InHand
    <2>2. CASE h = n
      BY <1>23, <1>25, <1>27, <2>2
    <2>3. CASE h # n
      <3>1. PICK s : s = V[h]
        OBVIOUS
      <3>2. s \in Registries
        BY <1>27, <3>1, LevelFacts DEF Good
      <3>3. Counted(s, External(s, Q, h))
        BY <1>27, <2>3, <3>1
      <3>4. \A j \in Idx : External(s, P, h)[j] = External(s, Q, h)[j]
        BY <1>24, <2>3, <3>2, ExternalSame
      <3>5. Counted(s, External(s, P, h))
        BY <3>3, <3>4, CountedSame
      <3> QED
        BY <2>3, <3>1, <3>5
    <2> QED
      BY <2>2, <2>3
  <1>30. P \in [Proxies -> ProxySet(n)] /\ \A x \in Proxies : Trace(V, P[x])
    <2>1. PICK N : N = Named(Q, n, g)
      OBVIOUS
    <2>2. /\ N \in [Proxies -> ProxySet(n)]
          /\ \A x \in Proxies : \/ \E j \in S : g[j] = x /\ N[x] = Level(n, j)
                                \/ (\A j \in S : g[j] # x) /\ N[x] = Q[x]
      <3>1. S \subseteq Idx /\ n \in 1 .. n /\ g \in [S -> Proxies]
        BY <1>9, <1>16, <1>18
      <3>2. Q \in [Proxies -> ProxySet(n)]
        BY <1>17
      <3>3. /\ Named(Q, n, g) \in [Proxies -> ProxySet(n)]
            /\ \A x \in Proxies : \/ \E j \in S : g[j] = x /\ Named(Q, n, g)[x] = Level(n, j)
                                  \/ (\A j \in S : g[j] # x) /\ Named(Q, n, g)[x] = Q[x]
        BY <3>1, <3>2, NamedEffect
      <3> QED
        BY <2>1, <3>3
    <2>3. \A j \in Idx : Trace(V, Level(n, j))
      <3>1. SUFFICES ASSUME NEW j \in Idx PROVE Trace(V, Level(n, j))
        OBVIOUS
      <3>2. n >= 1 /\ (n = 1 => ~V[1].slot[j].snap)
        BY <1>16, <1>27 DEF Plain
      <3> QED
        BY <3>2, LevelTrace
    <2>4. P = N
      BY <1>15, <1>16, <2>1
    <2>5. \A x \in Proxies : Trace(V, P[x])
      BY <1>9, <1>27, <2>2, <2>3, <2>4
    <2> QED
      BY <2>2, <2>4, <2>5
  <1>31. Rest(V, P, o - d)
    BY <1>27, <1>28, <1>30 DEF Rest
  <1>32. Balanced([V EXCEPT ![n] = m.r], P, m.obj - d) /\ ~m.dead
    <2>1. V[n] = w /\ n \in 1 .. Len(V) /\ P \in [Proxies -> ProxySet(Len(V))]
      BY <1>16, <1>27, <1>30
    <2>2. m = SlotReleased(V[n], o, k)
      BY <1>11, <2>1 DEF VmCount
    <2> QED
      <3>1. Levels(V) /\ k \in Idx /\ o \in Int /\ d \in Int
        BY <1>5, <1>27
      <3>2. /\ Balanced([V EXCEPT ![n] = SlotReleased(V[n], o, k).r], P, SlotReleased(V[n], o, k).obj - d)
            /\ ~SlotReleased(V[n], o, k).dead
        BY <1>29, <1>31, <2>1, <3>1, HandReleased
      <3> QED
        BY <2>2, <3>2
  <1>33. regs' = [V EXCEPT ![n] = m.r]
    <2>1. [[Front(regs) EXCEPT ![Top - 1] = w] EXCEPT ![Top - 1] = m.r] = [Front(regs) EXCEPT ![Top - 1] = m.r]
      OBVIOUS
    <2> QED
      BY <1>15, <1>16, <1>26, <2>1
  <1>34. obj' = m.obj - d /\ dead' = dead
    BY <1>1, <1>9, <1>15, <1>28, <1>32
  <1> QED
    BY <1>12, <1>32, <1>33, <1>34
-----------------------------------------------------------------------------
\* As long as no call mixed two registries' structs: every count of every registry on the
\* stack is what its owners add up to, and no step met a dead handle.
CountsHold == ~tainted => Balanced(regs, px, obj) /\ ~dead

LEMMA InitCounts ==
    ASSUME Init
    PROVE  Balanced(regs, px, obj) /\ ~dead
  <1>1. PICK r : r = NewRegistry
    OBVIOUS
  <1>2. /\ \A i \in Idx : r.slot[i] = Free /\ r.root[i] = 0
        /\ Len(regs) = 1 /\ regs[1] = r /\ \A x \in Proxies : px[x] = NoProxy
        /\ obj = 0 /\ dead = FALSE
    BY <1>1 DEF Init, NewRegistry
  <1>3. ~Free.live /\ Free.rc = 0 /\ ~Free.snap
    BY DEF Free
  <1>4. ~NoProxy.used /\ NoProxy.by = 0
    BY DEF NoProxy
  <1>5. \A i : Inner(r, i) = 0
    BY <1>2, <1>3, InnerFacts
  <1>6. \A i \in Idx : External(r, px, 1)[i] = 0
    <2>1. SUFFICES ASSUME NEW i \in Idx PROVE External(r, px, 1)[i] = 0
      OBVIOUS
    <2>2. At(px, 1, i) = {}
      BY <1>2, <1>4 DEF At
    <2>3. Cardinality(At(px, 1, i)) = 0
      BY <2>2, FS_EmptySet
    <2> QED
      BY <1>2, <2>3 DEF External
  <1>7. Sums(regs, px)
    <2>1. Counted(r, External(r, px, 1))
      BY <1>2, <1>3, <1>5, <1>6 DEF Counted, Balance
    <2>2. SUFFICES ASSUME NEW l \in 1 .. Len(regs) PROVE Counted(regs[l], External(regs[l], px, l))
      BY DEF Sums
    <2>3. l = 1
      BY <1>2
    <2> QED
      BY <1>2, <2>1, <2>3
  <1>8. Plain(regs) /\ \A x \in Proxies : Trace(regs, px[x])
    BY <1>2, <1>3, <1>4 DEF Plain, Trace
  <1>9. obj = Cardinality(HeapFields(regs))
    <2>1. \A l \in 1 .. Len(regs) : l = 1
      BY <1>2
    <2>2. HeapFields(regs) = {}
      BY <1>2, <1>3, <2>1 DEF HeapFields, HeapIn
    <2> QED
      BY <1>2, <2>2, FS_EmptySet
  <1> QED
    BY <1>2, <1>7, <1>8, <1>9 DEF Balanced

LEMMA StepCounts ==
    ASSUME Sound, CountsHold, Next
    PROVE  CountsHold'
  <1>1. SUFFICES ASSUME ~tainted' PROVE Balanced(regs', px', obj') /\ ~dead'
    BY Zenon DEF CountsHold, Balanced, Sums, Plain, Trace, HeapFields, HeapIn
  <1>2. ~dead /\ dead \in BOOLEAN /\ tainted \in BOOLEAN
    BY SoundFacts DEF Next
  <1>3. ASSUME ~tainted PROVE Balanced(regs, px, obj)
    BY <1>3 DEF CountsHold
  <1>4. ASSUME NEW v \in Fields, Create(v) PROVE Balanced(regs', px', obj') /\ ~dead'
    BY <1>1, <1>2, <1>3, <1>4, CreateBalance DEF Create
  <1>5. ASSUME NEW i \in Idx, Dup(i) \/ Release(i) \/ GetField(i) \/ Export(i)
        PROVE  Balanced(regs', px', obj') /\ ~dead'
    <2>1. CASE Dup(i)
      BY <1>1, <1>2, <1>3, <2>1, DupBalance DEF Dup
    <2>2. CASE Release(i)
      <3>1. ~tainted
        BY <1>1, <2>2 DEF Release
      <3> QED
        BY <1>2, <1>3, <2>2, <3>1, ReleaseBalance
    <2>3. CASE GetField(i)
      <3>1. ~tainted
        BY <1>1, <2>3 DEF GetField
      <3> QED
        BY <1>2, <1>3, <2>3, <3>1, GetFieldBalance
    <2>4. CASE Export(i)
      BY <1>1, <1>2, <1>3, <2>4, ExportBalance DEF Export
    <2> QED
      BY <1>5, <2>1, <2>2, <2>3, <2>4
  <1>6. ASSUME NEW i \in Idx, NEW v \in Fields, SetField(i, v) PROVE Balanced(regs', px', obj') /\ ~dead'
    <2>1. ~tainted
      BY <1>1, <1>6 DEF SetField
    <2> QED
      BY <1>2, <1>3, <1>6, <2>1, SetFieldBalance
  <1>7. ASSUME NEW x \in Proxies, ImportTrusted(x) PROVE Balanced(regs', px', obj') /\ ~dead'
    BY <1>1, <1>2, <1>3, <1>7, ImportTrustedBalance DEF ImportTrusted
  <1>8. ASSUME NEW x \in Proxies, DropProxy(x) PROVE Balanced(regs', px', obj') /\ ~dead'
    <2>1. ~tainted
      BY <1>1, <1>8 DEF DropProxy
    <2> QED
      BY <1>2, <1>3, <1>8, <2>1, DropProxyBalance
  <1>9. ASSUME NEW x \in Proxies, NEW v \in Fields, ImportOrphan(x, v) PROVE Balanced(regs', px', obj') /\ ~dead'
    <2>1. ~tainted
      BY <1>1, <1>9 DEF ImportOrphan
    <2> QED
      BY <1>2, <1>3, <1>9, <2>1, ImportOrphanBalance
  <1>10. ASSUME Call PROVE Balanced(regs', px', obj') /\ ~dead'
    <2>1. ~tainted
      BY <1>10 DEF Call
    <2> QED
      BY <1>2, <1>3, <1>10, <2>1, CallBalance
  <1>11. ASSUME NEW i \in Idx, ReturnStruct(i) PROVE Balanced(regs', px', obj') /\ ~dead'
    <2>1. ~tainted /\ ~Taints(FALSE)
      BY <1>1, <1>11 DEF ReturnStruct
    <2> QED
      BY <1>2, <1>3, <1>11, <2>1, ReturnStructBalance
  <1>12. ASSUME ReturnOther PROVE Balanced(regs', px', obj') /\ ~dead'
    <2>1. ~tainted /\ ~Taints(FALSE)
      BY <1>1, <1>12 DEF ReturnOther
    <2> QED
      BY <1>2, <1>3, <1>12, <2>1, ReturnOtherBalance
  <1>13. ASSUME Fail PROVE Balanced(regs', px', obj') /\ ~dead'
    <2>1. ~tainted /\ ~Taints(TRUE)
      BY <1>1, <1>13 DEF Fail
    <2> QED
      BY <1>2, <1>3, <1>13, <2>1, FailBalance
  <1>14. CASE \E i \in Idx : Dup(i) \/ Release(i) \/ GetField(i) \/ Export(i) \/ ReturnStruct(i)
    BY <1>5, <1>11, <1>14
  <1>15. CASE \E x \in Proxies : ImportTrusted(x) \/ DropProxy(x) \/ \E v \in Fields : ImportOrphan(x, v)
    BY <1>7, <1>8, <1>9, <1>15
  <1> QED
    BY <1>4, <1>6, <1>10, <1>12, <1>13, <1>14, <1>15 DEF Next, Step

\* The inductive invariant of the counts: in every registry on the stack they are what fields,
\* roots and proxies add up to, until a call mixes the structs of two registries.
THEOREM CountsCorrect == Spec => []CountsHold
  <1>1. Init => CountsHold
    BY InitCounts DEF CountsHold
  <1>2. Sound /\ CountsHold /\ [Next]_vars => CountsHold'
    <2>1. ASSUME Sound, CountsHold, UNCHANGED vars PROVE CountsHold'
      BY <2>1, Zenon DEF CountsHold, vars, Balanced, Sums, Plain, Trace, HeapFields, HeapIn
    <2>2. ASSUME Sound, CountsHold, Next PROVE CountsHold'
      BY <2>2, StepCounts
    <2> QED
      BY <2>1, <2>2
  <1> QED
    BY <1>1, <1>2, SoundCorrect, PTL DEF Spec

\* RefcountIsOwners: the count of a slot of the outermost registry is the number of its
\* owners, after clones, transplants, conversions to proxies and back, drops and errors.
THEOREM RefcountCorrect == Spec => []RefcountIsOwners
  <1>1. ASSUME Sound, CountsHold, ~tainted, NEW i \in Idx PROVE regs[1].slot[i].rc = Owners(i)
    <2>1. 1 \in 1 .. Top /\ Top = Len(regs)
      BY <1>1, SoundFacts DEF Top
    <2>2. PICK r \in Registries : r = regs[1]
      BY <1>1, <2>1, SoundFacts DEF Good
    <2>3. Balance(r, External(r, px, 1), i) /\ ~r.slot[i].snap
      BY <1>1, <2>1, <2>2 DEF CountsHold, Balanced, Sums, Counted, Plain
    <2>4. PICK a \in Nat, b \in Nat, c \in Nat : /\ a = r.root[i] /\ b = Inner(r, i) /\ c = Cardinality(At(px, 1, i))
      BY <2>2, InnerFacts, ExternalFacts
    <2>5. External(r, px, 1)[i] = a + c
      BY <2>4, ExternalFacts
    <2>6. r.slot[i].rc = a + b + c
      <3>1. CASE r.slot[i].live
        <4>1. r.slot[i].rc = Inner(r, i) + External(r, px, 1)[i]
          BY <2>3, <3>1 DEF Balance
        <4> QED
          BY <2>4, <2>5, <4>1
      <3>2. CASE ~r.slot[i].live
        <4>1. r.slot[i].rc = 0 /\ b = 0 /\ a + c = 0
          BY <2>3, <2>4, <2>5, <3>2 DEF Balance
        <4> QED
          BY <2>4, <4>1
      <3> QED
        BY <3>1, <3>2
    <2>7. Owners(i) = a + b + c
      BY <2>2, <2>4 DEF Owners, Inner, Holders, At
    <2> QED
      BY <2>2, <2>6, <2>7
  <1>2. Sound /\ CountsHold => RefcountIsOwners
    BY <1>1 DEF RefcountIsOwners
  <1> QED
    BY <1>2, SoundCorrect, CountsCorrect, PTL

\* ObjectCountIsFields: back in the outermost VM, the heap object's count is the number of
\* fields that hold it: clones, transplants, errors and drops of registries cancel out.
THEOREM ObjectCountCorrect == Spec => []ObjectCountIsFields
  <1>1. ASSUME Sound, CountsHold, ~tainted, Top = 1 PROVE obj = ObjFields(regs[1], Live(regs[1]))
    <2>1. 1 .. Len(regs) = {} \cup {1} /\ 1 \notin {}
      BY <1>1 DEF Top
    <2>2. HeapIn(regs, {}) = {} /\ IsFiniteSet(HeapIn(regs, {})) /\ Cardinality(HeapIn(regs, {})) = 0
      <3>1. HeapIn(regs, {}) = {}
        BY DEF HeapIn
      <3> QED
        BY <3>1, FS_EmptySet
    <2>3. Cardinality(HeapIn(regs, {} \cup {1})) = Cardinality(HeapIn(regs, {})) + Inner(regs[1], Obj)
      BY <2>1, <2>2, HeapOne
    <2>4. obj = Cardinality(HeapIn(regs, {} \cup {1}))
      BY <1>1, <2>1 DEF CountsHold, Balanced, HeapFields
    <2>5. Inner(regs[1], Obj) \in Nat
      BY InnerFacts
    <2> QED
      BY <2>2, <2>3, <2>4, <2>5, ObjFieldsInner
  <1>2. Sound /\ CountsHold => ObjectCountIsFields
    BY <1>1 DEF ObjectCountIsFields
  <1> QED
    BY <1>2, SoundCorrect, CountsCorrect, PTL

\* OwnedIsLive where it holds: a struct that the outermost VM's stack or a proxy refers to is
\* not freed, and no handle is dead, at any depth, as long as no call mixed two registries'
\* structs.  (Once one did, the run structs_uaf shows a freed struct that is still owned.)
THEOREM OwnedWhileApart == Spec => [](~tainted => OwnedIsLive /\ ~dead)
  <1>1. ASSUME Sound, CountsHold, ~tainted, NEW i \in Idx,
               regs[1].root[i] > 0 \/ \E x \in Proxies : px[x].used /\ px[x].at = 1 /\ px[x].idx = i
        PROVE  regs[1].slot[i].live
    <2>1. 1 \in 1 .. Top /\ Top = Len(regs)
      BY <1>1, SoundFacts DEF Top
    <2>2. PICK r \in Registries : r = regs[1]
      BY <1>1, <2>1, SoundFacts DEF Good
    <2>3. PICK E \in Outside : E = External(r, px, 1)
      BY ExternalFacts
    <2>4. Counted(r, E)
      BY <1>1, <2>1, <2>2, <2>3 DEF CountsHold, Balanced, Sums
    <2>5. r.root[i] # 0 \/ At(px, 1, i) # {}
      BY <1>1, <2>2 DEF At
    <2>6. E[i] # 0
      BY <2>3, <2>5, ExternalFacts
    <2> QED
      BY <2>2, <2>4, <2>6, CountedLive
  <1>2. Sound /\ CountsHold => (~tainted => OwnedIsLive /\ ~dead)
    BY <1>1 DEF OwnedIsLive, CountsHold
  <1> QED
    BY <1>2, SoundCorrect, CountsCorrect, PTL
=============================================================================
