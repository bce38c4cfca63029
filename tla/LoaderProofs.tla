---------------------------- MODULE LoaderProofs -----------------------------
(***************************************************************************)
(* Theorems about Loader.                                                  *)
(***************************************************************************)
EXTENDS Loader, Facts

-----------------------------------------------------------------------------
\* The stack of pipelines and the marks.

\* The user's pipeline at the bottom, above it one pipeline for each marked path.
Stack == vms \in Seq(VMs) /\ vms # <<>>
Nested == /\ vms[1].key = User
          /\ \A d \in 2 .. Depth : vms[d].key \in Mods
          /\ \A c, d \in 2 .. Depth : vms[c].key = vms[d].key => c = d
MarkInv == /\ Stack /\ Nested
           /\ marks = Running
           /\ cache \subseteq Keys /\ cache \cap Running = {}

LEMMA DepthFacts ==
    ASSUME Stack
    PROVE  /\ Depth \in Nat \ {0} /\ DOMAIN vms = 1 .. Depth /\ Depth \in 1 .. Depth /\ 1 \in 1 .. Depth
           /\ Cur = vms[Depth] /\ Cur \in VMs /\ \A d \in 1 .. Depth : vms[d] \in VMs
           /\ Depth > 1 => /\ Caller = vms[Depth - 1] /\ Caller \in VMs /\ Depth - 1 \in 1 .. Depth
                           /\ Depth \in 2 .. Depth /\ Depth - 1 # Depth
  BY DEF Stack, Depth, Cur, Caller

LEMMA ModFacts ==
    ASSUME LoaderConstants
    PROVE  /\ User \notin Mods /\ User \in Modules /\ Mods \subseteq Modules /\ Keys \subseteq Modules
           /\ Mods \subseteq Keys /\ Plugins \subseteq Keys /\ Mods \cap Plugins = {}
  BY DEF LoaderConstants, Modules, Keys

\* A pipeline whose key stays: LoadPlugin, Define.
LEMMA KeptStack ==
    ASSUME Stack, Nested, NEW v \in VMs, v.key = Cur.key, vms' = [vms EXCEPT ![Depth] = v]
    PROVE  /\ Stack' /\ Nested' /\ Running' = Running /\ Depth' = Depth /\ Cur'.key = Cur.key
           /\ \A d \in 1 .. Depth : vms'[d].key = vms[d].key
           /\ vms'[Depth] = v /\ \A d \in 1 .. Depth : d # Depth => vms'[d] = vms[d]
  <1>1. /\ Depth \in Nat \ {0} /\ Depth \in 1 .. Depth /\ Cur = vms[Depth] /\ 1 \in 1 .. Depth
        /\ DOMAIN vms = 1 .. Depth /\ vms \in Seq(VMs)
    <2>1. vms \in Seq(VMs)
      BY Zenon DEF Stack
    <2> QED
      BY <2>1, DepthFacts, Zenon
  <1>2. /\ vms' \in Seq(VMs) /\ vms' # <<>> /\ Len(vms') = Depth
        /\ vms'[Depth] = v /\ \A d \in 1 .. Depth : d # Depth => vms'[d] = vms[d]
    <2>1. vms # <<>> /\ Depth = Len(vms)
      BY DEF Stack, Depth
    <2>2. vms' = [vms EXCEPT ![Len(vms)] = v]
      BY <2>1
    <2>3. /\ vms' \in Seq(VMs) /\ Len(vms') = Len(vms) /\ vms' # <<>> /\ vms'[Len(vms)] = v
          /\ \A d \in DOMAIN vms : d # Len(vms) => vms'[d] = vms[d]
      BY <1>1, <2>1, <2>2, SetLastFacts
    <2> QED
      BY <1>1, <2>1, <2>3
  <1>3. \A d \in 1 .. Depth : vms'[d].key = vms[d].key
    BY <1>1, <1>2
  <1>4. Depth' = Depth /\ Stack' /\ Cur'.key = Cur.key
    BY <1>1, <1>2, <1>3 DEF Depth, Cur, Stack
  <1>5. \A d \in 2 .. Depth : d \in 1 .. Depth
    BY <1>1
  <1>6. Nested'
    BY <1>1, <1>3, <1>4, <1>5 DEF Nested
  <1>7. Running' = Running
    BY <1>3, <1>4, <1>5 DEF Running
  <1> QED
    BY <1>2, <1>3, <1>4, <1>6, <1>7

\* A module is entered.
LEMMA GrownStack ==
    ASSUME Stack, Nested, NEW v \in VMs, v.key \in Mods, v.key \notin Running, vms' = Append(vms, v)
    PROVE  /\ Stack' /\ Nested' /\ Running' = Running \cup {v.key} /\ Depth' = Depth + 1
           /\ Cur' = v /\ Depth' > 1 /\ \A d \in 1 .. Depth : vms'[d] = vms[d]
  <1>1. /\ Depth \in Nat \ {0} /\ DOMAIN vms = 1 .. Depth /\ 1 \in 1 .. Depth /\ vms \in Seq(VMs)
    BY DepthFacts DEF Stack
  <1>2. /\ vms' \in Seq(VMs) /\ vms' # <<>> /\ Len(vms') = Depth + 1
        /\ vms'[Depth + 1] = v /\ \A d \in 1 .. Depth : vms'[d] = vms[d]
    BY <1>1, AppendFacts DEF Depth
  <1>3. Depth' = Depth + 1 /\ Stack' /\ Cur' = v /\ Depth' > 1
    BY <1>1, <1>2 DEF Depth, Cur, Stack
  <1>4. \A d : d \in 2 .. (Depth + 1) <=> d \in 2 .. Depth \/ d = Depth + 1
    BY <1>1
  <1>5. \A d \in 2 .. Depth : d \in 1 .. Depth /\ vms[d].key # v.key
    BY <1>1 DEF Running
  <1>6. Nested'
    BY <1>1, <1>2, <1>3, <1>4, <1>5 DEF Nested
  <1>7. Running' = Running \cup {v.key}
    BY <1>2, <1>3, <1>4, <1>5 DEF Running
  <1> QED
    BY <1>2, <1>3, <1>6, <1>7

\* A module is done, or failed: its pipeline goes, its importer's stays with new tables.
LEMMA PoppedStack ==
    ASSUME Stack, Nested, Depth > 1, NEW t \in Seq(Modules), vms' = Popped(t)
    PROVE  /\ Stack' /\ Nested' /\ Running' = Running \ {Cur.key} /\ Depth' = Depth - 1
           /\ Cur.key \in Mods /\ Cur.key \in Running /\ Cur' = [Caller EXCEPT !.table = t]
           /\ Cur'.key = Caller.key
           /\ \A d \in 1 .. (Depth - 1) : vms'[d].key = vms[d].key
           /\ \A d \in 1 .. (Depth - 2) : vms'[d] = vms[d]
  <1>1. /\ Depth \in Nat \ {0} /\ DOMAIN vms = 1 .. Depth /\ Depth \in 2 .. Depth /\ vms \in Seq(VMs)
        /\ Cur = vms[Depth] /\ Caller = vms[Depth - 1] /\ Caller \in VMs /\ Depth - 1 \in Nat \ {0}
    BY DepthFacts DEF Stack
  <1>2. PICK w : w = [Caller EXCEPT !.table = t]
    OBVIOUS
  <1>3. w \in VMs /\ w.key = Caller.key
    BY <1>1, <1>2 DEF VMs
  <1>4. vms' = Append(Front(Front(vms)), w)
    BY <1>2 DEF Popped
  <1>5. PICK q : q = Front(Front(vms))
    OBVIOUS
  <1>6. /\ q \in Seq(VMs) /\ Len(q) = Depth - 2 /\ \A d \in 1 .. (Depth - 2) : q[d] = vms[d]
    <2>1. PICK p : p = Front(vms)
      OBVIOUS
    <2>2. p \in Seq(VMs) /\ Len(p) = Depth - 1 /\ \A d \in 1 .. (Depth - 1) : p[d] = vms[d]
      BY <1>1, <2>1 DEF Front, Depth
    <2>3. q \in Seq(VMs) /\ Len(q) = Depth - 2 /\ \A d \in 1 .. (Depth - 2) : q[d] = p[d]
      BY <1>1, <1>5, <2>1, <2>2 DEF Front
    <2>4. \A d \in 1 .. (Depth - 2) : d \in 1 .. (Depth - 1)
      BY <1>1
    <2> QED
      BY <2>2, <2>3, <2>4
  <1>7. /\ vms' \in Seq(VMs) /\ vms' # <<>> /\ Len(vms') = Depth - 1
        /\ vms'[Depth - 1] = w /\ \A d \in 1 .. (Depth - 2) : vms'[d] = vms[d]
    <2>1. /\ vms' \in Seq(VMs) /\ vms' # <<>> /\ Len(vms') = Len(q) + 1
          /\ vms'[Len(q) + 1] = w /\ \A d \in 1 .. Len(q) : vms'[d] = q[d]
      BY <1>3, <1>4, <1>5, <1>6, AppendFacts
    <2> QED
      BY <2>1, <1>1, <1>6
  <1>8. Depth' = Depth - 1 /\ Stack' /\ Cur' = w
    BY <1>7 DEF Depth, Cur, Stack
  <1>9. \A d : d \in 1 .. (Depth - 1) <=> d \in 1 .. (Depth - 2) \/ d = Depth - 1
    BY <1>1
  <1>10. \A d \in 1 .. (Depth - 1) : vms'[d].key = vms[d].key
    BY <1>1, <1>3, <1>7, <1>9
  <1>11. \A d : d \in 2 .. (Depth - 1) <=> d \in 2 .. Depth /\ d # Depth
    BY <1>1
  <1>12. \A d \in 2 .. (Depth - 1) : d \in 1 .. (Depth - 1)
    BY <1>1
  <1>13. 1 \in 1 .. (Depth - 1)
    BY <1>1
  <1>14. Nested'
    BY <1>8, <1>10, <1>11, <1>12, <1>13 DEF Nested
  <1>15. Running' = {vms[d].key : d \in 2 .. (Depth - 1)}
    BY <1>8, <1>10, <1>12 DEF Running
  <1>16. Running' = Running \ {Cur.key}
    <2>1. \A d \in 2 .. Depth : d # Depth => vms[d].key # vms[Depth].key
      BY <1>1 DEF Nested
    <2>2. \A k : k \in Running' <=> \E d \in 2 .. Depth : d # Depth /\ k = vms[d].key
      BY <1>11, <1>15
    <2>3. \A k : k \in Running <=> \E d \in 2 .. Depth : k = vms[d].key
      BY DEF Running
    <2> QED
      BY <1>1, <2>1, <2>2, <2>3
  <1>17. Cur.key \in Mods /\ Cur.key \in Running
    BY <1>1 DEF Nested, Running
  <1> QED
    BY <1>2, <1>3, <1>7, <1>8, <1>10, <1>14, <1>16, <1>17

\* What each step does to the stack, the marks and the cache.
LEMMA VMsReached ==
    ASSUME LoaderConstants, Stack, Nested, marks = Running, cache \subseteq Keys, Next
    PROVE  /\ Stack' /\ Nested' /\ marks' = Running'
           /\ cache' \subseteq Keys
           /\ cache \cap Running = {} => cache' \cap Running' = {}
  <1>0. /\ Depth \in Nat \ {0} /\ DOMAIN vms = 1 .. Depth /\ Depth \in 1 .. Depth /\ Cur = vms[Depth]
        /\ Cur \in VMs /\ vms \in Seq(VMs) /\ vms # <<>>
        /\ Depth > 1 => Caller = vms[Depth - 1] /\ Caller \in VMs
    BY DepthFacts DEF Stack
  <1>1. Running \subseteq Mods
    BY DEF Running, Nested
  <1>2. ASSUME vms' = vms, marks' = marks, cache' \subseteq Keys, cache' \subseteq cache
        PROVE  /\ Stack' /\ Nested' /\ marks' = Running' /\ cache' \subseteq Keys
               /\ cache \cap Running = {} => cache' \cap Running' = {}
    <2>1. Stack' /\ Nested' /\ Running' = Running
      BY <1>2 DEF Stack, Nested, Running, Depth
    <2> QED
      BY <1>2, <2>1
  <1>3. ASSUME NEW k \in Keys, CacheHit(k)
        PROVE  /\ Stack' /\ Nested' /\ marks' = Running' /\ cache' \subseteq Keys
               /\ cache \cap Running = {} => cache' \cap Running' = {}
    BY <1>2, <1>3 DEF CacheHit
  <1>4. ASSUME NEW k \in Keys, LoadPlugin(k)
        PROVE  /\ Stack' /\ Nested' /\ marks' = Running' /\ cache' \subseteq Keys
               /\ cache \cap Running = {} => cache' \cap Running' = {}
    <2>1. PICK v : v = [Cur EXCEPT !.plugins = @ \cup {k}]
      OBVIOUS
    <2>2. v \in VMs /\ v.key = Cur.key
      BY <1>0, <1>4, <2>1 DEF VMs, LoadPlugin
    <2>3. vms' = [vms EXCEPT ![Depth] = v]
      BY <1>0, <1>4, <2>1 DEF LoadPlugin
    <2>4. Stack' /\ Nested' /\ Running' = Running
      BY <2>2, <2>3, KeptStack
    <2>5. marks' = marks /\ cache' = cache \cup {k} /\ k \in Plugins
      BY <1>4 DEF LoadPlugin
    <2> QED
      BY <2>4, <2>5, <1>1, ModFacts
  <1>5. ASSUME NEW k \in Keys, Enter(k)
        PROVE  /\ Stack' /\ Nested' /\ marks' = Running' /\ cache' \subseteq Keys
               /\ cache \cap Running = {} => cache' \cap Running' = {}
    <2>1. PICK v : v = [key |-> k, table |-> <<k>>, plugins |-> {}]
      OBVIOUS
    <2>2. k \in Mods /\ k \notin cache /\ k \notin marks /\ marks' = marks \cup {k} /\ cache' = cache
          /\ vms' = Append(vms, v)
      BY <1>5, <2>1 DEF Enter
    <2>3. k \in Modules /\ <<k>> \in Seq(Modules)
      BY <2>2, ModFacts, OneElement
    <2>4. v \in VMs /\ v.key = k
      BY <2>1, <2>3 DEF VMs
    <2>5. Stack' /\ Nested' /\ Running' = Running \cup {k}
      BY <2>2, <2>4, GrownStack
    <2> QED
      BY <2>2, <2>5
  <1>6. ASSUME Depth > 1, NEW t \in Seq(Modules), vms' = Popped(t), marks' = marks \ {Cur.key},
               cache' \subseteq cache \cup {Cur.key}
        PROVE  /\ Stack' /\ Nested' /\ marks' = Running' /\ cache' \subseteq Keys
               /\ cache \cap Running = {} => cache' \cap Running' = {}
    <2>1. Stack' /\ Nested' /\ Running' = Running \ {Cur.key} /\ Cur.key \in Mods
      BY <1>6, PoppedStack
    <2> QED
      BY <1>6, <2>1, ModFacts
  <1>7. Depth > 1 => Caller.table \in Seq(Modules) /\ Transplanted \in Seq(Modules)
    BY <1>0 DEF VMs, Transplanted
  <1>8. ASSUME Finish
        PROVE  /\ Stack' /\ Nested' /\ marks' = Running' /\ cache' \subseteq Keys
               /\ cache \cap Running = {} => cache' \cap Running' = {}
    BY <1>6, <1>7, <1>8 DEF Finish, HasCaller, Unmarked
  <1>9. ASSUME NEW late \in BOOLEAN, Fail(late)
        PROVE  /\ Stack' /\ Nested' /\ marks' = Running' /\ cache' \subseteq Keys
               /\ cache \cap Running = {} => cache' \cap Running' = {}
    <2>1. CASE late
      BY <1>6, <1>7, <1>9, <2>1 DEF Fail, HasCaller, Unmarked
    <2>2. CASE ~late
      BY <1>6, <1>7, <1>9, <2>2 DEF Fail, HasCaller, Unmarked
    <2> QED
      BY <2>1, <2>2
  <1>10. ASSUME NEW g, Forget(g)
        PROVE  /\ Stack' /\ Nested' /\ marks' = Running' /\ cache' \subseteq Keys
               /\ cache \cap Running = {} => cache' \cap Running' = {}
    BY <1>2, <1>10 DEF Forget
  <1>11. ASSUME Define
        PROVE  /\ Stack' /\ Nested' /\ marks' = Running' /\ cache' \subseteq Keys
               /\ cache \cap Running = {} => cache' \cap Running' = {}
    <2>1. PICK v : v = [Cur EXCEPT !.table = Append(@, User)]
      OBVIOUS
    <2>2. Cur.table \in Seq(Modules) /\ Append(Cur.table, User) \in Seq(Modules)
      BY <1>0, ModFacts DEF VMs
    <2>3. v \in VMs /\ v.key = Cur.key
      BY <1>0, <2>1, <2>2 DEF VMs
    <2>4. Depth = 1 /\ vms' = [vms EXCEPT ![1].table = Append(@, User)] /\ marks' = marks /\ cache' = cache
      BY <1>11 DEF Define
    <2>5. vms' = [vms EXCEPT ![Depth] = v]
      BY <1>0, <2>1, <2>4
    <2>6. Stack' /\ Nested' /\ Running' = Running
      BY <2>3, <2>5, KeptStack
    <2> QED
      BY <2>4, <2>6
  <1>12. ASSUME Reset
        PROVE  /\ Stack' /\ Nested' /\ marks' = Running' /\ cache' \subseteq Keys
               /\ cache \cap Running = {} => cache' \cap Running' = {}
    <2>1. Depth = 1 /\ cache' = {} /\ vms' = <<UserVM>> /\ marks' = marks
      BY <1>12 DEF Reset
    <2>2. UserVM \in VMs /\ UserVM.key = User
      BY ModFacts DEF UserVM, VMs
    <2>3. Stack' /\ Depth' = 1 /\ vms'[1] = UserVM
      BY <2>1, <2>2, OneElement DEF Stack, Depth
    <2>4. 2 .. 1 = {}
      OBVIOUS
    <2>5. Nested' /\ Running' = {} /\ Running = {}
      BY <2>1, <2>2, <2>3, <2>4 DEF Nested, Running
    <2> QED
      BY <2>1, <2>3, <2>5
  <1> QED
    BY <1>3, <1>4, <1>5, <1>8, <1>9, <1>10, <1>11, <1>12 DEF Next

\* The stack and the marks agree in every state.
THEOREM StackCorrect == Spec => []MarkInv
  <1>1. LoaderConstants
    BY LoaderConstants
  <1>2. Init => MarkInv
    <2>1. SUFFICES ASSUME Init PROVE MarkInv
      OBVIOUS
    <2>2. UserVM \in VMs /\ UserVM.key = User
      BY ModFacts, <1>1 DEF UserVM, VMs
    <2>3. Stack /\ Depth = 1 /\ vms[1] = UserVM
      BY <2>1, <2>2, OneElement DEF Stack, Depth, Init
    <2>4. 2 .. 1 = {}
      OBVIOUS
    <2>5. Nested /\ Running = {}
      BY <2>2, <2>3, <2>4 DEF Nested, Running
    <2> QED
      BY <2>1, <2>3, <2>5 DEF MarkInv, Init
  <1>3. MarkInv /\ [Next]_vars => MarkInv'
    <2>1. ASSUME MarkInv, Next PROVE MarkInv'
      BY <2>1, <1>1, VMsReached DEF MarkInv
    <2>2. ASSUME MarkInv, UNCHANGED vars PROVE MarkInv'
      BY <2>2 DEF MarkInv, Stack, Nested, Running, Depth, vars
    <2> QED
      BY <2>1, <2>2
  <1> QED
    BY <1>2, <1>3, PTL DEF Spec

\* Every mark belongs to one module that runs now, so that no path is entered under its
\* own import and a finished or failed import leaves no mark.
THEOREM MarksCorrect == Spec => []MarksAreRunning
  <1>1. MarkInv => MarksAreRunning
    <2>1. SUFFICES ASSUME MarkInv PROVE Cardinality(Running) = Depth - 1
      BY DEF MarksAreRunning, MarkInv
    <2>2. Depth \in Nat \ {0}
      BY <2>1, DepthFacts DEF MarkInv
    <2>3. IsFiniteSet(2 .. Depth) /\ Cardinality(2 .. Depth) = Depth - 1
      BY <2>2, FS_Interval
    <2>4. PICK f : f = [d \in 2 .. Depth |-> vms[d].key]
      OBVIOUS
    <2>5. f \in [2 .. Depth -> Running] /\ \A t \in Running : \E s \in 2 .. Depth : f[s] = t
      BY <2>4 DEF Running
    <2>6. \A a, b \in 2 .. Depth : f[a] = f[b] => a = b
      BY <2>1, <2>4 DEF MarkInv, Nested
    <2>7. PICK D : D = 2 .. Depth
      OBVIOUS
    <2>8. Cardinality(Running) = Cardinality(D)
      BY <2>3, <2>5, <2>6, <2>7, SameByBijection
    <2> QED
      BY <2>3, <2>7, <2>8
  <1> QED
    BY <1>1, StackCorrect, PTL
-----------------------------------------------------------------------------
\* Decref in rounds: the members of S lose a reference, then each round drops what has none.

Start(E, S) == [k \in DOMAIN E |-> IF k \in S THEN [E[k] EXCEPT !.refs = @ - 1] ELSE E[k]]

LEMMA RoundsExist ==
    ASSUME NEW start, NEW K \in Nat
    PROVE  \E f : f = [n \in 0 .. K |-> IF n = 0 THEN start ELSE DropDead(f[n - 1])]
  <1> DEFINE Rounds(f, n) == f = [i \in 0 .. n |-> IF i = 0 THEN start ELSE DropDead(f[i - 1])]
             T == {n \in Nat : \E f : Rounds(f, n)}
  <1>1. 0 \in T
    <2>1. PICK f : f = [i \in 0 .. 0 |-> start]
      OBVIOUS
    <2>2. f = [i \in 0 .. 0 |-> IF i = 0 THEN start ELSE DropDead(f[i - 1])]
      BY <2>1
    <2> QED
      BY <2>2
  <1>2. ASSUME NEW n \in Nat, n \in T PROVE n + 1 \in T
    <2>1. PICK f : Rounds(f, n)
      BY <1>2
    <2>2. PICK g : g = [i \in 0 .. (n + 1) |-> IF i = n + 1 THEN DropDead(f[n]) ELSE f[i]]
      OBVIOUS
    <2>3. ASSUME NEW i \in 0 .. (n + 1)
          PROVE  g[i] = IF i = 0 THEN start ELSE DropDead(g[i - 1])
      <3>1. CASE i = n + 1
        <4>1. g[i] = DropDead(f[n]) /\ g[n] = f[n] /\ i - 1 = n /\ i # 0
          BY <2>2, <3>1
        <4> QED
          BY <4>1
      <3>2. CASE i \in 1 .. n
        <4>1. g[i] = f[i] /\ i - 1 \in 0 .. n /\ g[i - 1] = f[i - 1] /\ i # 0 /\ i \in 0 .. n
          BY <2>2, <3>2
        <4>2. f[i] = DropDead(f[i - 1])
          BY <2>1, <4>1
        <4> QED
          BY <4>1, <4>2
      <3>3. CASE i = 0
        <4>1. g[i] = f[0] /\ 0 \in 0 .. n
          BY <2>2, <3>3
        <4> QED
          BY <2>1, <3>3, <4>1
      <3>4. i = 0 \/ i \in 1 .. n \/ i = n + 1
        OBVIOUS
      <3> QED
        BY <3>1, <3>2, <3>3, <3>4
    <2>4. Rounds(g, n + 1)
      BY <2>2, <2>3
    <2> QED
      BY <2>4
  <1>3. Nat \subseteq T
    <2> HIDE DEF T
    <2> QED
      BY <1>1, <1>2, Induction
  <1> QED
    BY <1>3

LEMMA DecrefRounds ==
    ASSUME NEW E, NEW S, Cardinality(Keys) \in Nat
    PROVE  \E f : /\ f[0] = Start(E, S)
                  /\ \A n \in 1 .. Cardinality(Keys) : f[n] = DropDead(f[n - 1])
                  /\ Decref(E, S) = f[Cardinality(Keys)]
  <1> DEFINE K == Cardinality(Keys)
             f == CHOOSE h : h = [n \in 0 .. K |-> IF n = 0 THEN Start(E, S) ELSE DropDead(h[n - 1])]
  <1>1. Decref(E, S) = f[K]
    BY DEF Decref, Start
  <1>2. f = [n \in 0 .. K |-> IF n = 0 THEN Start(E, S) ELSE DropDead(f[n - 1])]
    BY RoundsExist
  <1> HIDE DEF f
  <1>3. f[0] = Start(E, S)
    BY <1>2
  <1>4. \A n \in 1 .. K : f[n] = DropDead(f[n - 1])
    BY <1>2
  <1> QED
    BY <1>1, <1>3, <1>4
-----------------------------------------------------------------------------
\* Environments, with C the references that come from outside: the cache's, and those the
\* running handler holds.

Envs      == [Modules -> Entries]
LiveIn(E) == {k \in Keys : E[k].st = "live"}
InGlobals(E, k) == {j \in Modules : k \in Spaces(E[j].globals)}
InExports(E, k) == {j \in Modules : k \in Spaces(E[j].exports)}
Owners(E, k)    == Cardinality(InGlobals(E, k)) + Cardinality(InExports(E, k))

\* Every namespace a module refers to is alive; an unused entry is empty and a module that
\* runs exports nothing yet; a namespace has one reference per owner.
Linked(E)     == \A j \in Modules : Spaces(E[j].globals) \subseteq LiveIn(E)
                                    /\ Spaces(E[j].exports) \subseteq LiveIn(E)
Blank(E)      == \A j \in Modules : /\ E[j].st = "unused" => E[j].globals = {}
                                    /\ E[j].st # "live" => E[j].exports = {}
Counted(E, C) == \A k \in LiveIn(E) : E[k].refs = C[k] + Owners(E, k)
Good(E, C)    == E \in Envs /\ Linked(E) /\ Blank(E) /\ Counted(E, C)

Held       == [Keys -> Nat]
Plus(C, S) == [k \in Keys |-> IF k \in S THEN C[k] + 1 ELSE C[k]]
Dead(E)    == {d \in Keys : E[d].st = "live" /\ E[d].refs = 0}

\* What E and F say of k, its references apart, is the same.
Same(E, F, k) == /\ F[k].st = E[k].st /\ F[k].by = E[k].by
                 /\ F[k].globals = E[k].globals /\ F[k].exports = E[k].exports
Kept(E, F)    == \A k \in Modules : Same(E, F, k)
\* Nothing but namespaces that were dropped.
Shrunk(E, F)  == \A k \in Modules : Same(E, F, k) \/ (k \in LiveIn(E) /\ F[k].st = "unused")

LEMMA SpaceFacts ==
    ASSUME LoaderConstants, NEW G \in SUBSET Globals
    PROVE  Spaces(G) \subseteq Keys /\ \A k : k \in Spaces(G) <=> <<"ns", k, 0>> \in G
  <1>1. \A g \in G : g[1] = "ns" => g[2] \in Keys /\ g = <<"ns", g[2], 0>>
    BY DEF Globals
  <1>2. ASSUME NEW k \in Spaces(G) PROVE k \in Keys /\ <<"ns", k, 0>> \in G
    BY <1>1, <1>2 DEF Spaces
  <1>3. ASSUME NEW k, <<"ns", k, 0>> \in G PROVE k \in Spaces(G)
    <2>1. PICK g : g = <<"ns", k, 0>>
      OBVIOUS
    <2>2. g \in G /\ g[1] = "ns" /\ g[2] = k
      BY <2>1, <1>3
    <2> QED
      BY <2>2 DEF Spaces
  <1> QED
    BY <1>2, <1>3

LEMMA NoSpaces == Spaces({}) = {}
  BY DEF Spaces

LEMMA FiniteFacts ==
    ASSUME LoaderConstants
    PROVE  /\ IsFiniteSet(Keys) /\ IsFiniteSet(Modules) /\ Cardinality(Keys) \in Nat
           /\ \A S \in SUBSET Modules : IsFiniteSet(S) /\ Cardinality(S) \in Nat
  <1>1. IsFiniteSet(Keys) /\ IsFiniteSet({User})
    BY FS_Singleton DEF LoaderConstants
  <1>2. IsFiniteSet(Modules) /\ Cardinality(Keys) \in Nat
    BY <1>1, FS_Union, FS_CardinalityType DEF Modules
  <1> QED
    BY <1>1, <1>2, FS_Subset, FS_CardinalityType

LEMMA OwnersFacts ==
    ASSUME LoaderConstants, NEW E, NEW k
    PROVE  /\ InGlobals(E, k) \subseteq Modules /\ InExports(E, k) \subseteq Modules
           /\ IsFiniteSet(InGlobals(E, k)) /\ IsFiniteSet(InExports(E, k))
           /\ Cardinality(InGlobals(E, k)) \in Nat /\ Cardinality(InExports(E, k)) \in Nat
           /\ Owners(E, k) \in Nat
           /\ Owners(E, k) = 0 => InGlobals(E, k) = {} /\ InExports(E, k) = {}
  <1>1. InGlobals(E, k) \subseteq Modules /\ InExports(E, k) \subseteq Modules
    BY DEF InGlobals, InExports
  <1>2. /\ IsFiniteSet(InGlobals(E, k)) /\ IsFiniteSet(InExports(E, k))
        /\ Cardinality(InGlobals(E, k)) \in Nat /\ Cardinality(InExports(E, k)) \in Nat
    BY <1>1, FiniteFacts
  <1>3. Owners(E, k) \in Nat
    BY <1>2 DEF Owners
  <1>4. \A a, b \in Nat : a + b = 0 => a = 0 /\ b = 0
    OBVIOUS
  <1>5. Owners(E, k) = 0 => Cardinality(InGlobals(E, k)) = 0 /\ Cardinality(InExports(E, k)) = 0
    BY <1>2, <1>4 DEF Owners
  <1> QED
    BY <1>1, <1>2, <1>3, <1>5, FS_EmptySet

\* The members of S without those of D.
LEMMA WithoutSome ==
    ASSUME NEW S, NEW D, IsFiniteSet(S)
    PROVE  Cardinality(S \ D) = Cardinality(S) - Cardinality(S \cap D) /\ Cardinality(S \cap D) \in Nat
           /\ Cardinality(S) \in Nat /\ Cardinality(S \ D) \in Nat
  <1>1. IsFiniteSet(S \cap D) /\ IsFiniteSet(S \ D)
    BY FS_Subset
  <1>2. /\ Cardinality(S \cap D) \in Nat /\ Cardinality(S \ D) \in Nat /\ Cardinality(S) \in Nat
    BY <1>1, FS_CardinalityType
  <1>3. Cardinality(S \ D) = Cardinality(S) - Cardinality(S \cap D)
    BY FS_Difference
  <1> QED
    BY <1>2, <1>3

LEMMA DeadUnowned ==
    ASSUME LoaderConstants, NEW C \in Held, NEW E, Good(E, C), NEW d \in Dead(E)
    PROVE  C[d] = 0 /\ InGlobals(E, d) = {} /\ InExports(E, d) = {} /\ d \in LiveIn(E)
  <1>1. d \in LiveIn(E) /\ E[d].refs = 0 /\ d \in Keys
    BY DEF Dead, LiveIn
  <1>2. 0 = C[d] + Owners(E, d)
    BY <1>1 DEF Good, Counted
  <1>3. C[d] \in Nat /\ Owners(E, d) \in Nat
    BY <1>1, OwnersFacts DEF Held
  <1>4. C[d] = 0 /\ Owners(E, d) = 0
    BY <1>2, <1>3
  <1> QED
    BY <1>1, <1>4, OwnersFacts

\* A round of drops takes away what nobody owns, and the references it had.
LEMMA DropDeadGood ==
    ASSUME LoaderConstants, NEW C \in Held, NEW E, Good(E, C), NEW F, F = DropDead(E)
    PROVE  /\ Good(F, C) /\ Shrunk(E, F)
           /\ LiveIn(F) = LiveIn(E) \ Dead(E)
           /\ Dead(E) = {} => F = E
  <1> DEFINE lost(k) == Cardinality({d \in Dead(E) : k \in Spaces(E[d].exports)})
                        + Cardinality({d \in Dead(E) : k \in Spaces(E[d].globals)})
  <1>1. E \in [Modules -> Entries] /\ DOMAIN E = Modules /\ Dead(E) \subseteq Keys /\ Keys \subseteq Modules
    BY ModFacts DEF Good, Envs, Dead
  <1>2. F = [k \in Modules |-> IF k \in Dead(E) THEN Unused ELSE [E[k] EXCEPT !.refs = @ - lost(k)]]
    BY <1>1 DEF DropDead, Dead
  <1>3. \A k \in Modules : lost(k) \in Nat
    <2>1. \A S \in SUBSET Dead(E) : Cardinality(S) \in Nat
      BY <1>1, FiniteFacts
    <2>2. ASSUME NEW k \in Modules PROVE lost(k) \in Nat
      <3>1. PICK a : a = Cardinality({d \in Dead(E) : k \in Spaces(E[d].exports)})
        OBVIOUS
      <3>2. PICK b : b = Cardinality({d \in Dead(E) : k \in Spaces(E[d].globals)})
        OBVIOUS
      <3>3. a \in Nat /\ b \in Nat
        BY <2>1, <3>1, <3>2
      <3> QED
        BY <3>1, <3>2, <3>3
    <2> QED
      BY <2>2
  <1>4. ASSUME NEW k \in Modules, k \notin Dead(E)
        PROVE  F[k] \in Entries /\ Same(E, F, k) /\ F[k].refs = E[k].refs - lost(k)
    <2>1. PICK n \in Nat : n = lost(k)
      BY <1>3
    <2>2. F[k] = [E[k] EXCEPT !.refs = @ - n]
      BY <1>2, <1>4, <2>1
    <2>3. E[k] \in Entries /\ E[k].refs \in Int
      BY <1>1 DEF Entries
    <2>4. F[k] \in Entries /\ F[k].refs = E[k].refs - n /\ Same(E, F, k)
      BY <2>2, <2>3 DEF Entries, Same
    <2> QED
      BY <2>1, <2>4
  <1> HIDE DEF lost
  <1>5. ASSUME NEW k \in Dead(E)
        PROVE  F[k] = Unused /\ F[k] \in Entries /\ k \in LiveIn(E) /\ Spaces(F[k].globals) = {} /\ Spaces(F[k].exports) = {}
    <2>1. F[k] = Unused /\ k \in LiveIn(E)
      BY <1>1, <1>2 DEF Dead, LiveIn
    <2> QED
      BY <2>1, NoSpaces DEF Unused, Entries
  <1>6. F \in Envs
    BY <1>2, <1>4, <1>5 DEF Envs
  <1>7. Shrunk(E, F)
    <2>1. ASSUME NEW k \in Modules PROVE Same(E, F, k) \/ (k \in LiveIn(E) /\ F[k].st = "unused")
      <3>1. CASE k \in Dead(E)
        BY <1>5, <3>1 DEF Unused
      <3>2. CASE k \notin Dead(E)
        BY <1>4, <3>2
      <3> QED
        BY <3>1, <3>2
    <2> QED
      BY <2>1 DEF Shrunk
  <1>8. LiveIn(F) = LiveIn(E) \ Dead(E)
    <2>1. ASSUME NEW k \in Keys PROVE k \in LiveIn(F) <=> k \in LiveIn(E) /\ k \notin Dead(E)
      <3>1. CASE k \in Dead(E)
        BY <1>5, <3>1 DEF LiveIn, Unused
      <3>2. CASE k \notin Dead(E)
        BY <1>1, <1>4, <3>2 DEF LiveIn, Same
      <3> QED
        BY <3>1, <3>2
    <2> QED
      BY <2>1 DEF LiveIn
  <1>9. Linked(F)
    <2>1. ASSUME NEW j \in Modules
          PROVE  Spaces(F[j].globals) \subseteq LiveIn(F) /\ Spaces(F[j].exports) \subseteq LiveIn(F)
      <3>1. CASE j \in Dead(E)
        BY <1>5, <3>1
      <3>2. CASE j \notin Dead(E)
        <4>1. F[j].globals = E[j].globals /\ F[j].exports = E[j].exports
          BY <1>4, <3>2 DEF Same
        <4>2. Spaces(E[j].globals) \subseteq LiveIn(E) /\ Spaces(E[j].exports) \subseteq LiveIn(E)
          BY DEF Good, Linked
        <4>3. \A d \in Dead(E) : d \notin Spaces(E[j].globals) /\ d \notin Spaces(E[j].exports)
          BY DeadUnowned DEF InGlobals, InExports
        <4> QED
          BY <4>1, <4>2, <4>3, <1>8
      <3> QED
        BY <3>1, <3>2
    <2> QED
      BY <2>1 DEF Linked
  <1>10. Blank(F)
    <2>1. ASSUME NEW j \in Modules
          PROVE  /\ F[j].st = "unused" => F[j].globals = {}
                 /\ F[j].st # "live" => F[j].exports = {}
      <3>1. CASE j \in Dead(E)
        BY <1>5, <3>1 DEF Unused
      <3>2. CASE j \notin Dead(E)
        BY <1>4, <3>2 DEF Same, Good, Blank
      <3> QED
        BY <3>1, <3>2
    <2> QED
      BY <2>1 DEF Blank
  <1>11. Counted(F, C)
    <2>1. SUFFICES ASSUME NEW k \in LiveIn(F) PROVE F[k].refs = C[k] + Owners(F, k)
      BY DEF Counted
    <2>2. k \in Keys /\ k \in Modules /\ k \in LiveIn(E) /\ k \notin Dead(E)
      BY <1>1, <1>8, <2>1 DEF LiveIn
    <2>3. InGlobals(F, k) = InGlobals(E, k) \ Dead(E)
      <3>1. ASSUME NEW j \in Modules PROVE k \in Spaces(F[j].globals) <=> k \in Spaces(E[j].globals) /\ j \notin Dead(E)
        BY <1>4, <1>5 DEF Same
      <3> QED
        BY <3>1 DEF InGlobals
    <2>4. InExports(F, k) = InExports(E, k) \ Dead(E)
      <3>1. ASSUME NEW j \in Modules PROVE k \in Spaces(F[j].exports) <=> k \in Spaces(E[j].exports) /\ j \notin Dead(E)
        BY <1>4, <1>5 DEF Same
      <3> QED
        BY <3>1 DEF InExports
    <2>5. InGlobals(E, k) \cap Dead(E) = {d \in Dead(E) : k \in Spaces(E[d].globals)}
      BY <1>1 DEF InGlobals
    <2>6. InExports(E, k) \cap Dead(E) = {d \in Dead(E) : k \in Spaces(E[d].exports)}
      BY <1>1 DEF InExports
    <2>7. PICK a, b, c, d : /\ a = Cardinality(InGlobals(E, k)) /\ b = Cardinality(InGlobals(E, k) \cap Dead(E))
                            /\ c = Cardinality(InExports(E, k)) /\ d = Cardinality(InExports(E, k) \cap Dead(E))
      OBVIOUS
    <2>8. /\ a \in Nat /\ b \in Nat /\ Cardinality(InGlobals(F, k)) = a - b
          /\ c \in Nat /\ d \in Nat /\ Cardinality(InExports(F, k)) = c - d
      BY <2>3, <2>4, <2>7, OwnersFacts, WithoutSome
    <2>9. lost(k) = d + b
      BY <2>5, <2>6, <2>7 DEF lost
    <2>10. Owners(E, k) = a + c /\ Owners(F, k) = (a - b) + (c - d)
      BY <2>7, <2>8 DEF Owners
    <2>11. E[k].refs = C[k] + (a + c) /\ C[k] \in Nat
      BY <2>2, <2>10 DEF Good, Counted, Held
    <2>12. F[k].refs = E[k].refs - (d + b)
      BY <1>4, <2>2, <2>9
    <2>13. F[k].refs = C[k] + ((a - b) + (c - d))
      BY <2>8, <2>11, <2>12
    <2> QED
      BY <2>10, <2>13
  <1>12. ASSUME Dead(E) = {} PROVE F = E
    <2>1. ASSUME NEW k \in Modules PROVE F[k] = E[k]
      <3>1. \A S \in SUBSET Dead(E) : S = {}
        BY <1>12
      <3>2. lost(k) = 0
        <4>1. PICK a : a = Cardinality({d \in Dead(E) : k \in Spaces(E[d].exports)})
          OBVIOUS
        <4>2. PICK b : b = Cardinality({d \in Dead(E) : k \in Spaces(E[d].globals)})
          OBVIOUS
        <4>3. a = 0 /\ b = 0
          BY <3>1, <4>1, <4>2, FS_EmptySet
        <4>4. lost(k) = a + b
          BY <4>1, <4>2 DEF lost
        <4> QED
          BY <4>3, <4>4
      <3>3. E[k] \in Entries /\ F[k] \in Entries /\ Same(E, F, k) /\ F[k].refs = E[k].refs - 0 /\ E[k].refs \in Int
        BY <1>1, <1>4, <1>12, <3>2 DEF Entries
      <3> QED
        BY <3>3 DEF Entries, Same
    <2>2. F \in [Modules -> Entries]
      BY <1>6 DEF Envs
    <2> QED
      BY <1>1, <2>1, <2>2
  <1> QED
    BY <1>6, <1>7, <1>8, <1>9, <1>10, <1>11, <1>12 DEF Good

LEMMA ShrunkFacts ==
    ASSUME NEW E, NEW F, NEW H, Shrunk(E, F), Shrunk(F, H)
    PROVE  Shrunk(E, H)
  <1>1. ASSUME NEW k \in Modules PROVE Same(E, H, k) \/ (k \in LiveIn(E) /\ H[k].st = "unused")
    <2>1. CASE F[k].st = "unused" /\ k \in LiveIn(E)
      <3>1. k \notin LiveIn(F)
        BY <2>1 DEF LiveIn
      <3>2. Same(F, H, k)
        BY <3>1 DEF Shrunk
      <3> QED
        BY <1>1, <2>1, <3>2 DEF Same
    <2>2. CASE Same(E, F, k)
      <3>1. k \in LiveIn(F) => k \in LiveIn(E)
        BY <2>2 DEF Same, LiveIn
      <3>2. Same(F, H, k) \/ (k \in LiveIn(F) /\ H[k].st = "unused")
        BY DEF Shrunk
      <3> QED
        BY <2>2, <3>1, <3>2 DEF Same
    <2> QED
      BY <2>1, <2>2 DEF Shrunk
  <1> QED
    BY <1>1 DEF Shrunk

\* Value::decref of owned references: what outside references remain, nothing else is
\* lost, and nothing without a reference stays.
LEMMA DecrefGood ==
    ASSUME LoaderConstants, NEW C \in Held, NEW E, NEW S \in SUBSET LiveIn(E), Good(E, Plus(C, S)),
           NEW F, F = Decref(E, S)
    PROVE  /\ Good(F, C) /\ Shrunk(E, F) /\ Dead(F) = {}
           /\ \A k \in LiveIn(E) : C[k] > 0 => k \in LiveIn(F)
  <1> DEFINE K == Cardinality(Keys)
  <1>0. K \in Nat /\ E \in [Modules -> Entries] /\ DOMAIN E = Modules /\ Keys \subseteq Modules
    BY FiniteFacts, ModFacts DEF Good, Envs
  <1>1. PICK f : /\ f[0] = Start(E, S)
                 /\ \A n \in 1 .. Cardinality(Keys) : f[n] = DropDead(f[n - 1])
                 /\ Decref(E, S) = f[Cardinality(Keys)]
    BY <1>0, DecrefRounds
  <1>2. Good(f[0], C) /\ Kept(E, f[0])
    <2>1. PICK G : G = f[0]
      OBVIOUS
    <2>2. G = [k \in Modules |-> IF k \in S THEN [E[k] EXCEPT !.refs = @ - 1] ELSE E[k]]
      BY <1>0, <1>1, <2>1 DEF Start
    <2>3. ASSUME NEW k \in Modules
          PROVE  /\ G[k] \in Entries /\ Same(E, G, k)
                 /\ k \in S => G[k].refs = E[k].refs - 1
                 /\ k \notin S => G[k].refs = E[k].refs
      <3>1. E[k] \in Entries /\ E[k].refs \in Int
        BY <1>0 DEF Entries
      <3>2. CASE k \in S
        <4>1. G[k] = [E[k] EXCEPT !.refs = @ - 1]
          BY <2>2, <3>2
        <4> QED
          BY <3>1, <3>2, <4>1 DEF Entries, Same
      <3>3. CASE k \notin S
        <4>1. G[k] = E[k]
          BY <2>2, <3>3
        <4> QED
          BY <3>1, <3>3, <4>1 DEF Same
      <3> QED
        BY <3>2, <3>3
    <2>4. LiveIn(G) = LiveIn(E)
      BY <1>0, <2>3 DEF LiveIn, Same
    <2>5. G \in Envs
      BY <2>2, <2>3 DEF Envs
    <2>6. Linked(G) /\ Blank(G)
      BY <2>3, <2>4 DEF Good, Linked, Blank, Same
    <2>7. \A k : InGlobals(G, k) = InGlobals(E, k) /\ InExports(G, k) = InExports(E, k)
      BY <2>3 DEF InGlobals, InExports, Same
    <2>8. Counted(G, C)
      <3>1. SUFFICES ASSUME NEW k \in LiveIn(E) PROVE G[k].refs = C[k] + Owners(G, k)
        BY <2>4 DEF Counted
      <3>2. k \in Keys /\ k \in Modules /\ C[k] \in Nat /\ E[k].refs = Plus(C, S)[k] + Owners(E, k)
        BY <1>0 DEF Good, Counted, LiveIn, Held
      <3>3. PICK o : o = Owners(E, k)
        OBVIOUS
      <3>4. Owners(G, k) = o /\ o \in Nat
        BY <2>7, <3>3, OwnersFacts DEF Owners
      <3>5. CASE k \in S
        <4>1. Plus(C, S)[k] = C[k] + 1 /\ G[k].refs = E[k].refs - 1
          BY <2>3, <3>2, <3>5 DEF Plus
        <4> QED
          BY <3>2, <3>3, <3>4, <4>1
      <3>6. CASE k \notin S
        <4>1. Plus(C, S)[k] = C[k] /\ G[k].refs = E[k].refs
          BY <2>3, <3>2, <3>6 DEF Plus
        <4> QED
          BY <3>2, <3>3, <3>4, <4>1
      <3> QED
        BY <3>5, <3>6
    <2> QED
      BY <2>1, <2>3, <2>5, <2>6, <2>8 DEF Good, Kept
  <1> DEFINE Round(n) == /\ Good(f[n], C) /\ Shrunk(E, f[n])
                         /\ \A k \in LiveIn(E) : C[k] > 0 => k \in LiveIn(f[n])
                         /\ Dead(f[n]) = {} \/ Cardinality(LiveIn(f[n])) <= K - n
             T == {n \in Nat : n <= K => Round(n)}
  <1>3. 0 \in T
    <2>0. \A k \in Modules : Same(E, f[0], k)
      BY <1>2 DEF Kept
    <2>1. Shrunk(E, f[0]) /\ LiveIn(f[0]) = LiveIn(E)
      BY <1>0, <2>0 DEF Shrunk, Same, LiveIn
    <2>2. LiveIn(f[0]) \subseteq Keys
      BY DEF LiveIn
    <2>3. Cardinality(LiveIn(f[0])) <= K
      BY <2>2, FiniteFacts, FS_Subset
    <2>4. K - 0 = K
      BY <1>0
    <2> QED
      BY <1>2, <2>1, <2>3, <2>4
  <1>4. ASSUME NEW n \in Nat, n \in T PROVE n + 1 \in T
    <2>1. SUFFICES ASSUME n + 1 <= K PROVE Round(n + 1)
      OBVIOUS
    <2>2. n <= K /\ n + 1 \in 1 .. K /\ (n + 1) - 1 = n
      BY <1>0, <2>1
    <2>3. Round(n)
      BY <1>4, <2>2
    <2>4. f[n + 1] = DropDead(f[n])
      BY <1>1, <2>2
    <2>5. PICK G, H : G = f[n] /\ H = f[n + 1]
      OBVIOUS
    <2>6. /\ Good(G, C) /\ Shrunk(E, G) /\ H = DropDead(G)
          /\ \A k \in LiveIn(E) : C[k] > 0 => k \in LiveIn(G)
          /\ Dead(G) = {} \/ Cardinality(LiveIn(G)) <= K - n
      BY <2>3, <2>4, <2>5
    <2>7. /\ Good(H, C) /\ Shrunk(G, H) /\ LiveIn(H) = LiveIn(G) \ Dead(G)
          /\ Dead(G) = {} => H = G
      BY <2>6, DropDeadGood
    <2>8. Shrunk(E, H)
      BY <2>6, <2>7, ShrunkFacts
    <2>9. ASSUME NEW k \in LiveIn(E), C[k] > 0 PROVE k \in LiveIn(H)
      <3>1. k \in LiveIn(G) /\ C[k] # 0
        BY <2>6, <2>9
      <3>2. k \notin Dead(G)
        BY <2>6, <3>1, DeadUnowned
      <3> QED
        BY <2>7, <3>1, <3>2
    <2>10. Dead(H) = {} \/ Cardinality(LiveIn(H)) <= K - (n + 1)
      <3>1. CASE Dead(G) = {}
        BY <2>7, <3>1
      <3>2. CASE Dead(G) # {}
        <4>1. PICK d : d \in Dead(G)
          BY <3>2
        <4>2. d \in LiveIn(G) /\ d \notin LiveIn(H) /\ LiveIn(H) \subseteq LiveIn(G) /\ LiveIn(G) \subseteq Keys
          BY <2>6, <2>7, <4>1, DeadUnowned DEF LiveIn
        <4>3. IsFiniteSet(LiveIn(G)) /\ IsFiniteSet(LiveIn(H))
          BY <4>2, FiniteFacts, FS_Subset
        <4>4. PICK a, b : a = Cardinality(LiveIn(G)) /\ b = Cardinality(LiveIn(H))
          OBVIOUS
        <4>5. a \in Nat /\ b \in Nat /\ b < a
          BY <4>2, <4>3, <4>4, FS_Subset, FS_CardinalityType
        <4>6. a <= K - n
          BY <2>6, <3>2, <4>4
        <4>7. b <= K - (n + 1)
          BY <1>0, <4>5, <4>6
        <4> QED
          BY <4>4, <4>7
      <3> QED
        BY <3>1, <3>2
    <2> QED
      BY <2>5, <2>7, <2>8, <2>9, <2>10
  <1>5. Nat \subseteq T
    <2> HIDE DEF T
    <2> QED
      BY <1>3, <1>4, Induction
  <1>6. Round(K) /\ F = f[K]
    BY <1>0, <1>1, <1>5
  <1>7. Dead(F) = {}
    <2>1. CASE Cardinality(LiveIn(F)) <= K - K
      <3>1. LiveIn(F) \subseteq Keys
        BY DEF LiveIn
      <3>2. IsFiniteSet(LiveIn(F))
        BY <3>1, FiniteFacts, FS_Subset
      <3>3. PICK a : a = Cardinality(LiveIn(F))
        OBVIOUS
      <3>4. a \in Nat /\ a <= 0
        BY <1>0, <2>1, <3>2, <3>3, FS_CardinalityType
      <3>5. LiveIn(F) = {}
        BY <3>2, <3>3, <3>4, FS_EmptySet
      <3> QED
        BY <3>5 DEF Dead, LiveIn
    <2> QED
      BY <1>6, <2>1
  <1> QED
    BY <1>6, <1>7

\* The same while something outside, the cache, holds all that is alive.
LEMMA DecrefKeeps ==
    ASSUME LoaderConstants, NEW C \in Held, NEW E, NEW S \in SUBSET LiveIn(E), Good(E, Plus(C, S)),
           \A k \in LiveIn(E) : C[k] > 0, NEW F, F = Decref(E, S)
    PROVE  Good(F, C) /\ Kept(E, F)
  <1>1. /\ Good(F, C) /\ Shrunk(E, F)
        /\ \A k \in LiveIn(E) : C[k] > 0 => k \in LiveIn(F)
    BY DecrefGood
  <1>2. ASSUME NEW k \in Modules PROVE Same(E, F, k)
    <2>1. SUFFICES ASSUME k \in LiveIn(E), F[k].st = "unused" PROVE FALSE
      BY <1>1 DEF Shrunk
    <2>2. k \in LiveIn(F)
      BY <1>1, <2>1
    <2> QED
      BY <2>1, <2>2 DEF LiveIn
  <1> QED
    BY <1>1, <1>2 DEF Kept

LEMMA KeptFacts ==
    ASSUME NEW E, NEW F, Kept(E, F)
    PROVE  /\ LiveIn(F) = LiveIn(E)
           /\ \A k : InGlobals(F, k) = InGlobals(E, k) /\ InExports(F, k) = InExports(E, k)
           /\ \A k : Owners(F, k) = Owners(E, k)
           /\ Linked(E) => Linked(F)
           /\ Blank(E) => Blank(F)
           /\ \A j \in Modules : /\ F[j].st = E[j].st /\ F[j].by = E[j].by
                                 /\ F[j].globals = E[j].globals /\ F[j].exports = E[j].exports
  <1>1. \A j \in Modules : /\ F[j].st = E[j].st /\ F[j].by = E[j].by
                           /\ F[j].globals = E[j].globals /\ F[j].exports = E[j].exports
    BY DEF Kept, Same
  <1>2. LiveIn(F) = LiveIn(E)
    BY <1>1 DEF LiveIn, Modules
  <1>3. \A k : InGlobals(F, k) = InGlobals(E, k) /\ InExports(F, k) = InExports(E, k)
    BY <1>1 DEF InGlobals, InExports
  <1>4. \A k : Owners(F, k) = Owners(E, k)
    BY <1>3 DEF Owners
  <1>5. Linked(E) => Linked(F)
    BY <1>1, <1>2 DEF Linked
  <1>6. Blank(E) => Blank(F)
    BY <1>1 DEF Blank
  <1> QED
    BY <1>1, <1>2, <1>3, <1>4, <1>5, <1>6

LEMMA PlusFacts ==
    ASSUME NEW C \in Held, NEW S
    PROVE  /\ Plus(C, S) \in Held
           /\ \A k \in Keys : /\ k \in S => Plus(C, S)[k] = C[k] + 1
                              /\ k \notin S => Plus(C, S)[k] = C[k]
                              /\ C[k] \in Nat /\ Plus(C, S)[k] \in Nat
                              /\ k \in S => Plus(C, S)[k] > 0
                              /\ C[k] > 0 => Plus(C, S)[k] > 0
  <1>1. \A k \in Keys : C[k] \in Nat /\ C[k] + 1 \in Nat /\ C[k] + 1 > 0
    BY DEF Held
  <1> QED
    BY <1>1 DEF Plus, Held

LEMMA PlusCommutes ==
    ASSUME NEW C \in Held, NEW S, NEW T
    PROVE  Plus(Plus(C, S), T) = Plus(Plus(C, T), S)
  <1>1. Plus(C, S) \in Held /\ Plus(C, T) \in Held
    BY PlusFacts
  <1>2. Plus(Plus(C, S), T) \in Held /\ Plus(Plus(C, T), S) \in Held
    BY <1>1, PlusFacts
  <1>3. ASSUME NEW k \in Keys PROVE Plus(Plus(C, S), T)[k] = Plus(Plus(C, T), S)[k]
    BY <1>1, PlusFacts
  <1> QED
    BY <1>2, <1>3 DEF Held

\* Value::incref of namespaces that are alive.
LEMMA IncrefGood ==
    ASSUME LoaderConstants, NEW C \in Held, NEW E, NEW S \in SUBSET LiveIn(E), Good(E, C),
           NEW F, F = Incref(E, S)
    PROVE  Good(F, Plus(C, S)) /\ Kept(E, F)
  <1>0. E \in [Modules -> Entries] /\ DOMAIN E = Modules /\ Keys \subseteq Modules
    BY ModFacts DEF Good, Envs
  <1>1. F = [k \in Modules |-> IF k \in S THEN [E[k] EXCEPT !.refs = @ + 1] ELSE E[k]]
    BY <1>0 DEF Incref
  <1>2. ASSUME NEW k \in Modules
        PROVE  /\ F[k] \in Entries /\ Same(E, F, k)
               /\ k \in S => F[k].refs = E[k].refs + 1
               /\ k \notin S => F[k].refs = E[k].refs
    <2>1. E[k] \in Entries /\ E[k].refs \in Int
      BY <1>0 DEF Entries
    <2>2. CASE k \in S
      <3>1. F[k] = [E[k] EXCEPT !.refs = @ + 1]
        BY <1>1, <2>2
      <3> QED
        BY <2>1, <2>2, <3>1 DEF Entries, Same
    <2>3. CASE k \notin S
      <3>1. F[k] = E[k]
        BY <1>1, <2>3
      <3> QED
        BY <2>1, <2>3, <3>1 DEF Same
    <2> QED
      BY <2>2, <2>3
  <1>3. Kept(E, F)
    BY <1>2 DEF Kept
  <1>4. F \in Envs /\ Linked(F) /\ Blank(F)
    BY <1>1, <1>2, <1>3, KeptFacts DEF Envs, Good
  <1>5. Counted(F, Plus(C, S))
    <2>1. SUFFICES ASSUME NEW k \in LiveIn(E) PROVE F[k].refs = Plus(C, S)[k] + Owners(F, k)
      BY <1>3, KeptFacts DEF Counted
    <2>2. k \in Keys /\ k \in Modules /\ E[k].refs = C[k] + Owners(E, k)
      BY <1>0 DEF Good, Counted, LiveIn
    <2>3. PICK o : o = Owners(E, k)
      OBVIOUS
    <2>4. Owners(F, k) = o /\ o \in Nat /\ C[k] \in Nat
      BY <1>3, <2>2, <2>3, KeptFacts, OwnersFacts, PlusFacts
    <2>5. CASE k \in S
      <3>1. Plus(C, S)[k] = C[k] + 1 /\ F[k].refs = (C[k] + o) + 1
        BY <1>2, <2>2, <2>3, <2>5, PlusFacts
      <3> QED
        BY <2>4, <3>1
    <2>6. CASE k \notin S
      <3>1. Plus(C, S)[k] = C[k] /\ F[k].refs = C[k] + o
        BY <1>2, <2>2, <2>3, <2>6, PlusFacts
      <3> QED
        BY <2>4, <3>1
    <2> QED
      BY <2>5, <2>6
  <1> QED
    BY <1>3, <1>4, <1>5 DEF Good
-----------------------------------------------------------------------------
\* One entry is replaced.

Bit(x, S) == IF x \in S THEN 1 ELSE 0

LEMMA BitFacts ==
    ASSUME NEW x, NEW S
    PROVE  Bit(x, S) \in Nat /\ (x \in S => Bit(x, S) = 1) /\ (x \notin S => Bit(x, S) = 0)
  BY DEF Bit

LEMMA BitSame ==
    ASSUME NEW x, NEW S, NEW y, NEW T, x \in S <=> y \in T
    PROVE  Bit(x, S) = Bit(y, T)
  BY DEF Bit

LEMMA ButOne ==
    ASSUME NEW S, NEW T, NEW x, IsFiniteSet(S), IsFiniteSet(T), S \ {x} = T \ {x}
    PROVE  Cardinality(T) + Bit(x, S) = Cardinality(S) + Bit(x, T)
  <1>1. PICK R : R = S \ {x}
    OBVIOUS
  <1>2. IsFiniteSet(R) /\ x \notin R /\ Cardinality(R) \in Nat
    BY <1>1, FS_Subset, FS_CardinalityType
  <1>3. ASSUME NEW V, V \ {x} = R PROVE Cardinality(V) = Cardinality(R) + Bit(x, V)
    <2>1. CASE x \in V
      <3>1. V = R \cup {x}
        BY <1>3, <2>1
      <3>2. Cardinality(V) = Cardinality(R) + 1
        BY <1>2, <3>1, FS_AddElement
      <3> QED
        BY <2>1, <3>2 DEF Bit
    <2>2. CASE x \notin V
      <3>1. V = R
        BY <1>3, <2>2
      <3> QED
        BY <1>2, <2>2, <3>1 DEF Bit
    <2> QED
      BY <2>1, <2>2
  <1>4. Cardinality(S) = Cardinality(R) + Bit(x, S) /\ Cardinality(T) = Cardinality(R) + Bit(x, T)
    BY <1>1, <1>3
  <1>5. PICK a, b, c : a = Bit(x, S) /\ b = Bit(x, T) /\ c = Cardinality(R)
    OBVIOUS
  <1>6. a \in Nat /\ b \in Nat /\ c \in Nat
    BY <1>2, <1>5, BitFacts
  <1> QED
    BY <1>4, <1>5, <1>6

\* A module that does not hold a namespace yet may become e, if D is what is held outside then.
Fits(C, D, E, to, e) ==
    /\ Good(E, C) /\ E[to].st # "live" /\ e \in Entries
    /\ Spaces(e.globals) \subseteq LiveIn(E) /\ Spaces(e.exports) \subseteq LiveIn(E)
    /\ e.st = "unused" => e.globals = {}
    /\ e.st # "live" => e.exports = {}
    /\ to \in Keys /\ e.st = "live" => e.refs = D[to]
    /\ \A k \in LiveIn(E) : D[k] + (Bit(k, Spaces(e.globals)) + Bit(k, Spaces(e.exports)))
                            = C[k] + Bit(k, Spaces(E[to].globals))

Put(E, to, e) == [E EXCEPT ![to] = e]

LEMMA EntrySet ==
    ASSUME LoaderConstants, NEW C \in Held, NEW D \in Held, NEW E, NEW to \in Modules, NEW e,
           Fits(C, D, E, to, e), NEW F, F = Put(E, to, e)
    PROVE  /\ Good(F, D) /\ F[to] = e /\ \A j \in Modules : j # to => F[j] = E[j]
           /\ \A k : k \in LiveIn(F) <=> k \in LiveIn(E) \/ (k = to /\ to \in Keys /\ e.st = "live")
  <1> USE DEF Fits, Put
  <1>0. E \in [Modules -> Entries] /\ Keys \subseteq Modules
    BY ModFacts DEF Good, Envs
  <1>1. F \in Envs /\ F[to] = e /\ \A j \in Modules : j # to => F[j] = E[j]
    BY <1>0 DEF Envs
  <1>2. \A k : k \in LiveIn(F) <=> k \in LiveIn(E) \/ (k = to /\ to \in Keys /\ e.st = "live")
    BY <1>0, <1>1 DEF LiveIn
  <1>3. Linked(F)
    <2>1. ASSUME NEW j \in Modules
          PROVE  Spaces(F[j].globals) \subseteq LiveIn(E) /\ Spaces(F[j].exports) \subseteq LiveIn(E)
      BY <1>1 DEF Good, Linked
    <2>2. LiveIn(E) \subseteq LiveIn(F)
      BY <1>2
    <2> QED
      BY <2>1, <2>2 DEF Linked
  <1>4. Blank(F)
    BY <1>1 DEF Blank, Good
  <1>5. E[to].exports = {} /\ Spaces(E[to].exports) = {}
    BY NoSpaces DEF Good, Blank
  <1>6. \A k : /\ InGlobals(E, k) \ {to} = InGlobals(F, k) \ {to}
               /\ InExports(E, k) \ {to} = InExports(F, k) \ {to}
               /\ to \in InGlobals(F, k) <=> k \in Spaces(e.globals)
               /\ to \in InExports(F, k) <=> k \in Spaces(e.exports)
               /\ to \in InGlobals(E, k) <=> k \in Spaces(E[to].globals)
               /\ to \notin InExports(E, k)
    BY <1>1, <1>5 DEF InGlobals, InExports
  <1>7. ASSUME NEW k
        PROVE  Owners(F, k) + Bit(k, Spaces(E[to].globals))
               = Owners(E, k) + (Bit(k, Spaces(e.globals)) + Bit(k, Spaces(e.exports)))
    <2>1. PICK a, b, c : /\ a = Bit(k, Spaces(E[to].globals))
                         /\ b = Bit(k, Spaces(e.globals)) /\ c = Bit(k, Spaces(e.exports))
      OBVIOUS
    <2>2. a \in Nat /\ b \in Nat /\ c \in Nat
      BY <2>1, BitFacts
    <2>3. PICK p, q, r, s : /\ p = Cardinality(InGlobals(E, k)) /\ q = Cardinality(InExports(E, k))
                            /\ r = Cardinality(InGlobals(F, k)) /\ s = Cardinality(InExports(F, k))
      OBVIOUS
    <2>4. p \in Nat /\ q \in Nat /\ r \in Nat /\ s \in Nat
      BY <2>3, OwnersFacts
    <2>8. /\ Bit(to, InGlobals(E, k)) = a /\ Bit(to, InGlobals(F, k)) = b
          /\ Bit(to, InExports(E, k)) = 0 /\ Bit(to, InExports(F, k)) = c
      <3>1. PICK g, h, m, n : /\ g = InGlobals(E, k) /\ h = InGlobals(F, k)
                              /\ m = InExports(E, k) /\ n = InExports(F, k)
        OBVIOUS
      <3>2. Bit(to, g) = a
        BY <1>6, <2>1, <3>1, BitSame
      <3>3. PICK u, v : u = Spaces(e.globals) /\ v = Spaces(e.exports)
        OBVIOUS
      <3>4. (to \in h <=> k \in u) /\ (to \in n <=> k \in v) /\ b = Bit(k, u) /\ c = Bit(k, v)
        BY <1>6, <2>1, <3>1, <3>3
      <3>5. Bit(to, h) = b
        BY <3>4, BitSame
      <3>6. Bit(to, n) = c
        BY <3>4, BitSame
      <3>7. Bit(to, m) = 0
        BY <1>6, <3>1, BitFacts
      <3> QED
        BY <3>1, <3>2, <3>5, <3>6, <3>7
    <2>5. r + a = p + b
      <3>1. Cardinality(InGlobals(F, k)) + Bit(to, InGlobals(E, k))
            = Cardinality(InGlobals(E, k)) + Bit(to, InGlobals(F, k))
        BY <1>6, OwnersFacts, ButOne
      <3> QED
        BY <2>1, <2>3, <2>8, <3>1
    <2>6. s = q + c
      <3>1. Cardinality(InExports(F, k)) + Bit(to, InExports(E, k))
            = Cardinality(InExports(E, k)) + Bit(to, InExports(F, k))
        BY <1>6, OwnersFacts, ButOne
      <3>2. s + 0 = q + c
        BY <2>3, <2>8, <3>1
      <3> QED
        BY <2>2, <2>4, <3>2
    <2>7. Owners(F, k) = r + s /\ Owners(E, k) = p + q
      BY <2>3 DEF Owners
    <2> QED
      BY <2>1, <2>2, <2>4, <2>5, <2>6, <2>7
  <1>8. Counted(F, D)
    <2>1. SUFFICES ASSUME NEW k \in LiveIn(F) PROVE F[k].refs = D[k] + Owners(F, k)
      BY DEF Counted
    <2>2. k \in Keys /\ k \in Modules /\ C[k] \in Nat /\ D[k] \in Nat
          /\ Owners(F, k) \in Nat /\ Owners(E, k) \in Nat
      BY <1>0, OwnersFacts DEF LiveIn, Held
    <2>3. CASE k \in LiveIn(E)
      <3>1. k # to /\ F[k] = E[k] /\ E[k].refs = C[k] + Owners(E, k)
        BY <1>1, <2>2, <2>3 DEF LiveIn, Good, Counted
      <3>2. PICK a, b, c : /\ a = Bit(k, Spaces(E[to].globals))
                           /\ b = Bit(k, Spaces(e.globals)) /\ c = Bit(k, Spaces(e.exports))
        OBVIOUS
      <3>3. a \in Nat /\ b \in Nat /\ c \in Nat
        BY <3>2, BitFacts
      <3>4. D[k] + (b + c) = C[k] + a
        BY <2>3, <3>2
      <3>5. Owners(F, k) + a = Owners(E, k) + (b + c)
        BY <1>7, <3>2
      <3> QED
        BY <2>2, <3>1, <3>3, <3>4, <3>5
    <2>4. CASE k \notin LiveIn(E)
      <3>1. k = to /\ e.refs = D[k] /\ F[k].refs = D[k]
        BY <1>1, <1>2, <2>1, <2>4 DEF LiveIn
      <3>2. \A j \in Modules : k \notin Spaces(F[j].globals) /\ k \notin Spaces(F[j].exports)
        BY <1>1, <2>4 DEF Good, Linked
      <3>3. InGlobals(F, k) = {} /\ InExports(F, k) = {}
        BY <3>2 DEF InGlobals, InExports
      <3>4. Cardinality(InGlobals(F, k)) = 0 /\ Cardinality(InExports(F, k)) = 0
        BY <3>3, FS_EmptySet
      <3>5. Owners(F, k) = 0
        BY <3>4 DEF Owners
      <3> QED
        BY <2>2, <3>1, <3>5
    <2> QED
      BY <2>3, <2>4
  <1> QED
    BY <1>1, <1>2, <1>3, <1>4, <1>8 DEF Good
-----------------------------------------------------------------------------
\* Storing globals.

\* Of the entries only the globals of `to` and reference counts move.
Moved(E, F, to) == /\ \A j \in Modules : /\ F[j].st = E[j].st /\ F[j].by = E[j].by
                                         /\ F[j].exports = E[j].exports
                   /\ \A j \in Modules : j # to => F[j].globals = E[j].globals

LEMMA MovedLive ==
    ASSUME NEW E, NEW F, NEW to, Moved(E, F, to)
    PROVE  LiveIn(F) = LiveIn(E)
  BY DEF Moved, LiveIn, Modules

LEMMA StoredGood ==
    ASSUME LoaderConstants, NEW C \in Held, NEW E, NEW S \in SUBSET Globals, Good(E, Plus(C, Spaces(S))),
           Spaces(S) \subseteq LiveIn(E), NEW to \in Modules, E[to].st = "running",
           \A k \in LiveIn(E) : C[k] > 0, NEW F, F = Stored(E, to, S)
    PROVE  Good(F, C) /\ Moved(E, F, to) /\ F[to].globals \subseteq E[to].globals \cup S
  <1> DEFINE names == {<<g[1], g[2]>> : g \in S}
             old0  == {g \in E[to].globals : <<g[1], g[2]>> \in names}
  <1>0. E \in [Modules -> Entries] /\ E[to] \in Entries /\ E[to].globals \subseteq Globals
    BY DEF Good, Envs, Entries
  <1>1. PICK old : old = old0
    OBVIOUS
  <1>2. PICK e : e = [E[to] EXCEPT !.globals = (@ \ old) \cup S]
    OBVIOUS
  <1>3. PICK H : H = [E EXCEPT ![to] = e]
    OBVIOUS
  <1>4. old \subseteq E[to].globals
    BY <1>1
  <1>5. /\ e \in Entries /\ e.st = "running" /\ e.by = E[to].by /\ e.exports = E[to].exports
        /\ e.globals = (E[to].globals \ old) \cup S
    BY <1>0, <1>2 DEF Entries
  <1>6. F = Decref(H, Spaces(old))
    BY <1>0, <1>1, <1>2, <1>3 DEF Stored
  <1>7. \A k : <<"ns", k, 0>> \in old <=> <<"ns", k, 0>> \in E[to].globals /\ <<"ns", k, 0>> \in S
    <2>1. ASSUME NEW k, <<"ns", k, 0>> \in E[to].globals, <<"ns", k, 0>> \in S
          PROVE  <<"ns", k, 0>> \in old
      <3>1. PICK g : g = <<"ns", k, 0>>
        OBVIOUS
      <3>2. g \in S /\ g \in E[to].globals
        BY <2>1, <3>1
      <3> QED
        BY <1>1, <3>1, <3>2
    <2>2. ASSUME NEW k, <<"ns", k, 0>> \in old
          PROVE  <<"ns", k, 0>> \in E[to].globals /\ <<"ns", k, 0>> \in S
      <3>1. PICK g : g = <<"ns", k, 0>>
        OBVIOUS
      <3>2. g \in E[to].globals /\ <<g[1], g[2]>> \in names
        BY <1>1, <2>2, <3>1
      <3>3. PICK h \in S : <<g[1], g[2]>> = <<h[1], h[2]>>
        BY <3>2
      <3>4. h[1] = "ns" /\ h[2] = k
        BY <3>1, <3>3
      <3>5. h = <<"ns", k, 0>>
        BY <3>4 DEF Globals
      <3> QED
        BY <3>1, <3>2, <3>5
    <2> QED
      BY <2>1, <2>2
  <1> HIDE DEF names, old0
  <1>8. PICK A, B, O, G : /\ A = Spaces(E[to].globals) /\ B = Spaces(S) /\ O = Spaces(old)
                          /\ G = Spaces(e.globals)
    OBVIOUS
  <1>9. /\ O = A \cap B
        /\ \A k : k \in G <=> (k \in A /\ k \notin O) \/ k \in B
        /\ A \subseteq LiveIn(E) /\ B \subseteq LiveIn(E)
    <2>1. old \in SUBSET Globals /\ e.globals \in SUBSET Globals /\ E[to].globals \in SUBSET Globals
      BY <1>0, <1>4, <1>5
    <2>2. /\ \A k : k \in A <=> <<"ns", k, 0>> \in E[to].globals
          /\ \A k : k \in B <=> <<"ns", k, 0>> \in S
          /\ \A k : k \in O <=> <<"ns", k, 0>> \in old
          /\ \A k : k \in G <=> <<"ns", k, 0>> \in e.globals
      BY <1>8, <2>1, SpaceFacts
    <2>3. A \subseteq LiveIn(E)
      BY <1>8 DEF Good, Linked
    <2>4. O = A \cap B
      BY <1>7, <2>2
    <2>5. \A k : k \in G <=> (k \in A /\ k \notin O) \/ k \in B
      BY <1>5, <2>2
    <2> QED
      BY <1>8, <2>3, <2>4, <2>5
  <1>10. /\ Good(H, Plus(C, O)) /\ H[to] = e /\ \A j \in Modules : j # to => H[j] = E[j]
         /\ LiveIn(H) = LiveIn(E)
    <2>1. Plus(C, B) \in Held /\ Plus(C, O) \in Held
      BY PlusFacts
    <2>2. Spaces(e.exports) = {} /\ e.exports = {}
      BY <1>5, NoSpaces DEF Good, Blank
    <2>3. G \subseteq LiveIn(E)
      BY <1>9
    <2>4. ASSUME NEW k \in LiveIn(E)
          PROVE  Plus(C, O)[k] + (Bit(k, G) + Bit(k, {})) = Plus(C, B)[k] + Bit(k, A)
      <3>1. k \in Keys /\ C[k] \in Nat /\ Bit(k, {}) = 0
        BY BitFacts DEF LiveIn, Held
      <3>2. CASE k \in A /\ k \in B
        <4>1. k \in O /\ k \in G
          BY <1>9, <3>2
        <4>2. Plus(C, O)[k] = C[k] + 1 /\ Plus(C, B)[k] = C[k] + 1 /\ Bit(k, G) = 1 /\ Bit(k, A) = 1
          BY <3>1, <3>2, <4>1, PlusFacts, BitFacts
        <4> QED
          BY <3>1, <4>2
      <3>3. CASE k \notin A /\ k \in B
        <4>1. k \notin O /\ k \in G
          BY <1>9, <3>3
        <4>2. Plus(C, O)[k] = C[k] /\ Plus(C, B)[k] = C[k] + 1 /\ Bit(k, G) = 1 /\ Bit(k, A) = 0
          BY <3>1, <3>3, <4>1, PlusFacts, BitFacts
        <4> QED
          BY <3>1, <4>2
      <3>4. CASE k \in A /\ k \notin B
        <4>1. k \notin O /\ k \in G
          BY <1>9, <3>4
        <4>2. Plus(C, O)[k] = C[k] /\ Plus(C, B)[k] = C[k] /\ Bit(k, G) = 1 /\ Bit(k, A) = 1
          BY <3>1, <3>4, <4>1, PlusFacts, BitFacts
        <4> QED
          BY <3>1, <4>2
      <3>5. CASE k \notin A /\ k \notin B
        <4>1. k \notin O /\ k \notin G
          BY <1>9, <3>5
        <4>2. Plus(C, O)[k] = C[k] /\ Plus(C, B)[k] = C[k] /\ Bit(k, G) = 0 /\ Bit(k, A) = 0
          BY <3>1, <3>5, <4>1, PlusFacts, BitFacts
        <4> QED
          BY <3>1, <4>2
      <3> QED
        BY <3>2, <3>3, <3>4, <3>5
    <2>5. /\ Good(H, Plus(C, O)) /\ H[to] = e /\ \A j \in Modules : j # to => H[j] = E[j]
          /\ \A k : k \in LiveIn(H) <=> k \in LiveIn(E) \/ (k = to /\ to \in Keys /\ e.st = "live")
      <3>1. Fits(Plus(C, B), Plus(C, O), E, to, e)
        <4>1. /\ Spaces(e.globals) \subseteq LiveIn(E) /\ Spaces(e.exports) \subseteq LiveIn(E)
              /\ e.st # "unused" /\ e.st # "live" /\ E[to].st # "live"
          BY <1>5, <1>8, <2>2, <2>3
        <4>2. \A k \in LiveIn(E) :
                  Plus(C, O)[k] + (Bit(k, Spaces(e.globals)) + Bit(k, Spaces(e.exports)))
                  = Plus(C, B)[k] + Bit(k, Spaces(E[to].globals))
          BY <1>8, <2>2, <2>4
        <4> QED
          BY <1>5, <1>8, <2>2, <4>1, <4>2 DEF Fits
      <3>2. H = Put(E, to, e)
        BY <1>3 DEF Put
      <3> QED
        BY <2>1, <3>1, <3>2, EntrySet
    <2>6. LiveIn(H) = LiveIn(E)
      BY <1>5, <2>5
    <2> QED
      BY <2>5, <2>6
  <1>11. Good(F, C) /\ Kept(H, F)
    <2>1. O \in SUBSET LiveIn(H)
      BY <1>9, <1>10
    <2> QED
      BY <1>6, <1>8, <1>10, <2>1, DecrefKeeps
  <1>12. Moved(E, F, to) /\ F[to].globals = e.globals
    <2>1. \A j \in Modules : /\ F[j].st = H[j].st /\ F[j].by = H[j].by
                             /\ F[j].globals = H[j].globals /\ F[j].exports = H[j].exports
      BY <1>11, KeptFacts
    <2> QED
      BY <1>5, <1>10, <2>1 DEF Moved
  <1> QED
    BY <1>5, <1>11, <1>12

LEMMA ModeFacts ==
    ASSUME NEW X, NEW mode \in Modes(X)
    PROVE  /\ mode.form \in {"whole", "missing", "names"} /\ mode.names \subseteq X
  BY DEF Modes

LEMMA SpacesOfFewer ==
    ASSUME NEW S, NEW T, S \subseteq T
    PROVE  Spaces(S) \subseteq Spaces(T)
  BY DEF Spaces

\* apply_import_mode consumes the reference it is given.
LEMMA AppliedGood ==
    ASSUME LoaderConstants, NEW C \in Held, NEW E, NEW k \in LiveIn(E), Good(E, Plus(C, {k})),
           \A x \in LiveIn(E) : C[x] > 0, NEW to \in Modules, E[to].st = "running",
           NEW X \in SUBSET Globals, Spaces(X) \subseteq LiveIn(E), NEW mode \in Modes(X),
           NEW F, F = Applied(E, to, k, mode)
    PROVE  /\ Good(F, C) /\ Moved(E, F, to)
           /\ F[to].globals \subseteq E[to].globals \cup X \cup {<<"ns", k, 0>>}
  <1>0. k \in Keys
    BY DEF LiveIn
  <1>1. CASE mode.form = "whole"
    <2>1. F = Stored(E, to, {<<"ns", k, 0>>})
      BY <1>1 DEF Applied
    <2>2. {<<"ns", k, 0>>} \in SUBSET Globals
      BY <1>0 DEF Globals
    <2>4. PICK S : S = {<<"ns", k, 0>>}
      OBVIOUS
    <2>3. Spaces(S) = {k}
      <3>1. \A x : <<"ns", x, 0>> \in S <=> x = k
        BY <2>4
      <3> QED
        BY <2>2, <2>4, <3>1, SpaceFacts
    <2>5. Good(F, C) /\ Moved(E, F, to) /\ F[to].globals \subseteq E[to].globals \cup S
      <3>1. S \in SUBSET Globals /\ Good(E, Plus(C, Spaces(S))) /\ Spaces(S) \subseteq LiveIn(E)
        BY <2>2, <2>3, <2>4
      <3> QED
        BY <2>1, <2>4, <3>1, StoredGood
    <2> QED
      BY <2>4, <2>5
  <1>2. CASE mode.form = "missing"
    <2>1. F = Decref(E, {k})
      BY <1>2 DEF Applied
    <2>2. {k} \in SUBSET LiveIn(E)
      OBVIOUS
    <2>3. Good(F, C) /\ Kept(E, F)
      BY <2>1, <2>2, DecrefKeeps
    <2>4. Moved(E, F, to) /\ F[to].globals = E[to].globals
      BY <2>3, KeptFacts DEF Moved
    <2> QED
      BY <2>3, <2>4
  <1>3. CASE mode.form = "names"
    <2>1. PICK S : S = mode.names
      OBVIOUS
    <2>2. S \in SUBSET X /\ S \in SUBSET Globals /\ Spaces(S) \subseteq LiveIn(E)
      BY <2>1, ModeFacts, SpacesOfFewer
    <2>3. PICK G, H : G = Incref(E, Spaces(S)) /\ H = Decref(G, {k})
      OBVIOUS
    <2>4. F = Stored(H, to, S)
      BY <1>3, <2>1, <2>3 DEF Applied
    <2>5. Plus(C, {k}) \in Held /\ Plus(C, Spaces(S)) \in Held
      BY PlusFacts
    <2>6. Good(G, Plus(Plus(C, {k}), Spaces(S))) /\ Kept(E, G)
      BY <2>2, <2>3, <2>5, IncrefGood
    <2>7. Good(G, Plus(Plus(C, Spaces(S)), {k})) /\ LiveIn(G) = LiveIn(E)
      BY <2>6, PlusCommutes, KeptFacts
    <2>8. \A x \in LiveIn(G) : Plus(C, Spaces(S))[x] > 0
      BY <2>7, PlusFacts DEF LiveIn
    <2>9. Good(H, Plus(C, Spaces(S))) /\ Kept(G, H)
      <3>1. {k} \in SUBSET LiveIn(G)
        BY <2>7
      <3> QED
        BY <2>3, <2>5, <2>7, <2>8, <3>1, DecrefKeeps
    <2>10. /\ LiveIn(H) = LiveIn(E)
           /\ \A j \in Modules : /\ H[j].st = E[j].st /\ H[j].by = E[j].by
                                 /\ H[j].globals = E[j].globals /\ H[j].exports = E[j].exports
      BY <2>6, <2>9, KeptFacts
    <2>11. Good(F, C) /\ Moved(H, F, to) /\ F[to].globals \subseteq H[to].globals \cup S
      BY <2>2, <2>4, <2>9, <2>10, StoredGood
    <2>12. Moved(E, F, to)
      BY <2>10, <2>11 DEF Moved
    <2> QED
      BY <2>2, <2>10, <2>11, <2>12
  <1> QED
    BY <1>1, <1>2, <1>3, ModeFacts
-----------------------------------------------------------------------------
\* The environment of a step: K the cache, R the modules that run, C the references
\* from outside.

\* Namespaces do not refer to each other in a circle: any set of them has one that none
\* of the set refers to.
Acyclic(E) == \A D \in SUBSET LiveIn(E) :
                  D # {} => \E k \in D : \A j \in D : /\ k \notin Spaces(E[j].globals)
                                                      /\ k \notin Spaces(E[j].exports)

\* What a module refers to is its own or that of a module in the cache.
Reaches(E, K) == \A j \in Modules : \A g \in E[j].globals \cup E[j].exports : g[2] = j \/ g[2] \in K

EnvGood(E, K, R, C) == /\ Good(E, C) /\ Acyclic(E) /\ Reaches(E, K)
                       /\ LiveIn(E) = K
                       /\ \A j \in Modules : E[j].st = "running" <=> j \in R

None   == [k \in Keys |-> 0]
EnvInv == EnvGood(env, cache, Running \cup {User}, Plus(None, cache))

LEMMA CacheHolds ==
    ASSUME NEW K
    PROVE  /\ None \in Held /\ Plus(None, K) \in Held
           /\ \A k \in Keys : None[k] = 0 /\ (k \in K => Plus(None, K)[k] = 1) /\ (k \notin K => Plus(None, K)[k] = 0)
           /\ Plus(None, {}) = None
  BY DEF None, Plus, Held

LEMMA KeptEnv ==
    ASSUME NEW E, NEW F, NEW K, NEW R, NEW C, NEW D, EnvGood(E, K, R, C), Kept(E, F), Good(F, D)
    PROVE  EnvGood(F, K, R, D)
  <1>1. /\ LiveIn(F) = LiveIn(E)
        /\ \A j \in Modules : /\ F[j].st = E[j].st
                              /\ F[j].globals = E[j].globals /\ F[j].exports = E[j].exports
    BY KeptFacts
  <1>2. Keys \subseteq Modules
    BY DEF Modules
  <1>3. Acyclic(F)
    <2>1. \A j \in LiveIn(E) : F[j].globals = E[j].globals /\ F[j].exports = E[j].exports
      BY <1>1, <1>2 DEF LiveIn
    <2> QED
      BY <1>1, <2>1 DEF Acyclic, EnvGood
  <1>4. Reaches(F, K)
    BY <1>1 DEF Reaches, EnvGood
  <1> QED
    BY <1>1, <1>3, <1>4 DEF EnvGood

LEMMA AppliedEnv ==
    ASSUME LoaderConstants, NEW K \in SUBSET Keys, NEW R, NEW k \in K, NEW E,
           EnvGood(E, K, R, Plus(Plus(None, K), {k})), NEW to \in Modules, to \in R,
           NEW X \in SUBSET Globals, Spaces(X) \subseteq K, \A g \in X : g[2] \in K,
           NEW mode \in Modes(X), NEW F, F = Applied(E, to, k, mode)
    PROVE  EnvGood(F, K, R, Plus(None, K))
  <1>1. PICK C : C = Plus(None, K)
    OBVIOUS
  <1>2. C \in Held /\ LiveIn(E) = K /\ \A x \in LiveIn(E) : C[x] > 0
    BY <1>1, CacheHolds DEF EnvGood
  <1>3. /\ Good(F, C) /\ Moved(E, F, to)
        /\ F[to].globals \subseteq E[to].globals \cup X \cup {<<"ns", k, 0>>}
    <2>1. Good(E, Plus(C, {k})) /\ E[to].st = "running"
      BY <1>1 DEF EnvGood
    <2> QED
      BY <1>2, <2>1, AppliedGood
  <1>4. LiveIn(F) = K /\ \A j \in Modules : F[j].st = E[j].st /\ F[j].exports = E[j].exports
    BY <1>2, <1>3, MovedLive DEF Moved
  <1>5. to \notin LiveIn(E)
    BY DEF LiveIn, EnvGood
  <1>6. Keys \subseteq Modules
    BY ModFacts
  <1>7. Acyclic(F)
    <2>1. \A j \in LiveIn(E) : F[j].globals = E[j].globals /\ F[j].exports = E[j].exports
      BY <1>3, <1>4, <1>5, <1>6 DEF LiveIn, Moved
    <2> QED
      BY <1>2, <1>4, <2>1 DEF Acyclic, EnvGood
  <1>8. Reaches(F, K)
    <2>1. ASSUME NEW j \in Modules, NEW g \in F[j].globals \cup F[j].exports
          PROVE  g[2] = j \/ g[2] \in K
      <3>1. CASE g \in E[j].globals \cup E[j].exports
        BY <3>1 DEF EnvGood, Reaches
      <3>2. CASE g \notin E[j].globals \cup E[j].exports
        <4>1. j = to /\ g \in F[to].globals
          BY <1>3, <1>4, <2>1, <3>2 DEF Moved
        <4>2. g \in X \/ g = <<"ns", k, 0>>
          BY <1>3, <3>2, <4>1
        <4>3. <<"ns", k, 0>>[2] = k
          OBVIOUS
        <4> QED
          BY <4>2, <4>3
      <3> QED
        BY <3>1, <3>2
    <2> QED
      BY <2>1 DEF Reaches
  <1> QED
    BY <1>1, <1>3, <1>4, <1>7, <1>8 DEF EnvGood

LEMMA PutEnv ==
    ASSUME LoaderConstants, NEW K, NEW R, NEW C \in Held, NEW E, EnvGood(E, K, R, C),
           NEW to \in Modules, NEW e, NEW D \in Held, Fits(C, D, E, to, e),
           NEW L, \A x : x \in L <=> x \in K \/ (x = to /\ to \in Keys /\ e.st = "live"),
           NEW Q, \A j \in Modules : j # to => (j \in Q <=> j \in R), e.st = "running" <=> to \in Q,
           \A g \in e.globals \cup e.exports : g[2] = to \/ g[2] \in L,
           NEW F, F = Put(E, to, e)
    PROVE  EnvGood(F, L, Q, D)
  <1>1. /\ Good(F, D) /\ F[to] = e /\ \A j \in Modules : j # to => F[j] = E[j]
        /\ \A k : k \in LiveIn(F) <=> k \in LiveIn(E) \/ (k = to /\ to \in Keys /\ e.st = "live")
    BY EntrySet
  <1>2. LiveIn(F) = L /\ LiveIn(E) = K
    BY <1>1 DEF EnvGood
  <1>3. \A j \in Modules : F[j].st = "running" <=> j \in Q
    BY <1>1 DEF EnvGood
  <1>4. Reaches(F, L)
    <2>1. ASSUME NEW j \in Modules, NEW g \in F[j].globals \cup F[j].exports
          PROVE  g[2] = j \/ g[2] \in L
      <3>1. CASE j = to
        BY <1>1, <2>1, <3>1
      <3>2. CASE j # to
        <4>1. g[2] = j \/ g[2] \in K
          BY <1>1, <2>1, <3>2 DEF EnvGood, Reaches
        <4> QED
          BY <4>1
      <3> QED
        BY <3>1, <3>2
    <2> QED
      BY <2>1 DEF Reaches
  <1>5. Acyclic(F)
    <2>1. SUFFICES ASSUME NEW S \in SUBSET LiveIn(F), S # {}
                   PROVE  \E k \in S : \A j \in S : /\ k \notin Spaces(F[j].globals)
                                                    /\ k \notin Spaces(F[j].exports)
      BY DEF Acyclic
    <2>2. \A j \in S : j \in Modules
      BY <2>1, ModFacts DEF LiveIn
    <2>3. CASE to \in S
      <3>1. \A j \in Modules : Spaces(F[j].globals) \subseteq LiveIn(E) /\ Spaces(F[j].exports) \subseteq LiveIn(E)
        BY <1>1 DEF Fits, Good, Linked
      <3>2. to \notin LiveIn(E)
        BY DEF Fits, LiveIn
      <3> QED
        BY <2>2, <2>3, <3>1, <3>2
    <2>4. CASE to \notin S
      <3>1. S \in SUBSET LiveIn(E)
        BY <1>1, <2>1, <2>4
      <3>2. PICK k \in S : \A j \in S : k \notin Spaces(E[j].globals) /\ k \notin Spaces(E[j].exports)
        BY <2>1, <3>1 DEF EnvGood, Acyclic
      <3>3. \A j \in S : F[j] = E[j]
        BY <1>1, <2>2, <2>4
      <3> QED
        BY <3>2, <3>3
    <2> QED
      BY <2>3, <2>4
  <1> QED
    BY <1>1, <1>2, <1>3, <1>4, <1>5 DEF EnvGood
-----------------------------------------------------------------------------
\* The steps.

IInv == MarkInv /\ EnvInv

\* What the invariant says of the state a handler starts in.
LEMMA StartFacts ==
    ASSUME LoaderConstants, IInv
    PROVE  /\ cache \in SUBSET Keys /\ LiveIn(env) = cache /\ env \in [Modules -> Entries]
           /\ Cur.key \in Modules /\ Cur.key \in Running \cup {User}
           /\ Depth > 1 => Cur.key \in Mods /\ Cur.key \in Running /\ Caller.key \in Modules
                           /\ Caller.key \in (Running \ {Cur.key}) \cup {User}
           /\ Depth = 1 => Running = {}
           /\ Running \subseteq Mods /\ marks = Running /\ Depth \in Nat
           /\ \A k \in Modules : k \notin cache /\ k \notin Running /\ k # User
                                 => env[k].st = "unused" /\ env[k].globals = {} /\ env[k].exports = {}
           /\ \A j \in Modules : /\ env[j].globals \in SUBSET Globals /\ env[j].exports \in SUBSET Globals
                                 /\ Spaces(env[j].globals) \subseteq cache /\ Spaces(env[j].exports) \subseteq cache
  <1>1. /\ Depth \in Nat \ {0} /\ Depth \in 1 .. Depth /\ Cur = vms[Depth] /\ Cur \in VMs
        /\ Depth > 1 => Caller = vms[Depth - 1] /\ Caller \in VMs /\ Depth - 1 \in 1 .. Depth
                        /\ Depth \in 2 .. Depth /\ Depth - 1 # Depth
    BY DepthFacts DEF IInv, MarkInv
  <1>2. /\ vms[1].key = User /\ \A d \in 2 .. Depth : vms[d].key \in Mods
        /\ \A c, d \in 2 .. Depth : vms[c].key = vms[d].key => c = d
    BY DEF IInv, MarkInv, Nested
  <1>3. Running \subseteq Mods /\ marks = Running /\ cache \in SUBSET Keys
    BY <1>2 DEF Running, IInv, MarkInv
  <1>4. \A d \in 1 .. Depth : d = 1 \/ d \in 2 .. Depth
    BY <1>1
  <1>5. Cur.key \in Modules /\ Cur.key \in Running \cup {User}
    BY <1>1, <1>2, <1>4, ModFacts DEF Running
  <1>6. Depth > 1 => Cur.key \in Mods /\ Cur.key \in Running /\ Caller.key \in Modules
                     /\ Caller.key \in (Running \ {Cur.key}) \cup {User}
    BY <1>1, <1>2, <1>4, ModFacts DEF Running
  <1>7. Depth = 1 => Running = {}
    <2>1. 2 .. 1 = {}
      OBVIOUS
    <2> QED
      BY <2>1 DEF Running
  <1>8. /\ LiveIn(env) = cache /\ env \in [Modules -> Entries]
        /\ \A j \in Modules : env[j].st = "running" <=> j \in Running \cup {User}
    BY DEF IInv, EnvInv, EnvGood, Good, Envs
  <1>9. ASSUME NEW k \in Modules, k \notin cache, k \notin Running, k # User
        PROVE  env[k].st = "unused" /\ env[k].globals = {} /\ env[k].exports = {}
    <2>1. env[k].st # "running" /\ env[k].st # "live" /\ env[k].st \in {"unused", "running", "live"}
      BY <1>8, <1>9 DEF LiveIn, Entries, Modules
    <2>2. env[k].st = "unused" /\ env[k].globals = {}
      BY <2>1 DEF IInv, EnvInv, EnvGood, Good, Blank
    <2> QED
      BY <2>2 DEF IInv, EnvInv, EnvGood, Good, Blank
  <1>10. ASSUME NEW j \in Modules
         PROVE  /\ env[j].globals \in SUBSET Globals /\ env[j].exports \in SUBSET Globals
                /\ Spaces(env[j].globals) \subseteq cache /\ Spaces(env[j].exports) \subseteq cache
    BY <1>8 DEF Entries, IInv, EnvInv, EnvGood, Good, Linked
  <1> QED
    BY <1>1, <1>3, <1>5, <1>6, <1>7, <1>8, <1>9, <1>10

LEMMA CacheHitEnv ==
    ASSUME LoaderConstants, IInv, NEW k \in Keys, CacheHit(k), vms' = vms
    PROVE  EnvInv'
  <1>1. PICK mode \in Modes(env[k].exports) : env' = Applied(Incref(env, {k}), Cur.key, k, mode)
    BY DEF CacheHit
  <1>2. k \in cache /\ cache' = cache /\ Running' = Running /\ k \in Modules
    BY ModFacts DEF CacheHit, Running, Depth
  <1>3. PICK E, X, R, C : /\ E = Incref(env, {k}) /\ X = env[k].exports /\ R = Running \cup {User}
                          /\ C = Plus(None, cache)
    OBVIOUS
  <1>4. EnvGood(env, cache, R, C) /\ Good(env, C) /\ C \in Held /\ {k} \in SUBSET LiveIn(env)
    BY <1>2, <1>3, StartFacts, CacheHolds DEF IInv, EnvInv, EnvGood
  <1>5. Good(E, Plus(C, {k})) /\ Kept(env, E)
    BY <1>3, <1>4, IncrefGood
  <1>6. EnvGood(E, cache, R, Plus(C, {k}))
    BY <1>4, <1>5, KeptEnv
  <1>7. /\ X \in SUBSET Globals /\ Spaces(X) \subseteq cache /\ \A g \in X : g[2] \in cache
        /\ Cur.key \in Modules /\ Cur.key \in R /\ cache \in SUBSET Keys
    BY <1>2, <1>3, <1>4, StartFacts DEF EnvGood, Reaches
  <1>8. EnvGood(env', cache, R, Plus(None, cache))
    <2>1. mode \in Modes(X) /\ env' = Applied(E, Cur.key, k, mode)
      BY <1>1, <1>3
    <2>2. EnvGood(E, cache, R, Plus(Plus(None, cache), {k}))
      BY <1>3, <1>6
    <2> QED
      BY <1>2, <1>7, <2>1, <2>2, AppliedEnv
  <1> QED
    BY <1>2, <1>3, <1>8 DEF EnvInv

LEMMA LoadPluginEnv ==
    ASSUME LoaderConstants, IInv, NEW k \in Keys, LoadPlugin(k), Running' = Running
    PROVE  EnvInv'
  <1>1. k \in Plugins /\ k \notin cache /\ cache' = cache \cup {k} /\ k \in Modules
    BY ModFacts DEF LoadPlugin
  <1>2. PICK e : e = [Unused EXCEPT !.st = "live", !.refs = OwnersAtBirth, !.by = Depth]
    OBVIOUS
  <1>3. PICK E : E = [env EXCEPT ![k] = e]
    OBVIOUS
  <1>4. PICK mode \in Modes({}) : env' = Applied(E, Cur.key, k, mode)
    BY <1>2, <1>3 DEF LoadPlugin
  <1>5. PICK K, L, R, C, D : /\ K = cache /\ L = cache \cup {k} /\ R = Running \cup {User}
                             /\ C = Plus(None, K) /\ D = Plus(Plus(None, L), {k})
    OBVIOUS
  <1>6. EnvGood(env, K, R, C) /\ C \in Held /\ D \in Held
    <2>1. Plus(None, K) \in Held /\ Plus(None, L) \in Held
      BY CacheHolds
    <2> QED
      BY <1>5, <2>1, PlusFacts DEF IInv, EnvInv
  <1>7. k \notin Running /\ k # User /\ Depth \in Nat /\ env[k].globals = {} /\ env[k].st = "unused"
        /\ LiveIn(env) = cache /\ cache \in SUBSET Keys
    <2>1. k \notin Running /\ k # User
      BY <1>1, StartFacts, ModFacts DEF LoaderConstants
    <2> QED
      BY <1>1, <2>1, StartFacts
  <1>8. e \in Entries /\ e.st = "live" /\ e.refs = 2 /\ e.globals = {} /\ e.exports = {}
    <2>1. e = [st |-> "live", refs |-> 2, globals |-> {}, exports |-> {}, by |-> Depth]
      BY <1>2 DEF Unused, OwnersAtBirth
    <2> QED
      BY <1>7, <2>1 DEF Entries
  <1>9. Fits(C, D, env, k, e)
    <2>1. Good(env, C)
      BY <1>6 DEF EnvGood
    <2>2. D[k] = 2
      BY <1>5, CacheHolds, PlusFacts
    <2>3. ASSUME NEW x \in LiveIn(env)
          PROVE  D[x] + (Bit(x, {}) + Bit(x, {})) = C[x] + Bit(x, {})
      <3>1. x \in K /\ x \in L /\ x # k /\ x \in Keys
        BY <1>1, <1>5, <1>7
      <3>2. C[x] = 1 /\ D[x] = 1
        BY <1>5, <3>1, CacheHolds, PlusFacts
      <3>3. Bit(x, {}) = 0
        BY BitFacts
      <3> QED
        BY <3>2, <3>3
    <2> QED
      BY <1>7, <1>8, <2>1, <2>2, <2>3, NoSpaces DEF Fits
  <1>10. EnvGood(E, L, R, D)
    <2>1. E = Put(env, k, e)
      BY <1>3 DEF Put
    <2>2. \A x : x \in L <=> x \in K \/ (x = k /\ k \in Keys /\ e.st = "live")
      BY <1>5, <1>8
    <2>3. \A j \in Modules : j # k => (j \in R <=> j \in R)
      OBVIOUS
    <2>4. e.st = "running" <=> k \in R
      BY <1>5, <1>7, <1>8
    <2>5. \A g \in e.globals \cup e.exports : g[2] = k \/ g[2] \in L
      BY <1>8
    <2> QED
      BY <1>1, <1>6, <1>9, <2>1, <2>2, <2>3, <2>4, <2>5, PutEnv
  <1>11. EnvGood(env', L, R, Plus(None, L))
    <2>1. {} \in SUBSET Globals /\ Spaces({}) \subseteq L /\ \A g \in {} : g[2] \in L
      BY NoSpaces
    <2>2. L \in SUBSET Keys /\ k \in L /\ Cur.key \in Modules /\ Cur.key \in R
      BY <1>5, <1>7, StartFacts
    <2>3. EnvGood(E, L, R, Plus(Plus(None, L), {k}))
      BY <1>5, <1>10
    <2> QED
      BY <1>4, <2>1, <2>2, <2>3, AppliedEnv
  <1> QED
    BY <1>1, <1>5, <1>11 DEF EnvInv

LEMMA EnterEnv ==
    ASSUME LoaderConstants, IInv, NEW k \in Keys, Enter(k), Running' = Running \cup {k}
    PROVE  EnvInv'
  <1>1. k \in Mods /\ k \notin cache /\ k \notin marks /\ cache' = cache /\ k \in Modules
    BY ModFacts DEF Enter
  <1>2. PICK e : e = [Unused EXCEPT !.st = "running", !.globals = {<<"fn", k, 1>>}, !.by = Depth]
    OBVIOUS
  <1>3. env' = Put(env, k, e)
    BY <1>2 DEF Enter, Put
  <1>4. PICK K, R, Q, C : K = cache /\ R = Running \cup {User} /\ Q = R \cup {k} /\ C = Plus(None, cache)
    OBVIOUS
  <1>5. EnvGood(env, K, R, C) /\ C \in Held /\ Good(env, C)
    BY <1>4, CacheHolds DEF IInv, EnvInv, EnvGood
  <1>6. k # User /\ k \notin Running /\ env[k].st = "unused" /\ env[k].globals = {} /\ Depth \in Nat
    <2>1. k \notin Running /\ k # User
      BY <1>1, StartFacts, ModFacts
    <2> QED
      BY <1>1, <2>1, StartFacts
  <1>7. /\ e \in Entries /\ e.st = "running" /\ e.globals = {<<"fn", k, 1>>} /\ e.exports = {}
    <2>1. e = [st |-> "running", refs |-> 0, globals |-> {<<"fn", k, 1>>}, exports |-> {}, by |-> Depth]
      BY <1>2 DEF Unused
    <2>2. <<"fn", k, 1>> \in Globals
      BY <1>1 DEF Globals
    <2> QED
      BY <1>6, <2>1, <2>2 DEF Entries
  <1>8. Spaces(e.globals) = {} /\ Spaces(e.exports) = {}
    <2>1. ASSUME NEW g \in e.globals PROVE g[1] # "ns"
      BY <1>7
    <2>2. Spaces(e.globals) = {}
      BY <2>1 DEF Spaces
    <2> QED
      BY <1>7, <2>2, NoSpaces
  <1>9. Fits(C, C, env, k, e)
    <2>1. ASSUME NEW x \in LiveIn(env) PROVE C[x] + (Bit(x, {}) + Bit(x, {})) = C[x] + Bit(x, {})
      <3>1. C[x] \in Nat /\ Bit(x, {}) = 0
        BY <1>5, BitFacts DEF Held, LiveIn
      <3> QED
        BY <3>1
    <2> QED
      BY <1>5, <1>6, <1>7, <1>8, <2>1, NoSpaces DEF Fits
  <1>10. EnvGood(env', K, Q, C)
    <2>1. \A x : x \in K <=> x \in K \/ (x = k /\ k \in Keys /\ e.st = "live")
      BY <1>7
    <2>2. \A j \in Modules : j # k => (j \in Q <=> j \in R)
      BY <1>4
    <2>3. e.st = "running" <=> k \in Q
      BY <1>4, <1>7
    <2>4. \A g \in e.globals \cup e.exports : g[2] = k \/ g[2] \in K
      BY <1>7
    <2> QED
      BY <1>1, <1>3, <1>5, <1>9, <2>1, <2>2, <2>3, <2>4, PutEnv
  <1>11. Q = Running' \cup {User}
    BY <1>4
  <1> QED
    BY <1>1, <1>4, <1>10, <1>11 DEF EnvInv

\* The remap keeps whose a global is.
LEMMA RemapFacts ==
    ASSUME LoaderConstants, NEW S \in SUBSET Globals, NEW table, NEW base \in Nat
    PROVE  /\ Remapped(S, table, base) \in SUBSET Globals
           /\ Spaces(Remapped(S, table, base)) = Spaces(S)
           /\ \A g \in Remapped(S, table, base) : \E h \in S : g[2] = h[2]
  <1> DEFINE moved(g) == IF g[1] = "fn" /\ Resolves(g, table) THEN <<"fn", g[2], g[3] + base>> ELSE g
  <1>1. Remapped(S, table, base) = {moved(g) : g \in S}
    BY DEF Remapped
  <1>2. ASSUME NEW g \in S
        PROVE  moved(g) \in Globals /\ moved(g)[2] = g[2] /\ (g[1] = "ns" => moved(g) = g)
               /\ (moved(g)[1] = "ns" => moved(g) = g)
    <2>1. CASE g[1] = "fn" /\ Resolves(g, table)
      <3>1. moved(g) = <<"fn", g[2], g[3] + base>>
        BY <2>1
      <3>2. g[2] \in Mods /\ g[3] \in Nat
        BY <2>1 DEF Globals
      <3>3. g[3] + base \in Nat
        BY <3>2
      <3>4. <<"fn", g[2], g[3] + base>> \in Globals
        BY <3>2, <3>3 DEF Globals
      <3> QED
        BY <2>1, <3>1, <3>4
    <2>2. CASE ~(g[1] = "fn" /\ Resolves(g, table))
      <3>1. moved(g) = g
        BY <2>2
      <3> QED
        BY <3>1
    <2> QED
      BY <2>1, <2>2
  <1> HIDE DEF moved
  <1>3. PICK G : G = Remapped(S, table, base)
    OBVIOUS
  <1>4. G \in SUBSET Globals /\ \A g \in G : \E h \in S : g[2] = h[2]
    BY <1>1, <1>2, <1>3
  <1>5. \A k : <<"ns", k, 0>> \in G <=> <<"ns", k, 0>> \in S
    <2>1. ASSUME NEW k, <<"ns", k, 0>> \in G PROVE <<"ns", k, 0>> \in S
      <3>1. PICK g \in S : <<"ns", k, 0>> = moved(g)
        BY <1>1, <1>3, <2>1
      <3>2. moved(g)[1] = "ns"
        BY <3>1
      <3> QED
        BY <1>2, <3>1, <3>2
    <2>2. ASSUME NEW k, <<"ns", k, 0>> \in S PROVE <<"ns", k, 0>> \in G
      <3>1. PICK g \in S : g = <<"ns", k, 0>>
        BY <2>2
      <3>2. moved(g) = g
        BY <1>2, <3>1
      <3> QED
        BY <1>1, <1>3, <3>1, <3>2
    <2> QED
      BY <2>1, <2>2
  <1>6. Spaces(G) = Spaces(S)
    <2>1. \A k : k \in Spaces(G) <=> <<"ns", k, 0>> \in G
      BY <1>4, SpaceFacts
    <2>2. \A k : k \in Spaces(S) <=> <<"ns", k, 0>> \in S
      BY SpaceFacts
    <2>3. \A k : k \in Spaces(G) <=> k \in Spaces(S)
      BY <1>5, <2>1, <2>2
    <2> QED
      BY <2>3
  <1> QED
    BY <1>3, <1>4, <1>6

LEMMA FinishEnv ==
    ASSUME LoaderConstants, IInv, Finish, Running' = Running \ {Cur.key}
    PROVE  EnvInv'
  <1>0. Depth > 1 /\ Len(Transplanted) <= MaxTable
    BY DEF Finish, HasCaller
  <1>1. PICK k, to, n : k = Cur.key /\ to = Caller.key /\ n = Len(Caller.table)
    OBVIOUS
  <1>2. /\ k \in Mods /\ k \in Modules /\ k \in Keys /\ k \in Running /\ k \notin cache /\ k # User
        /\ to \in Modules /\ to \in (Running \ {k}) \cup {User} /\ n \in Nat
    <2>1. Caller \in VMs
      BY <1>0, DepthFacts DEF IInv, MarkInv
    <2>2. n \in Nat
      BY <1>1, <2>1 DEF VMs
    <2>3. k \in Running /\ k \notin cache
      BY <1>0, <1>1, StartFacts DEF IInv, MarkInv
    <2> QED
      BY <1>0, <1>1, <2>2, <2>3, StartFacts, ModFacts
  <1>3. PICK globals : globals = Remapped(env[k].globals, Cur.table, n)
    OBVIOUS
  <1>4. PICK X : X = IF k \in Closed THEN {g \in globals : g[2] = k} ELSE globals
    OBVIOUS
  <1>5. PICK e : e = [env[k] EXCEPT !.st = "live", !.refs = OwnersAtBirth, !.globals = globals, !.exports = X]
    OBVIOUS
  <1>6. PICK E : E = [env EXCEPT ![k] = e]
    OBVIOUS
  <1>7. cache' = cache \cup {k}
    BY <1>1 DEF Finish
  <1>8. PICK mode \in Modes(X) : env' = Applied(Incref(E, Spaces(X)), to, k, mode)
    BY <1>1, <1>3, <1>4, <1>5, <1>6 DEF Finish
  <1>9. /\ env \in [Modules -> Entries] /\ LiveIn(env) = cache /\ cache \in SUBSET Keys
        /\ env[k].globals \in SUBSET Globals /\ Spaces(env[k].globals) \subseteq cache
    BY <1>2, StartFacts
  <1>10. /\ globals \in SUBSET Globals /\ Spaces(globals) = Spaces(env[k].globals)
         /\ \A g \in globals : \E h \in env[k].globals : g[2] = h[2]
    BY <1>2, <1>3, <1>9, RemapFacts
  <1>11. X \subseteq globals /\ X \in SUBSET Globals /\ Spaces(X) \subseteq Spaces(globals)
    BY <1>4, <1>10, SpacesOfFewer
  <1>12. e \in Entries /\ e.st = "live" /\ e.refs = 2 /\ e.globals = globals /\ e.exports = X
    <2>1. env[k] \in Entries /\ env[k].by \in Nat
      BY <1>2, <1>9 DEF Entries
    <2>2. PICK x : x = env[k]
      OBVIOUS
    <2>3. e = [st |-> "live", refs |-> 2, globals |-> globals, exports |-> X, by |-> x.by]
      BY <1>5, <2>1, <2>2 DEF Entries, OwnersAtBirth
    <2> QED
      BY <1>10, <1>11, <2>1, <2>2, <2>3 DEF Entries
  <1>13. \A g \in globals : g[2] = k \/ g[2] \in cache
    BY <1>2, <1>10 DEF IInv, EnvInv, EnvGood, Reaches
  <1>14. PICK K, L, R, Q, C : /\ K = cache /\ L = cache \cup {k} /\ R = Running \cup {User}
                              /\ Q = (Running \ {k}) \cup {User} /\ C = Plus(None, cache)
    OBVIOUS
  <1>15. PICK D : D = [x \in Keys |-> IF x = k THEN 2 ELSE IF x \in K /\ x \notin Spaces(X) THEN 1 ELSE 0]
    OBVIOUS
  <1>16. C \in Held /\ D \in Held /\ EnvGood(env, K, R, C) /\ Good(env, C)
    BY <1>14, <1>15, CacheHolds DEF IInv, EnvInv, EnvGood, Held
  <1>17. Fits(C, D, env, k, e)
    <2>1. PICK G, Y : G = Spaces(globals) /\ Y = Spaces(X)
      OBVIOUS
    <2>2. ASSUME NEW x \in LiveIn(env) PROVE D[x] + (Bit(x, G) + Bit(x, Y)) = C[x] + Bit(x, G)
      <3>1. x \in K /\ x # k /\ x \in Keys /\ C[x] = 1 /\ Bit(x, G) \in Nat
        BY <1>2, <1>9, <1>14, CacheHolds, BitFacts
      <3>2. CASE x \in Y
        <4>1. D[x] = 0 /\ Bit(x, Y) = 1
          BY <1>15, <2>1, <3>1, <3>2, BitFacts
        <4> QED
          BY <3>1, <4>1
      <3>3. CASE x \notin Y
        <4>1. D[x] = 1 /\ Bit(x, Y) = 0
          BY <1>15, <2>1, <3>1, <3>3, BitFacts
        <4> QED
          BY <3>1, <4>1
      <3> QED
        BY <3>2, <3>3
    <2>3. env[k].st # "live" /\ D[k] = 2
      BY <1>2, <1>9, <1>15 DEF LiveIn
    <2>4. \A x \in LiveIn(env) : D[x] + (Bit(x, Spaces(e.globals)) + Bit(x, Spaces(e.exports)))
                                 = C[x] + Bit(x, Spaces(env[k].globals))
      BY <1>10, <1>12, <2>1, <2>2
    <2>5. Spaces(e.globals) \subseteq LiveIn(env) /\ Spaces(e.exports) \subseteq LiveIn(env)
      BY <1>9, <1>10, <1>11, <1>12
    <2> QED
      BY <1>12, <1>16, <2>3, <2>4, <2>5 DEF Fits
  <1>18. EnvGood(E, L, Q, D)
    <2>1. E = Put(env, k, e)
      BY <1>6 DEF Put
    <2>2. \A x : x \in L <=> x \in K \/ (x = k /\ k \in Keys /\ e.st = "live")
      BY <1>2, <1>12, <1>14
    <2>3. \A j \in Modules : j # k => (j \in Q <=> j \in R)
      BY <1>14
    <2>4. e.st = "running" <=> k \in Q
      BY <1>2, <1>12, <1>14
    <2>5. \A g \in e.globals \cup e.exports : g[2] = k \/ g[2] \in L
      BY <1>11, <1>12, <1>13, <1>14
    <2> QED
      BY <1>2, <1>16, <1>17, <2>1, <2>2, <2>3, <2>4, <2>5, PutEnv
  <1>19. PICK F : F = Incref(E, Spaces(X))
    OBVIOUS
  <1>20. Spaces(X) \in SUBSET LiveIn(E) /\ Good(E, D) /\ L \in SUBSET Keys /\ k \in L
         /\ Spaces(X) \subseteq K
    BY <1>2, <1>9, <1>10, <1>11, <1>14, <1>18 DEF EnvGood
  <1>21. Good(F, Plus(D, Spaces(X))) /\ Kept(E, F)
    BY <1>16, <1>19, <1>20, IncrefGood
  <1>22. Plus(D, Spaces(X)) = Plus(Plus(None, L), {k})
    <2>1. /\ Plus(None, L) \in Held /\ Plus(D, Spaces(X)) \in Held /\ Plus(Plus(None, L), {k}) \in Held
      BY <1>16, CacheHolds, PlusFacts
    <2>2. ASSUME NEW x \in Keys PROVE Plus(D, Spaces(X))[x] = Plus(Plus(None, L), {k})[x]
      <3>1. k \notin Spaces(X) /\ k \notin K
        BY <1>2, <1>14, <1>20
      <3>2. CASE x = k
        <4>1. Plus(D, Spaces(X))[x] = 2
          BY <1>15, <1>16, <2>2, <3>1, <3>2, PlusFacts
        <4>2. Plus(None, L)[x] = 1
          BY <1>20, <2>2, <3>2, CacheHolds
        <4>3. Plus(Plus(None, L), {k})[x] = 1 + 1
          BY <2>1, <2>2, <3>2, <4>2, PlusFacts
        <4> QED
          BY <4>1, <4>3
      <3>3. CASE x # k /\ x \in Spaces(X)
        <4>1. x \in L /\ D[x] = 0
          BY <1>14, <1>15, <1>20, <3>3
        <4>2. Plus(D, Spaces(X))[x] = 0 + 1
          BY <1>16, <2>2, <3>3, <4>1, PlusFacts
        <4>3. Plus(None, L)[x] = 1
          BY <2>2, <4>1, CacheHolds
        <4>4. Plus(Plus(None, L), {k})[x] = 1
          BY <2>1, <2>2, <3>3, <4>3, PlusFacts
        <4> QED
          BY <4>2, <4>4
      <3>4. CASE x # k /\ x \notin Spaces(X)
        <4>1. Plus(D, Spaces(X))[x] = D[x] /\ Plus(Plus(None, L), {k})[x] = Plus(None, L)[x]
          BY <1>16, <2>1, <2>2, <3>4, PlusFacts
        <4>2. CASE x \in K
          <5>1. D[x] = 1 /\ x \in L
            BY <1>14, <1>15, <3>4, <4>2
          <5>2. Plus(None, L)[x] = 1
            BY <2>2, <5>1, CacheHolds
          <5> QED
            BY <4>1, <5>1, <5>2
        <4>3. CASE x \notin K
          <5>1. D[x] = 0 /\ x \notin L
            BY <1>14, <1>15, <3>4, <4>3
          <5>2. Plus(None, L)[x] = 0
            BY <2>2, <5>1, CacheHolds
          <5> QED
            BY <4>1, <5>1, <5>2
        <4> QED
          BY <4>2, <4>3
      <3> QED
        BY <3>2, <3>3, <3>4
    <2> QED
      BY <2>1, <2>2 DEF Held
  <1>23. EnvGood(F, L, Q, Plus(Plus(None, L), {k}))
    BY <1>18, <1>21, <1>22, KeptEnv
  <1>24. EnvGood(env', L, Q, Plus(None, L))
    <2>1. Spaces(X) \subseteq L /\ \A g \in X : g[2] \in L
      BY <1>11, <1>13, <1>14, <1>20
    <2>2. env' = Applied(F, to, k, mode) /\ to \in Q
      BY <1>2, <1>8, <1>14, <1>19
    <2> QED
      BY <1>2, <1>11, <1>20, <1>23, <2>1, <2>2, AppliedEnv
  <1> QED
    BY <1>1, <1>7, <1>14, <1>24 DEF EnvInv

\* A running module lets go of what it holds: an error while it ran, a name it forgets.
LEMMA LetGoEnv ==
    ASSUME LoaderConstants, NEW K \in SUBSET Keys, NEW R, NEW E, EnvGood(E, K, R, Plus(None, K)),
           NEW to \in Modules, E[to].st = "running", NEW e \in Entries, e.st # "live", e.exports = {},
           e.st = "unused" => e.globals = {}, e.globals \subseteq E[to].globals, NEW S,
           \A x \in Keys : x \in S <=> x \in Spaces(E[to].globals) /\ x \notin Spaces(e.globals), S \subseteq Keys,
           NEW Q, \A j \in Modules : j # to => (j \in Q <=> j \in R), e.st = "running" <=> to \in Q,
           NEW F, F = Decref(Put(E, to, e), S)
    PROVE  EnvGood(F, K, Q, Plus(None, K))
  <1>1. PICK C, D, H : C = Plus(None, K) /\ D = Plus(C, S) /\ H = Put(E, to, e)
    OBVIOUS
  <1>2. C \in Held /\ D \in Held /\ EnvGood(E, K, R, C) /\ Good(E, C) /\ LiveIn(E) = K
    <2>1. Plus(None, K) \in Held
      BY CacheHolds
    <2> QED
      BY <1>1, <2>1, PlusFacts DEF EnvGood
  <1>3. PICK A, B : A = Spaces(E[to].globals) /\ B = Spaces(e.globals)
    OBVIOUS
  <1>4. B \subseteq A /\ A \subseteq K
    <2>1. A \subseteq K
      BY <1>2, <1>3 DEF Good, Linked
    <2> QED
      BY <1>3, <2>1, SpacesOfFewer
  <1>5. Fits(C, D, E, to, e)
    <2>1. ASSUME NEW x \in LiveIn(E) PROVE D[x] + (Bit(x, B) + Bit(x, {})) = C[x] + Bit(x, A)
      <3>1. x \in Keys /\ C[x] \in Nat /\ Bit(x, {}) = 0
        BY <1>2, BitFacts DEF LiveIn, Held
      <3>2. CASE x \in S
        <4>1. D[x] = C[x] + 1 /\ x \in A /\ x \notin B
          BY <1>1, <1>2, <1>3, <3>1, <3>2, PlusFacts
        <4>2. Bit(x, A) = 1 /\ Bit(x, B) = 0
          BY <4>1, BitFacts
        <4> QED
          BY <3>1, <4>1, <4>2
      <3>3. CASE x \notin S
        <4>1. D[x] = C[x] /\ (x \in A <=> x \in B)
          BY <1>1, <1>2, <1>3, <1>4, <3>1, <3>3, PlusFacts
        <4>2. Bit(x, A) = Bit(x, B) /\ Bit(x, A) \in Nat
          BY <4>1, BitFacts, BitSame
        <4> QED
          BY <3>1, <4>1, <4>2
      <3> QED
        BY <3>2, <3>3
    <2>2. Spaces(e.exports) = {}
      BY NoSpaces
    <2>3. \A x \in LiveIn(E) : D[x] + (Bit(x, Spaces(e.globals)) + Bit(x, Spaces(e.exports)))
                               = C[x] + Bit(x, Spaces(E[to].globals))
      BY <1>3, <2>1, <2>2
    <2> QED
      BY <1>2, <1>3, <1>4, <2>2, <2>3 DEF Fits
  <1>6. EnvGood(H, K, Q, D)
    <2>1. \A x : x \in K <=> x \in K \/ (x = to /\ to \in Keys /\ e.st = "live")
      OBVIOUS
    <2>2. \A g \in e.globals \cup e.exports : g[2] = to \/ g[2] \in K
      BY DEF EnvGood, Reaches
    <2> QED
      BY <1>1, <1>2, <1>5, <2>1, <2>2, PutEnv
  <1>7. Good(F, C) /\ Kept(H, F)
    <2>1. Good(H, Plus(C, S)) /\ LiveIn(H) = K
      BY <1>1, <1>6 DEF EnvGood
    <2>2. S \in SUBSET LiveIn(H) /\ \A x \in LiveIn(H) : C[x] > 0
      <3>1. S \subseteq K
        BY <1>3, <1>4
      <3>2. \A x \in K : C[x] = 1
        BY <1>1, CacheHolds
      <3> QED
        BY <2>1, <3>1, <3>2
    <2>3. F = Decref(H, S)
      BY <1>1
    <2> QED
      BY <1>2, <2>1, <2>2, <2>3, DecrefKeeps
  <1> QED
    BY <1>1, <1>6, <1>7, KeptEnv

LEMMA FailEnv ==
    ASSUME LoaderConstants, IInv, NEW late \in BOOLEAN, Fail(late), Running' = Running \ {Cur.key}
    PROVE  EnvInv'
  <1>1. PICK k : k = Cur.key
    OBVIOUS
  <1>2. Depth > 1 /\ cache' = cache /\ env' = Decref([env EXCEPT ![k] = Unused], Spaces(env[k].globals))
    BY <1>1 DEF Fail, HasCaller, Cleared
  <1>3. /\ k \in Modules /\ k \in Running /\ k # User /\ cache \in SUBSET Keys
        /\ Spaces(env[k].globals) \subseteq cache
    BY <1>1, <1>2, StartFacts, ModFacts
  <1>4. PICK R, Q, S : R = Running \cup {User} /\ Q = (Running \ {k}) \cup {User} /\ S = Spaces(env[k].globals)
    OBVIOUS
  <1>5. EnvGood(env, cache, R, Plus(None, cache)) /\ env[k].st = "running"
    BY <1>3, <1>4 DEF IInv, EnvInv, EnvGood
  <1>6. Unused \in Entries /\ Unused.st = "unused" /\ Unused.globals = {} /\ Unused.exports = {}
    BY DEF Unused, Entries
  <1>7. \A x \in Keys : x \in S <=> x \in Spaces(env[k].globals) /\ x \notin Spaces(Unused.globals)
    BY <1>4, <1>6, NoSpaces
  <1>8. /\ \A j \in Modules : j # k => (j \in Q <=> j \in R)
        /\ Unused.st = "running" <=> k \in Q
    BY <1>3, <1>4, <1>6
  <1>9. env' = Decref(Put(env, k, Unused), S) /\ S \subseteq Keys
    BY <1>2, <1>3, <1>4 DEF Put
  <1>10. EnvGood(env', cache, Q, Plus(None, cache))
    <2>1. PICK e : e = Unused
      OBVIOUS
    <2>2. /\ e \in Entries /\ e.st # "live" /\ e.exports = {} /\ (e.st = "unused" => e.globals = {})
          /\ e.globals \subseteq env[k].globals
      BY <1>6, <2>1
    <2>3. /\ \A x \in Keys : x \in S <=> x \in Spaces(env[k].globals) /\ x \notin Spaces(e.globals)
          /\ e.st = "running" <=> k \in Q
          /\ env' = Decref(Put(env, k, e), S)
      BY <1>7, <1>8, <1>9, <2>1
    <2> QED
      BY <1>3, <1>5, <1>8, <1>9, <2>2, <2>3, LetGoEnv
  <1> QED
    BY <1>1, <1>2, <1>4, <1>10 DEF EnvInv

LEMMA ForgetEnv ==
    ASSUME LoaderConstants, IInv, NEW g, Forget(g), Running' = Running
    PROVE  EnvInv'
  <1>1. PICK k : k = Cur.key
    OBVIOUS
  <1>2. PICK e : e = [env[k] EXCEPT !.globals = @ \ {g}]
    OBVIOUS
  <1>3. /\ k \in Modules /\ k \in Running \cup {User} /\ cache \in SUBSET Keys /\ env \in [Modules -> Entries]
        /\ env[k].globals \in SUBSET Globals /\ g \in env[k].globals
    BY <1>1, StartFacts DEF Forget
  <1>4. cache' = cache /\ env' = Decref([env EXCEPT ![k].globals = @ \ {g}], Spaces({g}))
    BY <1>1 DEF Forget
  <1>5. PICK R, S : R = Running \cup {User} /\ S = Spaces({g})
    OBVIOUS
  <1>6. EnvGood(env, cache, R, Plus(None, cache)) /\ Good(env, Plus(None, cache)) /\ env[k].st = "running"
    BY <1>3, <1>5 DEF IInv, EnvInv, EnvGood
  <1>7. e \in Entries /\ e.st = "running" /\ e.globals = env[k].globals \ {g} /\ e.exports = {}
    <2>1. env[k] \in Entries /\ env[k].exports = {}
      BY <1>3, <1>6 DEF Good, Blank
    <2> QED
      BY <1>2, <1>6, <2>1 DEF Entries
  <1>8. env' = Decref(Put(env, k, e), S)
    <2>1. [env EXCEPT ![k].globals = @ \ {g}] = [env EXCEPT ![k] = e]
      BY <1>2, <1>3
    <2> QED
      BY <1>4, <1>5, <2>1 DEF Put
  <1>9. S \subseteq Keys /\ \A x \in Keys : x \in S <=> x \in Spaces(env[k].globals) /\ x \notin Spaces(e.globals)
    <2>1. {g} \in SUBSET Globals /\ e.globals \in SUBSET Globals
      BY <1>3, <1>7
    <2>2. PICK V : V = {g}
      OBVIOUS
    <2>3. S \subseteq Keys /\ \A x : x \in S <=> <<"ns", x, 0>> \in V
      BY <1>5, <2>1, <2>2, SpaceFacts
    <2>4. /\ \A x : x \in Spaces(env[k].globals) <=> <<"ns", x, 0>> \in env[k].globals
          /\ \A x : x \in Spaces(e.globals) <=> <<"ns", x, 0>> \in e.globals
      BY <1>3, <2>1, SpaceFacts
    <2>5. \A h : h \in V <=> h \in env[k].globals /\ h \notin e.globals
      BY <1>3, <1>7, <2>2
    <2> QED
      BY <2>3, <2>4, <2>5
  <1>10. EnvGood(env', cache, R, Plus(None, cache))
    <2>1. \A j \in Modules : j # k => (j \in R <=> j \in R)
      OBVIOUS
    <2>2. (e.st = "running" <=> k \in R) /\ e.globals \subseteq env[k].globals
      BY <1>3, <1>5, <1>7
    <2>3. e.st # "live" /\ (e.st = "unused" => e.globals = {})
      BY <1>7
    <2> QED
      BY <1>3, <1>6, <1>7, <1>8, <1>9, <2>1, <2>2, <2>3, LetGoEnv
  <1> QED
    BY <1>4, <1>5, <1>10 DEF EnvInv

LEMMA UserSet ==
    ASSUME LoaderConstants, NEW C \in Held, NEW D \in Held, NEW E, Fits(C, D, E, User, UserEnv),
           NEW H, H = Put(E, User, UserEnv)
    PROVE  /\ Good(H, D) /\ H[User] = UserEnv /\ \A j \in Modules : j # User => H[j] = E[j]
           /\ \A k : k \in LiveIn(H) <=> k \in LiveIn(E) \/ (k = User /\ User \in Keys /\ UserEnv.st = "live")
  BY EntrySet, ModFacts

\* A reset leaves no namespace: what the cache and the user held goes first, then, since
\* namespaces do not hold each other in a circle, all the rest.
LEMMA ResetEnv ==
    ASSUME LoaderConstants, IInv, Reset, Running' = {}
    PROVE  EnvInv'
  <1>1. PICK E : E = Decref(env, cache)
    OBVIOUS
  <1>2. PICK S : S = Spaces(env[User].globals)
    OBVIOUS
  <1>3. PICK H : H = Put(E, User, UserEnv)
    OBVIOUS
  <1>4. PICK F : F = Decref(H, S)
    OBVIOUS
  <1>5. Depth = 1 /\ env' = F /\ cache' = {}
    BY <1>1, <1>2, <1>3, <1>4 DEF Reset, Put
  <1>6. /\ cache \in SUBSET Keys /\ LiveIn(env) = cache /\ Running = {} /\ User \in Modules
        /\ User \notin Keys /\ S \subseteq cache
    BY <1>2, <1>5, StartFacts, ModFacts DEF LoaderConstants
  <1>7. /\ None \in Held /\ Plus(None, S) \in Held /\ Good(env, Plus(None, cache)) /\ Acyclic(env)
        /\ \A j \in Modules : env[j].st = "running" <=> j = User
    BY <1>6, CacheHolds DEF IInv, EnvInv, EnvGood
  <1>8. Good(E, None) /\ Shrunk(env, E)
    BY <1>1, <1>6, <1>7, DecrefGood
  <1>9. Same(env, E, User)
    BY <1>6, <1>8 DEF Shrunk, LiveIn
  <1>10. E[User].globals = env[User].globals /\ E[User].st = "running"
    BY <1>6, <1>7, <1>9 DEF Same
  <1>11. UserEnv \in Entries /\ UserEnv.st = "running" /\ UserEnv.globals = {} /\ UserEnv.exports = {}
    BY DEF UserEnv, Unused, Entries
  <1>12. /\ Good(H, Plus(None, S)) /\ H[User] = UserEnv /\ \A j \in Modules : j # User => H[j] = E[j]
         /\ LiveIn(H) = LiveIn(E)
    <2>1. Fits(None, Plus(None, S), E, User, UserEnv)
      <3>1. ASSUME NEW x \in LiveIn(E) PROVE Plus(None, S)[x] + (Bit(x, {}) + Bit(x, {})) = None[x] + Bit(x, S)
        <4>1. x \in Keys /\ None[x] = 0 /\ Bit(x, {}) = 0
          BY BitFacts, CacheHolds DEF LiveIn
        <4>2. CASE x \in S
          BY <4>1, <4>2, BitFacts, CacheHolds
        <4>3. CASE x \notin S
          BY <4>1, <4>3, BitFacts, CacheHolds
        <4> QED
          BY <4>2, <4>3
      <3>2. \A x \in LiveIn(E) : Plus(None, S)[x] + (Bit(x, Spaces(UserEnv.globals)) + Bit(x, Spaces(UserEnv.exports)))
                                 = None[x] + Bit(x, Spaces(E[User].globals))
        BY <1>2, <1>10, <1>11, <3>1, NoSpaces
      <3> QED
        BY <1>6, <1>8, <1>10, <1>11, <3>2, NoSpaces DEF Fits
    <2>2. /\ Good(H, Plus(None, S)) /\ H[User] = UserEnv /\ \A j \in Modules : j # User => H[j] = E[j]
          /\ \A k : k \in LiveIn(H) <=> k \in LiveIn(E) \/ (k = User /\ User \in Keys /\ UserEnv.st = "live")
      BY <1>3, <1>6, <1>7, <2>1, UserSet
    <2> QED
      BY <1>6, <2>2
  <1>13. Good(F, None) /\ Shrunk(H, F) /\ Dead(F) = {}
    <2>1. S \in SUBSET LiveIn(H)
      BY <1>2, <1>6, <1>8, <1>10, <1>12 DEF Good, Linked
    <2> QED
      BY <1>4, <1>7, <1>12, <2>1, DecrefGood
  <1>14. F[User].st = "running" /\ F[User].globals = {}
    <2>1. Same(H, F, User)
      BY <1>6, <1>13 DEF Shrunk, LiveIn
    <2> QED
      BY <1>11, <1>12, <2>1 DEF Same
  <1>15. ASSUME NEW j \in Keys
         PROVE  /\ F[j].st # "running"
                /\ F[j].st = "live" => j \in LiveIn(env) /\ F[j].globals = env[j].globals /\ F[j].exports = env[j].exports
    <2>1. j \in Modules /\ j # User
      BY <1>6, ModFacts
    <2>2. Same(H, F, j) \/ F[j].st = "unused"
      BY <1>13, <2>1 DEF Shrunk
    <2>3. Same(env, E, j) \/ E[j].st = "unused"
      BY <1>8, <2>1 DEF Shrunk
    <2>4. H[j] = E[j] /\ env[j].st # "running"
      BY <1>7, <1>12, <2>1
    <2> QED
      BY <2>2, <2>3, <2>4 DEF Same, LiveIn
  <1>16. LiveIn(F) = {}
    <2>1. SUFFICES ASSUME LiveIn(F) # {} PROVE FALSE
      OBVIOUS
    <2>2. LiveIn(F) \in SUBSET LiveIn(env)
      BY <1>15 DEF LiveIn
    <2>3. PICK k \in LiveIn(F) : \A j \in LiveIn(F) : /\ k \notin Spaces(env[j].globals)
                                                      /\ k \notin Spaces(env[j].exports)
      BY <1>7, <2>1, <2>2 DEF Acyclic
    <2>4. ASSUME NEW j \in Modules
          PROVE  k \notin Spaces(F[j].globals) /\ k \notin Spaces(F[j].exports)
      <3>1. CASE j \in LiveIn(F)
        BY <1>15, <2>3, <3>1 DEF LiveIn
      <3>2. CASE j = User
        <4>1. F[User].exports = {}
          BY <1>6, <1>13, <1>14 DEF Good, Blank
        <4> QED
          BY <1>14, <3>2, <4>1, NoSpaces
      <3>3. CASE j \in Keys /\ j \notin LiveIn(F)
        <4>1. F[j].st \in {"unused", "running", "live"}
          BY <1>13, <2>4 DEF Good, Envs, Entries
        <4>2. F[j].st = "unused"
          BY <1>15, <3>3, <4>1 DEF LiveIn
        <4>3. F[j].globals = {} /\ F[j].exports = {}
          BY <1>13, <2>4, <4>2 DEF Good, Blank
        <4> QED
          BY <4>3, NoSpaces
      <3> QED
        BY <3>1, <3>2, <3>3, <2>4 DEF Modules
    <2>5. InGlobals(F, k) = {} /\ InExports(F, k) = {}
      BY <2>4 DEF InGlobals, InExports
    <2>6. Owners(F, k) = 0
      <3>1. Cardinality(InGlobals(F, k)) = 0 /\ Cardinality(InExports(F, k)) = 0
        BY <2>5, FS_EmptySet
      <3> QED
        BY <3>1 DEF Owners
    <2>7. k \in Keys /\ None[k] = 0
      BY CacheHolds DEF LiveIn
    <2>8. F[k].refs = None[k] + Owners(F, k)
      BY <1>13 DEF Good, Counted
    <2>9. F[k].refs = 0
      BY <2>6, <2>7, <2>8
    <2>10. k \in Dead(F)
      BY <2>7, <2>9 DEF Dead, LiveIn
    <2> QED
      BY <1>13, <2>10
  <1>17. Acyclic(F)
    BY <1>16 DEF Acyclic
  <1>18. Reaches(F, {})
    <2>1. ASSUME NEW j \in Modules PROVE F[j].globals = {} /\ F[j].exports = {}
      <3>1. CASE j = User
        BY <1>6, <1>13, <1>14, <3>1 DEF Good, Blank
      <3>2. CASE j \in Keys
        <4>1. F[j].st \in {"unused", "running", "live"} /\ j \notin LiveIn(F)
          BY <1>13, <1>16, <2>1 DEF Good, Envs, Entries
        <4>2. F[j].st = "unused"
          BY <1>15, <3>2, <4>1 DEF LiveIn
        <4> QED
          BY <1>13, <2>1, <4>2 DEF Good, Blank
      <3> QED
        BY <3>1, <3>2, <2>1 DEF Modules
    <2> QED
      BY <2>1 DEF Reaches
  <1>19. \A j \in Modules : F[j].st = "running" <=> j \in {User}
    BY <1>14, <1>15 DEF Modules
  <1>20. EnvGood(F, {}, {User}, Plus(None, {}))
    BY <1>13, <1>16, <1>17, <1>18, <1>19, CacheHolds DEF EnvGood
  <1> QED
    BY <1>5, <1>20 DEF EnvInv
-----------------------------------------------------------------------------
\* The theorems.

LEMMA StepKeeps ==
    ASSUME LoaderConstants, IInv, Next
    PROVE  IInv'
  <1>1. MarkInv'
    BY VMsReached DEF IInv, MarkInv
  <1>2. Stack /\ Nested /\ marks = Running
    BY DEF IInv, MarkInv
  <1>3. marks' = Running'
    BY <1>1 DEF MarkInv
  <1>4. ASSUME NEW k \in Keys, CacheHit(k) PROVE EnvInv'
    BY <1>4, CacheHitEnv DEF CacheHit
  <1>5. ASSUME NEW k \in Keys, LoadPlugin(k) PROVE EnvInv'
    <2>1. Running' = Running
      BY <1>2, <1>3, <1>5 DEF LoadPlugin
    <2> QED
      BY <1>5, <2>1, LoadPluginEnv
  <1>6. ASSUME NEW k \in Keys, Enter(k) PROVE EnvInv'
    <2>1. Running' = Running \cup {k}
      BY <1>2, <1>3, <1>6 DEF Enter
    <2> QED
      BY <1>6, <2>1, EnterEnv
  <1>7. ASSUME Finish PROVE EnvInv'
    <2>1. Running' = Running \ {Cur.key}
      BY <1>2, <1>3, <1>7 DEF Finish, Unmarked
    <2> QED
      BY <1>7, <2>1, FinishEnv
  <1>8. ASSUME NEW late \in BOOLEAN, Fail(late) PROVE EnvInv'
    <2>1. Running' = Running \ {Cur.key}
      BY <1>2, <1>3, <1>8 DEF Fail, Unmarked
    <2> QED
      BY <1>8, <2>1, FailEnv
  <1>9. ASSUME NEW g, Forget(g) PROVE EnvInv'
    <2>1. Running' = Running
      BY <1>2, <1>3, <1>9 DEF Forget
    <2> QED
      BY <1>9, <2>1, ForgetEnv
  <1>10. ASSUME Define PROVE EnvInv'
    <2>1. Running' = Running /\ env' = env /\ cache' = cache
      BY <1>2, <1>3, <1>10 DEF Define
    <2> QED
      BY <2>1 DEF IInv, EnvInv
  <1>11. ASSUME Reset PROVE EnvInv'
    <2>1. Running = {}
      BY <1>11, StartFacts DEF Reset
    <2>2. Running' = {}
      BY <1>2, <1>3, <1>11, <2>1 DEF Reset
    <2> QED
      BY <1>11, <2>2, ResetEnv
  <1>12. EnvInv'
    BY <1>4, <1>5, <1>6, <1>7, <1>8, <1>9, <1>10, <1>11 DEF Next
  <1> QED
    BY <1>1, <1>12 DEF IInv

LEMMA InitHolds ==
    ASSUME LoaderConstants, Init, MarkInv
    PROVE  IInv
  <1>1. cache = {} /\ Running = {}
    BY DEF Init, MarkInv
  <1>2. env = [k \in Modules |-> IF k = User THEN UserEnv ELSE Unused]
    BY DEF Init, Modules
  <1>3. /\ Unused \in Entries /\ Unused.st = "unused" /\ Unused.globals = {} /\ Unused.exports = {}
        /\ UserEnv \in Entries /\ UserEnv.st = "running" /\ UserEnv.globals = {} /\ UserEnv.exports = {}
    BY DEF Unused, UserEnv, Entries
  <1>4. \A j \in Modules : /\ env[j] \in Entries /\ env[j].globals = {} /\ env[j].exports = {}
                           /\ env[j].st # "live" /\ (env[j].st = "running" <=> j = User)
    BY <1>2, <1>3
  <1>5. LiveIn(env) = {} /\ env \in Envs
    BY <1>2, <1>4, ModFacts DEF LiveIn, Envs
  <1>6. Good(env, Plus(None, {}))
    BY <1>4, <1>5, NoSpaces DEF Good, Linked, Blank, Counted
  <1>7. Acyclic(env) /\ Reaches(env, {})
    BY <1>4, <1>5 DEF Acyclic, Reaches
  <1>8. EnvGood(env, {}, {User}, Plus(None, {}))
    BY <1>4, <1>5, <1>6, <1>7 DEF EnvGood
  <1>9. Running \cup {User} = {User}
    BY <1>1
  <1> QED
    BY <1>1, <1>8, <1>9 DEF IInv, EnvInv

\* The inductive invariant.
THEOREM EnvCorrect == Spec => []IInv
  <1>1. LoaderConstants
    BY LoaderConstants
  <1>2. Init /\ MarkInv => IInv
    BY <1>1, InitHolds
  <1>3. IInv /\ [Next]_vars => IInv'
    <2>1. ASSUME IInv, Next PROVE IInv'
      BY <1>1, <2>1, StepKeeps
    <2>2. ASSUME IInv, UNCHANGED vars PROVE IInv'
      <3>1. MarkInv'
        BY <2>2 DEF IInv, MarkInv, Stack, Nested, Running, Depth, vars
      <3>2. EnvInv'
        <4>1. Running' = Running /\ env' = env /\ cache' = cache
          BY <2>2 DEF Running, Depth, vars
        <4> QED
          BY <2>2, <4>1 DEF IInv, EnvInv
      <3> QED
        BY <3>1, <3>2 DEF IInv
    <2> QED
      BY <2>1, <2>2
  <1> QED
    BY <1>2, <1>3, StackCorrect, PTL DEF Spec

\* Every variable keeps its type.
THEOREM TypeCorrect == Spec => []TypeOK
  <1>1. LoaderConstants
    BY LoaderConstants
  <1>2. IInv => TypeOK
    <2>1. SUFFICES ASSUME IInv PROVE TypeOK
      OBVIOUS
    <2>2. env \in [Modules -> Entries] /\ cache \subseteq Keys /\ marks \subseteq Mods
      BY <1>1, <2>1, StartFacts
    <2> QED
      BY <2>1, <2>2 DEF TypeOK, IInv, MarkInv, Stack
  <1> QED
    BY <1>2, EnvCorrect, PTL

\* What is alive is what the cache holds, and nothing that runs is in it: no path is loaded
\* a second time beside its namespace, a failed load leaves no entry, and after a reset no
\* namespace remains.
THEOREM NamespacesCorrect == Spec => []OneNamespacePerPath
  <1>1. IInv => OneNamespacePerPath
    BY DEF IInv, MarkInv, EnvInv, EnvGood, OneNamespacePerPath, Live, LiveIn
  <1> QED
    BY <1>1, EnvCorrect, PTL

\* Every namespace has one reference for each of its owners, after every import, failed
\* import, overwritten global and reset: none leaks, none is freed while it is owned.
THEOREM RefcountCorrect == Spec => []RefcountIsOwners
  <1>1. LoaderConstants
    BY LoaderConstants
  <1>2. IInv => RefcountIsOwners
    <2>1. SUFFICES ASSUME IInv, NEW k \in Live
                   PROVE  env[k].refs = (IF k \in cache THEN 1 ELSE 0)
                                        + Cardinality({j \in DOMAIN env : k \in Spaces(env[j].globals)})
                                        + Cardinality({j \in DOMAIN env : k \in Spaces(env[j].exports)})
      BY DEF RefcountIsOwners
    <2>2. DOMAIN env = Modules /\ k \in LiveIn(env) /\ k \in Keys /\ k \in cache
      BY <1>1, <2>1, StartFacts DEF Live, LiveIn
    <2>3. env[k].refs = Plus(None, cache)[k] + Owners(env, k)
      BY <2>1, <2>2 DEF IInv, EnvInv, EnvGood, Good, Counted
    <2>4. PICK a, b : a = Cardinality(InGlobals(env, k)) /\ b = Cardinality(InExports(env, k))
      OBVIOUS
    <2>5. a \in Nat /\ b \in Nat /\ Owners(env, k) = a + b
      BY <1>1, <2>4, OwnersFacts DEF Owners
    <2>6. Plus(None, cache)[k] = 1
      BY <2>2, CacheHolds
    <2>7. env[k].refs = 1 + a + b
      BY <2>3, <2>5, <2>6
    <2> QED
      BY <2>2, <2>4, <2>7 DEF InGlobals, InExports
  <1> QED
    BY <1>2, EnvCorrect, PTL

\* Whatever a global refers to has not been drained of its own globals.
THEOREM ClosuresCorrect == Spec => []ClosuresKeepGlobals
  <1>1. LoaderConstants
    BY LoaderConstants
  <1>2. IInv => ClosuresKeepGlobals
    <2>1. SUFFICES ASSUME IInv, NEW k \in Modules, NEW g \in env[k].globals PROVE env[g[2]].st # "unused"
      <3>1. IInv => DOMAIN env = Modules
        BY <1>1, StartFacts
      <3> QED
        BY <3>1 DEF ClosuresKeepGlobals
    <2>2. g[2] = k \/ g[2] \in cache
      BY <2>1 DEF IInv, EnvInv, EnvGood, Reaches
    <2>3. env[k].st # "unused"
      BY <2>1 DEF IInv, EnvInv, EnvGood, Good, Blank
    <2>4. \A j \in cache : env[j].st = "live"
      BY <2>1 DEF IInv, EnvInv, EnvGood, LiveIn
    <2> QED
      BY <2>2, <2>3, <2>4
  <1> QED
    BY <1>2, EnvCorrect, PTL
-----------------------------------------------------------------------------
\* Whose templates a function finds.

\* What the modules hold, and the functions among it whose module the user's pipeline loaded.
All(E)   == UNION {E[j].globals \cup E[j].exports : j \in Modules}
Calls(E) == {g \in All(E) : g[1] = "fn" /\ E[g[2]].by = 1}

\* Releases take globals away and forget who loaded what is dropped; they add nothing.
Fades(E, F) == \A j \in Modules : /\ F[j].globals \subseteq E[j].globals /\ F[j].exports \subseteq E[j].exports
                                  /\ F[j].by \in {E[j].by, 0}

LEMMA AllTyped ==
    ASSUME LoaderConstants, NEW E \in Envs
    PROVE  /\ All(E) \subseteq Globals
           /\ \A g \in All(E) : g[1] = "fn" => g[2] \in Mods /\ g[2] \in Modules /\ g[3] \in Nat
                                               /\ g = <<"fn", g[2], g[3]>>
  <1>1. ASSUME NEW g \in All(E) PROVE g \in Globals
    <2>1. PICK j \in Modules : g \in E[j].globals \cup E[j].exports
      BY DEF All
    <2> QED
      BY <2>1 DEF Envs, Entries
  <1>2. ASSUME NEW g \in Globals, g[1] = "fn"
        PROVE  g[2] \in Mods /\ g[3] \in Nat /\ g = <<"fn", g[2], g[3]>>
    BY <1>2 DEF Globals
  <1> QED
    BY <1>1, <1>2, ModFacts

LEMMA FewerCalls ==
    ASSUME LoaderConstants, NEW E \in Envs, NEW F \in Envs, \A g \in All(F) : g[1] = "fn" => g \in All(E),
           \A j \in Modules : F[j].by = 1 => E[j].by = 1
    PROVE  Calls(F) \subseteq Calls(E)
  <1>1. ASSUME NEW g \in Calls(F) PROVE g \in Calls(E)
    <2>1. g \in All(F) /\ g[1] = "fn" /\ F[g[2]].by = 1
      BY DEF Calls
    <2>2. g \in All(E) /\ g[2] \in Modules
      BY <2>1, AllTyped
    <2> QED
      BY <2>1, <2>2 DEF Calls
  <1> QED
    BY <1>1

LEMMA DropDeadFades ==
    ASSUME LoaderConstants, NEW E \in Envs
    PROVE  DropDead(E) \in Envs /\ Fades(E, DropDead(E))
  <1> DEFINE lost(k) == Cardinality({d \in Dead(E) : k \in Spaces(E[d].exports)})
                        + Cardinality({d \in Dead(E) : k \in Spaces(E[d].globals)})
  <1>1. E \in [Modules -> Entries] /\ DOMAIN E = Modules /\ Dead(E) \subseteq Modules
    BY ModFacts DEF Envs, Dead
  <1>2. PICK F : F = DropDead(E)
    OBVIOUS
  <1>3. F = [k \in Modules |-> IF k \in Dead(E) THEN Unused ELSE [E[k] EXCEPT !.refs = @ - lost(k)]]
    BY <1>1, <1>2 DEF DropDead, Dead
  <1>4. ASSUME NEW k \in Modules PROVE lost(k) \in Nat
    <2>1. \A S \in SUBSET Dead(E) : Cardinality(S) \in Nat
      BY <1>1, FiniteFacts
    <2>2. PICK a : a = Cardinality({d \in Dead(E) : k \in Spaces(E[d].exports)})
      OBVIOUS
    <2>3. PICK b : b = Cardinality({d \in Dead(E) : k \in Spaces(E[d].globals)})
      OBVIOUS
    <2>4. a \in Nat /\ b \in Nat
      BY <2>1, <2>2, <2>3
    <2> QED
      BY <2>2, <2>3, <2>4
  <1>5. ASSUME NEW k \in Modules
        PROVE  /\ F[k] \in Entries /\ F[k].globals \subseteq E[k].globals /\ F[k].exports \subseteq E[k].exports
               /\ F[k].by \in {E[k].by, 0}
    <2>1. CASE k \in Dead(E)
      <3>1. F[k] = Unused
        BY <1>3, <2>1
      <3> QED
        BY <3>1 DEF Unused, Entries
    <2>2. CASE k \notin Dead(E)
      <3>1. PICK n \in Nat : n = lost(k)
        BY <1>4
      <3>2. F[k] = [E[k] EXCEPT !.refs = @ - n]
        BY <1>3, <2>2, <3>1
      <3>3. E[k] \in Entries /\ E[k].refs \in Int
        BY <1>1 DEF Entries
      <3> QED
        BY <3>2, <3>3 DEF Entries
    <2> QED
      BY <2>1, <2>2
  <1> HIDE DEF lost
  <1>6. F \in Envs
    BY <1>3, <1>5 DEF Envs
  <1> QED
    BY <1>2, <1>5, <1>6 DEF Fades

LEMMA FadesTwice ==
    ASSUME NEW E, NEW F, NEW H, Fades(E, F), Fades(F, H)
    PROVE  Fades(E, H)
  BY DEF Fades

LEMMA DecrefFades ==
    ASSUME LoaderConstants, NEW E \in Envs, NEW S
    PROVE  Decref(E, S) \in Envs /\ Fades(E, Decref(E, S))
  <1> DEFINE K == Cardinality(Keys)
  <1>1. K \in Nat
    BY FiniteFacts
  <1>2. PICK f : /\ f[0] = Start(E, S)
                 /\ \A n \in 1 .. Cardinality(Keys) : f[n] = DropDead(f[n - 1])
                 /\ Decref(E, S) = f[Cardinality(Keys)]
    BY <1>1, DecrefRounds
  <1>3. f[0] \in Envs /\ Fades(E, f[0])
    <2>1. PICK G : G = f[0]
      OBVIOUS
    <2>2. G = [k \in Modules |-> IF k \in S THEN [E[k] EXCEPT !.refs = @ - 1] ELSE E[k]]
      BY <1>2, <2>1 DEF Start, Envs
    <2>3. ASSUME NEW k \in Modules
          PROVE  G[k] \in Entries /\ G[k].globals = E[k].globals /\ G[k].exports = E[k].exports /\ G[k].by = E[k].by
      <3>1. E[k] \in Entries /\ E[k].refs \in Int
        BY DEF Entries, Envs
      <3>2. G[k] = [E[k] EXCEPT !.refs = @ - 1] \/ G[k] = E[k]
        BY <2>2
      <3> QED
        BY <3>1, <3>2 DEF Entries
    <2> QED
      BY <2>1, <2>2, <2>3 DEF Envs, Fades
  <1> DEFINE T == {n \in Nat : n <= K => f[n] \in Envs /\ Fades(E, f[n])}
  <1>4. 0 \in T
    BY <1>3
  <1>5. ASSUME NEW n \in Nat, n \in T PROVE n + 1 \in T
    <2>1. ASSUME n + 1 <= K PROVE f[n + 1] \in Envs /\ Fades(E, f[n + 1])
      <3>1. n + 1 \in 1 .. K /\ n <= K /\ (n + 1) - 1 = n
        BY <1>1, <2>1
      <3>2. f[n + 1] = DropDead(f[n]) /\ f[n] \in Envs /\ Fades(E, f[n])
        BY <1>2, <1>5, <3>1
      <3> QED
        BY <3>2, DropDeadFades, FadesTwice
    <2> QED
      BY <2>1
  <1>6. K \in T
    <2> HIDE DEF T, K
    <2>1. Nat \subseteq T
      BY <1>4, <1>5, Induction
    <2> QED
      BY <1>1, <2>1
  <1>7. K <= K
    BY <1>1
  <1> QED
    BY <1>2, <1>6, <1>7

LEMMA IncrefFades ==
    ASSUME NEW E \in Envs, NEW S
    PROVE  Incref(E, S) \in Envs /\ Fades(E, Incref(E, S)) /\ Fades(Incref(E, S), E)
  <1>1. PICK G : G = Incref(E, S)
    OBVIOUS
  <1>2. G = [k \in Modules |-> IF k \in S THEN [E[k] EXCEPT !.refs = @ + 1] ELSE E[k]]
    BY <1>1 DEF Incref, Envs
  <1>3. ASSUME NEW k \in Modules
        PROVE  G[k] \in Entries /\ G[k].globals = E[k].globals /\ G[k].exports = E[k].exports /\ G[k].by = E[k].by
    <2>1. E[k] \in Entries /\ E[k].refs \in Int
      BY DEF Entries, Envs
    <2>2. G[k] = [E[k] EXCEPT !.refs = @ + 1] \/ G[k] = E[k]
      BY <1>2
    <2> QED
      BY <2>1, <2>2 DEF Entries
  <1> QED
    BY <1>1, <1>2, <1>3 DEF Envs, Fades

\* store_global puts G among the globals of one module, and releases.
LEMMA StoredFades ==
    ASSUME LoaderConstants, NEW E \in Envs, NEW to \in Modules, NEW G \in SUBSET Globals
    PROVE  /\ Stored(E, to, G) \in Envs
           /\ \A j \in Modules : Stored(E, to, G)[j].by \in {E[j].by, 0}
           /\ All(Stored(E, to, G)) \subseteq All(E) \cup G
  <1>1. PICK old : /\ old \subseteq E[to].globals
                   /\ Stored(E, to, G) = Decref([E EXCEPT ![to].globals = (@ \ old) \cup G], Spaces(old))
    BY DEF Stored
  <1>2. PICK e : e = [E[to] EXCEPT !.globals = (@ \ old) \cup G]
    OBVIOUS
  <1>3. /\ e \in Entries /\ e.globals = (E[to].globals \ old) \cup G /\ e.exports = E[to].exports
        /\ e.by = E[to].by
    <2>1. E[to] \in Entries
      BY DEF Envs
    <2> QED
      BY <1>2, <2>1 DEF Entries
  <1>4. PICK H : H = [E EXCEPT ![to] = e]
    OBVIOUS
  <1>5. Stored(E, to, G) = Decref(H, Spaces(old))
    BY <1>1, <1>2, <1>4
  <1>6. H \in Envs /\ H[to] = e /\ \A j \in Modules : j # to => H[j] = E[j]
    BY <1>3, <1>4 DEF Envs
  <1>7. PICK F : F = Stored(E, to, G)
    OBVIOUS
  <1>8. F \in Envs /\ Fades(H, F)
    BY <1>5, <1>6, <1>7, DecrefFades
  <1>9. \A j \in Modules : F[j].by \in {E[j].by, 0}
    BY <1>3, <1>6, <1>8 DEF Fades
  <1>10. ASSUME NEW g \in All(F) PROVE g \in All(E) \cup G
    <2>1. PICK j \in Modules : g \in F[j].globals \cup F[j].exports
      BY <1>10 DEF All
    <2>2. g \in H[j].globals \cup H[j].exports
      BY <1>8, <2>1 DEF Fades
    <2>3. g \in E[j].globals \cup E[j].exports \cup G
      BY <1>3, <1>6, <2>2
    <2> QED
      BY <2>3 DEF All
  <1> QED
    BY <1>7, <1>8, <1>9, <1>10

\* apply_import_mode hands out functions that somebody held already.
LEMMA AppliedCalls ==
    ASSUME LoaderConstants, NEW E \in Envs, NEW to \in Modules, NEW k \in Keys,
           NEW X \in SUBSET Globals, X \subseteq All(E), NEW mode \in Modes(X)
    PROVE  /\ Applied(E, to, k, mode) \in Envs
           /\ \A j \in Modules : Applied(E, to, k, mode)[j].by \in {E[j].by, 0}
           /\ Calls(Applied(E, to, k, mode)) \subseteq Calls(E)
  <1>1. PICK F : F = Applied(E, to, k, mode)
    OBVIOUS
  <1>2. ASSUME F \in Envs, \A j \in Modules : F[j].by \in {E[j].by, 0},
               NEW G, All(F) \subseteq All(E) \cup G, \A g \in G : g[1] = "fn" => g \in All(E)
        PROVE  /\ F \in Envs /\ Calls(F) \subseteq Calls(E)
               /\ \A j \in Modules : F[j].by \in {E[j].by, 0}
    <2>1. \A j \in Modules : F[j].by = 1 => E[j].by = 1
      BY <1>2
    <2>2. \A g \in All(F) : g[1] = "fn" => g \in All(E)
      BY <1>2
    <2> QED
      BY <1>2, <2>1, <2>2, FewerCalls
  <1>3. CASE mode.form = "whole"
    <2>1. PICK G : G = {<<"ns", k, 0>>}
      OBVIOUS
    <2>2. G \in SUBSET Globals /\ \A g \in G : g[1] = "fn" => g \in All(E)
      BY <2>1 DEF Globals
    <2>3. F = Stored(E, to, G)
      BY <1>1, <1>3, <2>1 DEF Applied
    <2>4. F \in Envs /\ (\A j \in Modules : F[j].by \in {E[j].by, 0}) /\ All(F) \subseteq All(E) \cup G
      BY <2>2, <2>3, StoredFades
    <2> QED
      BY <1>1, <1>2, <2>2, <2>4
  <1>4. CASE mode.form = "missing"
    <2>1. F = Decref(E, {k})
      BY <1>1, <1>4 DEF Applied
    <2>2. F \in Envs /\ Fades(E, F)
      BY <2>1, DecrefFades
    <2>3. All(F) \subseteq All(E) \cup {} /\ \A j \in Modules : F[j].by \in {E[j].by, 0}
      BY <2>2 DEF Fades, All
    <2> QED
      BY <1>1, <1>2, <2>2, <2>3
  <1>5. CASE mode.form = "names"
    <2>1. PICK H : H = Decref(Incref(E, Spaces(mode.names)), {k})
      OBVIOUS
    <2>2. F = Stored(H, to, mode.names)
      BY <1>1, <1>5, <2>1 DEF Applied
    <2>3. mode.names \subseteq X
      BY ModeFacts
    <2>4. H \in Envs /\ Fades(E, H)
      <3>1. PICK I : I = Incref(E, Spaces(mode.names))
        OBVIOUS
      <3>2. I \in Envs /\ Fades(E, I)
        BY <3>1, IncrefFades
      <3>3. H \in Envs /\ Fades(I, H)
        BY <2>1, <3>1, <3>2, DecrefFades
      <3> QED
        BY <3>2, <3>3, FadesTwice
    <2>5. /\ F \in Envs /\ \A j \in Modules : F[j].by \in {H[j].by, 0}
          /\ All(F) \subseteq All(H) \cup mode.names
      BY <2>2, <2>3, <2>4, StoredFades
    <2>6. All(H) \subseteq All(E) /\ \A j \in Modules : H[j].by \in {E[j].by, 0}
      BY <2>4 DEF Fades, All
    <2>7. /\ \A j \in Modules : F[j].by \in {E[j].by, 0}
          /\ All(F) \subseteq All(E) \cup mode.names /\ \A g \in mode.names : g[1] = "fn" => g \in All(E)
      BY <2>3, <2>5, <2>6
    <2> QED
      BY <1>1, <1>2, <2>5, <2>7
  <1> QED
    BY <1>3, <1>4, <1>5, ModeFacts

\* The modules whose templates a pipeline's tables hold, and the tables where the templates
\* of a module that the user's pipeline imported are: its own while it runs, then the user's.
Uses(v)    == {v.key} \cup {v.table[i] : i \in DOMAIN v.table}
TableOf(k) == IF Depth > 1 /\ k = vms[2].key THEN vms[2].table ELSE vms[1].table

\* Such a module's functions find their templates; the pipelines below its own have none.
OwnInv == /\ \A g \in Calls(env) : Resolves(g, TableOf(g[2]))
          /\ \A d \in 2 .. Depth : \A x \in Uses(vms[d]) : env[x].by = 1 => d = 2 /\ x = vms[2].key

LEMMA UsesTyped ==
    ASSUME Stack, NEW d \in 1 .. Depth
    PROVE  Uses(vms[d]) \subseteq Modules
  <1>1. vms[d] \in VMs
    BY DepthFacts
  <1>2. \A i \in DOMAIN vms[d].table : vms[d].table[i] \in Modules
    BY <1>1 DEF VMs
  <1> QED
    BY <1>1, <1>2 DEF Uses, VMs

\* A table that grows at its end loses nothing.
LEMMA ResolvesLonger ==
    ASSUME NEW s \in Seq(Modules), NEW t \in Seq(Modules), NEW g, Resolves(g, s)
    PROVE  Resolves(g, s \o t)
  <1>1. g[3] \in 1 .. Len(s) /\ s[g[3]] = g[2]
    BY DEF Resolves
  <1>2. \A i \in 1 .. Len(s) : i \in DOMAIN (s \o t) /\ (s \o t)[i] = s[i]
    OBVIOUS
  <1> QED
    BY <1>1, <1>2 DEF Resolves

\* The remap follows a child's templates into its importer's table.
LEMMA ResolvesMoved ==
    ASSUME NEW s \in Seq(Modules), NEW t \in Seq(Modules), NEW k, NEW n, Resolves(<<"fn", k, n>>, t)
    PROVE  Resolves(<<"fn", k, n + Len(s)>>, s \o t)
  <1>1. n \in 1 .. Len(t) /\ t[n] = k
    BY DEF Resolves
  <1>2. \A i \in 1 .. Len(t) : i + Len(s) \in DOMAIN (s \o t) /\ (s \o t)[i + Len(s)] = t[i]
    OBVIOUS
  <1>3. n + Len(s) \in DOMAIN (s \o t) /\ (s \o t)[n + Len(s)] = k
    BY <1>1, <1>2
  <1> QED
    BY <1>3 DEF Resolves

\* Pipelines whose keys and tables stay.
LEMMA QuietOwn ==
    ASSUME Stack, OwnInv, Depth' = Depth, Calls(env') \subseteq Calls(env),
           \A d \in 1 .. Depth : vms'[d].key = vms[d].key /\ vms'[d].table = vms[d].table,
           \A d \in 2 .. Depth : \A x \in Uses(vms[d]) : env'[x].by = 1 => env[x].by = 1
    PROVE  OwnInv'
  <1>1. Depth \in Nat \ {0}
    BY DepthFacts
  <1>2. 1 \in 1 .. Depth /\ (Depth > 1 => 2 \in 1 .. Depth) /\ \A d \in 2 .. Depth : d \in 1 .. Depth /\ Depth > 1
    BY <1>1
  <1>3. \A k : TableOf(k)' = TableOf(k)
    BY <1>2 DEF TableOf
  <1>4. \A d \in 2 .. Depth : Uses(vms'[d]) = Uses(vms[d])
    BY <1>2 DEF Uses
  <1>5. \A g \in Calls(env') : Resolves(g, TableOf(g[2])')
    BY <1>3 DEF OwnInv
  <1>6. \A d \in 2 .. Depth' : \A x \in Uses(vms'[d]) : env'[x].by = 1 => d = 2 /\ x = vms'[2].key
    BY <1>2, <1>4 DEF OwnInv
  <1> QED
    BY <1>5, <1>6 DEF OwnInv

LEMMA CacheHitOwn ==
    ASSUME LoaderConstants, IInv, OwnInv, NEW k \in Keys, CacheHit(k)
    PROVE  OwnInv'
  <1>1. PICK mode \in Modes(env[k].exports) : env' = Applied(Incref(env, {k}), Cur.key, k, mode)
    BY DEF CacheHit
  <1>2. vms' = vms /\ Depth' = Depth
    BY DEF CacheHit, Depth
  <1>3. env \in Envs /\ Cur.key \in Modules /\ k \in Modules
    BY StartFacts, ModFacts DEF Envs
  <1>4. PICK E : E = Incref(env, {k})
    OBVIOUS
  <1>5. E \in Envs /\ Fades(env, E) /\ Fades(E, env)
    BY <1>3, <1>4, IncrefFades
  <1>6. env[k].exports \in SUBSET Globals /\ env[k].exports \subseteq All(E)
    BY <1>3, <1>5 DEF Envs, Entries, Fades, All
  <1>7. /\ Calls(env') \subseteq Calls(E) /\ \A j \in Modules : env'[j].by \in {E[j].by, 0}
    BY <1>1, <1>3, <1>4, <1>5, <1>6, AppliedCalls
  <1>8. Calls(E) \subseteq Calls(env) /\ \A j \in Modules : E[j].by = 1 => env[j].by = 1
    <2>1. (\A j \in Modules : E[j].by = 1 => env[j].by = 1) /\ \A g \in All(E) : g \in All(env)
      BY <1>5 DEF Fades, All
    <2> QED
      BY <1>3, <1>5, <2>1, FewerCalls
  <1>9. \A d \in 2 .. Depth : \A x \in Uses(vms[d]) : env'[x].by = 1 => env[x].by = 1
    <2>1. ASSUME NEW d \in 2 .. Depth, NEW x \in Uses(vms[d]) PROVE x \in Modules
      BY <2>1, UsesTyped, DepthFacts DEF IInv, MarkInv
    <2> QED
      BY <1>7, <1>8, <2>1
  <1> QED
    BY <1>2, <1>7, <1>8, <1>9, QuietOwn DEF IInv, MarkInv

LEMMA ForgetOwn ==
    ASSUME LoaderConstants, IInv, OwnInv, NEW g, Forget(g)
    PROVE  OwnInv'
  <1>1. PICK k : k = Cur.key
    OBVIOUS
  <1>2. env' = Decref([env EXCEPT ![k].globals = @ \ {g}], Spaces({g})) /\ vms' = vms /\ Depth' = Depth
    BY <1>1 DEF Forget, Depth
  <1>3. env \in Envs /\ k \in Modules
    BY <1>1, StartFacts DEF Envs
  <1>4. PICK e : e = [env[k] EXCEPT !.globals = @ \ {g}]
    OBVIOUS
  <1>5. e \in Entries /\ e.globals \subseteq env[k].globals /\ e.exports = env[k].exports /\ e.by = env[k].by
    <2>1. env[k] \in Entries
      BY <1>3 DEF Envs
    <2> QED
      BY <1>4, <2>1 DEF Entries
  <1>6. PICK E : E = [env EXCEPT ![k] = e]
    OBVIOUS
  <1>7. E \in Envs /\ Fades(env, E)
    BY <1>3, <1>5, <1>6 DEF Envs, Fades
  <1>8. env' = Decref(E, Spaces({g}))
    BY <1>2, <1>4, <1>6
  <1>9. env' \in Envs /\ Fades(env, env')
    BY <1>7, <1>8, DecrefFades, FadesTwice
  <1>10. (\A j \in Modules : env'[j].by = 1 => env[j].by = 1) /\ \A h \in All(env') : h \in All(env)
    BY <1>9 DEF Fades, All
  <1>11. Calls(env') \subseteq Calls(env)
    BY <1>3, <1>9, <1>10, FewerCalls
  <1>12. \A d \in 2 .. Depth : \A x \in Uses(vms[d]) : env'[x].by = 1 => env[x].by = 1
    <2>1. ASSUME NEW d \in 2 .. Depth, NEW x \in Uses(vms[d]) PROVE x \in Modules
      BY <2>1, UsesTyped, DepthFacts DEF IInv, MarkInv
    <2> QED
      BY <1>10, <2>1
  <1> QED
    BY <1>2, <1>11, <1>12, QuietOwn DEF IInv, MarkInv

LEMMA LoadPluginOwn ==
    ASSUME LoaderConstants, IInv, OwnInv, NEW k \in Keys, LoadPlugin(k)
    PROVE  OwnInv'
  <1>1. k \in Plugins /\ k \in Modules /\ k \notin Mods
    BY ModFacts DEF LoadPlugin
  <1>2. PICK e : e = [Unused EXCEPT !.st = "live", !.refs = OwnersAtBirth, !.by = Depth]
    OBVIOUS
  <1>3. PICK E : E = [env EXCEPT ![k] = e]
    OBVIOUS
  <1>4. PICK mode \in Modes({}) : env' = Applied(E, Cur.key, k, mode)
    BY <1>2, <1>3 DEF LoadPlugin
  <1>5. env \in Envs /\ Cur.key \in Modules /\ Depth \in Nat \ {0}
    BY StartFacts, DepthFacts DEF Envs, IInv, MarkInv
  <1>6. e \in Entries /\ e.globals = {} /\ e.exports = {} /\ e.by = Depth
    <2>1. e = [st |-> "live", refs |-> 2, globals |-> {}, exports |-> {}, by |-> Depth]
      BY <1>2 DEF Unused, OwnersAtBirth
    <2> QED
      BY <1>5, <2>1 DEF Entries
  <1>7. E \in Envs /\ E[k] = e /\ \A j \in Modules : j # k => E[j] = env[j]
    BY <1>1, <1>3, <1>5, <1>6 DEF Envs
  <1>8. Calls(env') \subseteq Calls(E) /\ \A j \in Modules : env'[j].by \in {E[j].by, 0}
    <2>1. {} \in SUBSET Globals /\ {} \subseteq All(E)
      OBVIOUS
    <2> QED
      BY <1>4, <1>5, <1>7, <2>1, AppliedCalls
  <1>9. Calls(E) \subseteq Calls(env)
    <2>1. ASSUME NEW g \in Calls(E) PROVE g \in Calls(env)
      <3>1. g \in All(E) /\ g[1] = "fn" /\ E[g[2]].by = 1 /\ g[2] \in Mods /\ g[2] \in Modules
        BY <1>7, AllTyped DEF Calls
      <3>2. g \in All(env)
        BY <1>6, <1>7, <3>1 DEF All
      <3> QED
        BY <1>1, <1>7, <3>1, <3>2 DEF Calls
    <2> QED
      BY <2>1
  <1>10. PICK v : v = [Cur EXCEPT !.plugins = @ \cup {k}]
    OBVIOUS
  <1>11. Cur \in VMs /\ Cur = vms[Depth] /\ vms' = [vms EXCEPT ![Depth] = v]
    BY <1>10, DepthFacts DEF LoadPlugin, IInv, MarkInv
  <1>12. v \in VMs /\ v.key = Cur.key /\ v.table = Cur.table
    BY <1>1, <1>10, <1>11 DEF VMs
  <1>13. /\ Depth' = Depth /\ vms'[Depth] = v /\ \A d \in 1 .. Depth : d # Depth => vms'[d] = vms[d]
    BY <1>11, <1>12, KeptStack DEF IInv, MarkInv
  <1>14. \A d \in 1 .. Depth : vms'[d].key = vms[d].key /\ vms'[d].table = vms[d].table
    BY <1>11, <1>12, <1>13
  <1>15. ASSUME NEW d \in 2 .. Depth, NEW x \in Uses(vms[d]), env'[x].by = 1 PROVE env[x].by = 1
    <2>1. x \in Modules /\ Depth # 1
      BY <1>15, UsesTyped, DepthFacts DEF IInv, MarkInv
    <2>2. E[x].by = 1
      BY <1>8, <1>15, <2>1
    <2> QED
      BY <1>6, <1>7, <2>1, <2>2
  <1> QED
    BY <1>8, <1>9, <1>13, <1>14, <1>15, QuietOwn DEF IInv, MarkInv

LEMMA EnterOwn ==
    ASSUME LoaderConstants, IInv, OwnInv, NEW k \in Keys, Enter(k)
    PROVE  OwnInv'
  <1>1. k \in Mods /\ k \notin cache /\ k \notin marks /\ k \in Modules /\ k # User
    BY ModFacts DEF Enter
  <1>2. PICK e : e = [Unused EXCEPT !.st = "running", !.globals = {<<"fn", k, 1>>}, !.by = Depth]
    OBVIOUS
  <1>3. PICK v : v = [key |-> k, table |-> <<k>>, plugins |-> {}]
    OBVIOUS
  <1>4. env' = [env EXCEPT ![k] = e] /\ vms' = Append(vms, v)
    BY <1>2, <1>3 DEF Enter
  <1>5. env \in Envs /\ Depth \in Nat \ {0} /\ marks = Running /\ Stack /\ Nested
    BY StartFacts, DepthFacts DEF Envs, IInv, MarkInv
  <1>6. e.globals = {<<"fn", k, 1>>} /\ e.exports = {} /\ e.by = Depth
    <2>1. e = [st |-> "running", refs |-> 0, globals |-> {<<"fn", k, 1>>}, exports |-> {}, by |-> Depth]
      BY <1>2 DEF Unused
    <2> QED
      BY <2>1
  <1>7. env'[k] = e /\ \A j \in Modules : j # k => env'[j] = env[j]
    BY <1>1, <1>4, <1>5 DEF Envs
  <1>8. /\ v \in VMs /\ v.key = k /\ v.table = <<k>> /\ Uses(v) = {k}
    <2>1. <<k>> \in Seq(Modules) /\ DOMAIN <<k>> = {1} /\ <<k>>[1] = k
      BY <1>1, OneElement
    <2> QED
      BY <1>3, <2>1 DEF VMs, Uses
  <1>9. /\ Depth' = Depth + 1 /\ Cur' = v /\ \A d \in 1 .. Depth : vms'[d] = vms[d]
    BY <1>1, <1>4, <1>5, <1>8, GrownStack
  <1>10. vms'[Depth + 1] = v
    BY <1>9 DEF Cur
  <1>11. \A g \in Calls(env') : (g = <<"fn", k, 1>> /\ Depth = 1) \/ (g \in Calls(env) /\ g[2] # k)
    <2>1. ASSUME NEW g \in Calls(env') PROVE (g = <<"fn", k, 1>> /\ Depth = 1) \/ (g \in Calls(env) /\ g[2] # k)
      <3>1. PICK j \in Modules : g \in env'[j].globals \cup env'[j].exports
        BY DEF Calls, All
      <3>2. g[1] = "fn" /\ env'[g[2]].by = 1
        BY DEF Calls
      <3>3. CASE j = k
        <4>1. g = <<"fn", k, 1>>
          BY <1>6, <1>7, <3>1, <3>3
        <4>2. g[2] = k
          BY <4>1
        <4>3. env'[k].by = 1
          BY <3>2, <4>2
        <4> QED
          BY <1>6, <1>7, <4>1, <4>3
      <3>4. CASE j # k
        <4>1. g \in env[j].globals \cup env[j].exports /\ g \in All(env)
          BY <1>7, <3>1, <3>4 DEF All
        <4>2. g[2] # k
          BY <1>1, <3>4, <4>1 DEF IInv, EnvInv, EnvGood, Reaches
        <4>3. g[2] \in Modules
          BY <1>5, <3>2, <4>1, AllTyped
        <4> QED
          BY <1>7, <3>2, <4>1, <4>2, <4>3 DEF Calls
      <3> QED
        BY <3>3, <3>4
    <2> QED
      BY <2>1
  <1>12. ASSUME NEW g \in Calls(env') PROVE Resolves(g, TableOf(g[2])')
    <2>1. CASE g = <<"fn", k, 1>> /\ Depth = 1
      <3>1. Depth' = 2 /\ vms'[2] = v
        BY <1>9, <1>10, <2>1
      <3>2. TableOf(g[2])' = <<k>>
        BY <1>8, <2>1, <3>1 DEF TableOf
      <3>3. DOMAIN <<k>> = {1} /\ <<k>>[1] = k
        OBVIOUS
      <3> QED
        BY <2>1, <3>2, <3>3 DEF Resolves
    <2>2. CASE g \in Calls(env) /\ g[2] # k
      <3>1. Resolves(g, TableOf(g[2]))
        BY <2>2 DEF OwnInv
      <3>2. vms'[1] = vms[1] /\ Depth' > 1
        BY <1>5, <1>9
      <3>3. CASE Depth = 1
        <4>1. vms'[2].key = k /\ ~(Depth > 1)
          BY <1>8, <1>10, <3>3
        <4>2. TableOf(g[2])' = vms'[1].table /\ TableOf(g[2]) = vms[1].table
          BY <2>2, <4>1 DEF TableOf
        <4> QED
          BY <3>1, <3>2, <4>2
      <3>4. CASE Depth # 1
        <4>1. vms'[2] = vms[2] /\ Depth > 1
          BY <1>5, <1>9, <3>4
        <4>2. TableOf(g[2])' = TableOf(g[2])
          BY <3>2, <4>1 DEF TableOf
        <4> QED
          BY <3>1, <4>2
      <3> QED
        BY <3>3, <3>4
    <2> QED
      BY <1>11, <2>1, <2>2
  <1>13. ASSUME NEW d \in 2 .. Depth', NEW x \in Uses(vms'[d]), env'[x].by = 1
         PROVE  d = 2 /\ x = vms'[2].key
    <2>1. CASE d = Depth + 1
      <3>1. x = k
        BY <1>8, <1>10, <1>13, <2>1
      <3>2. Depth = 1
        BY <1>6, <1>7, <1>13, <3>1
      <3> QED
        BY <1>8, <1>10, <2>1, <3>1, <3>2
    <2>2. CASE d # Depth + 1
      <3>1. d \in 2 .. Depth /\ d \in 1 .. Depth /\ 2 \in 1 .. Depth /\ Depth > 1
        BY <1>5, <1>9, <2>2
      <3>2. vms'[d] = vms[d] /\ vms'[2] = vms[2] /\ x \in Uses(vms[d]) /\ x \in Modules
        BY <1>5, <1>9, <1>13, <3>1, UsesTyped
      <3>3. x # k
        BY <1>6, <1>7, <1>13, <3>1
      <3>4. env[x].by = 1
        BY <1>7, <1>13, <3>2, <3>3
      <3> QED
        BY <3>1, <3>2, <3>4 DEF OwnInv
    <2> QED
      BY <2>1, <2>2
  <1> QED
    BY <1>12, <1>13 DEF OwnInv

LEMMA DefineOwn ==
    ASSUME LoaderConstants, IInv, OwnInv, Define
    PROVE  OwnInv'
  <1>1. Depth = 1 /\ env' = env /\ vms' = [vms EXCEPT ![1].table = Append(@, User)]
    BY DEF Define
  <1>2. /\ Stack /\ DOMAIN vms = 1 .. Depth /\ vms[1] \in VMs /\ vms[1].table \in Seq(Modules)
    BY <1>1, DepthFacts DEF IInv, MarkInv, VMs
  <1>3. vms'[1].table = vms[1].table \o <<User>>
    BY <1>1, <1>2 DEF VMs
  <1>4. Depth' = 1
    BY <1>1, <1>2 DEF Depth, Stack
  <1>5. ~(1 > 1) /\ 2 .. 1 = {} /\ <<User>> \in Seq(Modules)
    BY ModFacts, OneElement
  <1>6. \A k : TableOf(k) = vms[1].table /\ TableOf(k)' = vms'[1].table
    BY <1>1, <1>4, <1>5 DEF TableOf
  <1>7. ASSUME NEW g \in Calls(env) PROVE Resolves(g, TableOf(g[2])')
    <2>1. Resolves(g, vms[1].table)
      BY <1>6 DEF OwnInv
    <2> QED
      BY <1>2, <1>3, <1>5, <1>6, <2>1, ResolvesLonger
  <1> QED
    BY <1>1, <1>4, <1>5, <1>7 DEF OwnInv

\* A pipeline ends.  What its module leaves are functions of other modules, and, one level
\* below the user's, its own that were moved with their templates.
LEMMA PoppedOwn ==
    ASSUME LoaderConstants, IInv, OwnInv, Depth > 1, NEW t, t \in {Caller.table, Transplanted}, vms' = Popped(t),
           \A j \in Modules : env'[j].by = 1 => env[j].by = 1,
           \A g \in Calls(env') : \/ g \in Calls(env) /\ g[2] # Cur.key
                                  \/ Depth = 2 /\ g[2] = Cur.key /\ Resolves(g, t)
    PROVE  OwnInv'
  <1>1. /\ Stack /\ Nested /\ Depth \in Nat \ {0} /\ Cur = vms[Depth] /\ Caller = vms[Depth - 1]
        /\ Cur \in VMs /\ Caller \in VMs
    BY DepthFacts DEF IInv, MarkInv
  <1>2. Cur.table \in Seq(Modules) /\ Caller.table \in Seq(Modules) /\ t \in Seq(Modules)
    <2>1. Cur.table \in Seq(Modules) /\ Caller.table \in Seq(Modules)
      BY <1>1 DEF VMs
    <2>2. \A a, b \in Seq(Modules) : a \o b \in Seq(Modules)
      OBVIOUS
    <2> QED
      BY <2>1, <2>2 DEF Transplanted
  <1>3. /\ Depth' = Depth - 1 /\ Cur' = [Caller EXCEPT !.table = t]
        /\ \A d \in 1 .. (Depth - 1) : vms'[d].key = vms[d].key
        /\ \A d \in 1 .. (Depth - 2) : vms'[d] = vms[d]
    BY <1>1, <1>2, PoppedStack
  <1>4. vms'[Depth - 1] = Cur' /\ Cur'.table = t
    BY <1>1, <1>3 DEF Cur, VMs
  <1>5. \A d \in 1 .. (Depth - 1) : \A g : Resolves(g, vms[d].table) => Resolves(g, vms'[d].table)
    <2>1. ASSUME NEW d \in 1 .. (Depth - 1), NEW g, Resolves(g, vms[d].table) PROVE Resolves(g, vms'[d].table)
      <3>1. CASE d = Depth - 1
        <4>1. Resolves(g, Caller.table) /\ vms'[d].table = t
          BY <1>1, <1>4, <2>1, <3>1
        <4>2. t = Caller.table \/ t = Caller.table \o Cur.table
          BY DEF Transplanted
        <4> QED
          BY <1>2, <4>1, <4>2, ResolvesLonger
      <3>2. CASE d # Depth - 1
        <4>1. d \in 1 .. (Depth - 2)
          BY <1>1, <3>2
        <4> QED
          BY <1>3, <2>1, <4>1
      <3> QED
        BY <3>1, <3>2
    <2> QED
      BY <2>1
  <1>6. 1 \in 1 .. (Depth - 1) /\ (Depth > 2 => 2 \in 1 .. (Depth - 1) /\ Depth - 1 > 1) /\ (Depth = 2 => ~(Depth - 1 > 1))
        /\ (Depth = 2 \/ Depth > 2)
    BY <1>1
  <1>7. ASSUME NEW g \in Calls(env') PROVE Resolves(g, TableOf(g[2])')
    <2>1. CASE Depth = 2
      <3>1. TableOf(g[2])' = vms'[1].table /\ vms'[1].table = t
        <4>1. Depth - 1 = 1 /\ Depth' = 1 /\ ~(1 > 1)
          BY <1>3, <2>1
        <4> QED
          BY <1>4, <4>1 DEF TableOf
      <3>2. CASE g \in Calls(env) /\ g[2] # Cur.key
        <4>1. TableOf(g[2]) = vms[1].table
          BY <1>1, <2>1, <3>2 DEF TableOf
        <4>2. Resolves(g, vms[1].table)
          BY <3>2, <4>1 DEF OwnInv
        <4> QED
          BY <1>5, <1>6, <3>1, <4>2
      <3>3. CASE Resolves(g, t)
        BY <3>1, <3>3
      <3> QED
        BY <3>2, <3>3
    <2>2. CASE Depth > 2
      <3>1. g \in Calls(env) /\ Depth # 2
        BY <1>1, <2>2
      <3>2. Resolves(g, TableOf(g[2])) /\ vms'[2].key = vms[2].key /\ Depth' > 1 /\ Depth > 1
        BY <1>3, <1>6, <2>2, <3>1 DEF OwnInv
      <3>3. CASE g[2] = vms[2].key
        <4>1. TableOf(g[2]) = vms[2].table /\ TableOf(g[2])' = vms'[2].table
          BY <3>2, <3>3 DEF TableOf
        <4> QED
          BY <1>5, <1>6, <2>2, <3>2, <4>1
      <3>4. CASE g[2] # vms[2].key
        <4>1. TableOf(g[2]) = vms[1].table /\ TableOf(g[2])' = vms'[1].table
          BY <3>2, <3>4 DEF TableOf
        <4> QED
          BY <1>5, <1>6, <3>2, <4>1
      <3> QED
        BY <3>3, <3>4
    <2> QED
      BY <1>6, <2>1, <2>2
  <1>8. ASSUME NEW d \in 2 .. Depth', NEW x \in Uses(vms'[d]), env'[x].by = 1
        PROVE  d = 2 /\ x = vms'[2].key
    <2>1. /\ d \in 2 .. (Depth - 1) /\ d \in 2 .. Depth /\ d \in 1 .. (Depth - 1) /\ d \in 1 .. Depth
          /\ 2 \in 1 .. (Depth - 1) /\ Depth \in 2 .. Depth /\ Depth # 2 /\ Depth \in 1 .. Depth
      BY <1>1, <1>3
    <2>2. x \in Uses(vms[d]) \/ x \in Uses(Cur)
      <3>1. CASE d = Depth - 1
        <4>1. Uses(vms'[d]) = {Caller.key} \cup {t[i] : i \in DOMAIN t}
          <5>1. PICK w : w = vms'[d]
            OBVIOUS
          <5>2. w.table = t /\ w.key = Caller.key
            BY <1>1, <1>3, <1>4, <2>1, <3>1, <5>1
          <5> QED
            BY <5>1, <5>2 DEF Uses
        <4>2. \A i \in DOMAIN t : \/ \E n \in DOMAIN Caller.table : t[i] = Caller.table[n]
                                  \/ \E n \in DOMAIN Cur.table : t[i] = Cur.table[n]
          <5>1. CASE t = Caller.table
            BY <5>1
          <5>2. CASE t = Caller.table \o Cur.table
            <6>1. ASSUME NEW a \in Seq(Modules), NEW b \in Seq(Modules), NEW i \in DOMAIN (a \o b)
                  PROVE  \/ i \in DOMAIN a /\ (a \o b)[i] = a[i]
                         \/ i - Len(a) \in DOMAIN b /\ (a \o b)[i] = b[i - Len(a)]
              OBVIOUS
            <6>2. ASSUME NEW i \in DOMAIN t
                  PROVE  \/ i \in DOMAIN Caller.table /\ t[i] = Caller.table[i]
                         \/ i - Len(Caller.table) \in DOMAIN Cur.table /\ t[i] = Cur.table[i - Len(Caller.table)]
              BY <1>2, <5>2, <6>1, <6>2
            <6> QED
              BY <6>2
          <5> QED
            BY <5>1, <5>2 DEF Transplanted
        <4> QED
          BY <1>1, <1>8, <3>1, <4>1, <4>2 DEF Uses
      <3>2. CASE d # Depth - 1
        <4>1. d \in 1 .. (Depth - 2)
          BY <1>1, <2>1, <3>2
        <4> QED
          BY <1>3, <1>8, <4>1
      <3> QED
        BY <3>1, <3>2
    <2>3. x \in Modules
      BY <1>1, <2>1, <2>2, UsesTyped
    <2>4. env[x].by = 1
      BY <1>8, <2>3
    <2>5. x \notin Uses(Cur)
      BY <1>1, <2>1, <2>4 DEF OwnInv
    <2> QED
      BY <1>3, <2>1, <2>2, <2>4, <2>5 DEF OwnInv
  <1> QED
    BY <1>7, <1>8 DEF OwnInv

LEMMA RemapCases ==
    ASSUME NEW S, NEW table, NEW base, NEW g \in Remapped(S, table, base)
    PROVE  \E h \in S : \/ h[1] = "fn" /\ Resolves(h, table) /\ g = <<"fn", h[2], h[3] + base>>
                        \/ ~(h[1] = "fn" /\ Resolves(h, table)) /\ g = h
  BY DEF Remapped

\* What the other modules hold is not of the module that runs on top.
LEMMA OthersCalls ==
    ASSUME LoaderConstants, IInv, Depth > 1, NEW j \in Modules, j # Cur.key,
           NEW g \in env[j].globals \cup env[j].exports, g[1] = "fn", env[g[2]].by = 1
    PROVE  g \in Calls(env) /\ g[2] # Cur.key
  <1>1. g \in Calls(env)
    BY DEF Calls, All
  <1>2. Cur.key \notin cache
    BY StartFacts DEF IInv, MarkInv
  <1> QED
    BY <1>1, <1>2 DEF IInv, EnvInv, EnvGood, Reaches

LEMMA FinishOwn ==
    ASSUME LoaderConstants, IInv, OwnInv, Finish
    PROVE  OwnInv'
  <1>0. Depth > 1 /\ vms' = Popped(Transplanted)
    BY DEF Finish, HasCaller
  <1>1. PICK k, to, n : k = Cur.key /\ to = Caller.key /\ n = Len(Caller.table)
    OBVIOUS
  <1>2. /\ Depth \in 2 .. Depth /\ Cur = vms[Depth] /\ Cur \in VMs /\ Caller \in VMs /\ n \in Nat
        /\ Cur.table \in Seq(Modules) /\ Caller.table \in Seq(Modules)
    <2>1. Depth \in 2 .. Depth /\ Cur = vms[Depth] /\ Cur \in VMs /\ Caller \in VMs
      BY <1>0, DepthFacts DEF IInv, MarkInv
    <2> QED
      BY <1>1, <2>1 DEF VMs
  <1>3. k \in Modules /\ k \in Keys /\ to \in Modules /\ env \in Envs /\ env[k] \in Entries
        /\ env[k].globals \in SUBSET Globals
    BY <1>0, <1>1, StartFacts, ModFacts DEF Envs
  <1>4. PICK globals : globals = Remapped(env[k].globals, Cur.table, n)
    OBVIOUS
  <1>5. PICK X : X = IF k \in Closed THEN {g \in globals : g[2] = k} ELSE globals
    OBVIOUS
  <1>6. PICK e : e = [env[k] EXCEPT !.st = "live", !.refs = OwnersAtBirth, !.globals = globals, !.exports = X]
    OBVIOUS
  <1>7. PICK E, F : E = [env EXCEPT ![k] = e] /\ F = Incref(E, Spaces(X))
    OBVIOUS
  <1>8. PICK mode \in Modes(X) : env' = Applied(F, to, k, mode)
    BY <1>1, <1>4, <1>5, <1>6, <1>7 DEF Finish
  <1>9. globals \in SUBSET Globals /\ X \subseteq globals
    <2>1. globals \in SUBSET Globals
      BY <1>2, <1>3, <1>4, RemapFacts
    <2> QED
      BY <1>5, <2>1
  <1>10. e \in Entries /\ e.globals = globals /\ e.exports = X /\ e.by = env[k].by
    <2>1. PICK x : x = env[k]
      OBVIOUS
    <2>2. x.by \in Nat
      BY <1>3, <2>1 DEF Entries
    <2>3. e = [st |-> "live", refs |-> 2, globals |-> globals, exports |-> X, by |-> x.by]
      BY <1>3, <1>6, <2>1 DEF Entries, OwnersAtBirth
    <2> QED
      BY <1>9, <2>1, <2>2, <2>3 DEF Entries
  <1>11. E \in Envs /\ E[k] = e /\ \A j \in Modules : j # k => E[j] = env[j]
    BY <1>3, <1>7, <1>10 DEF Envs
  <1>12. F \in Envs /\ Fades(E, F) /\ Fades(F, E)
    BY <1>7, <1>11, IncrefFades
  <1>13. \A j \in Modules : E[j].by = env[j].by
    BY <1>10, <1>11
  <1>14. /\ Calls(env') \subseteq Calls(E) /\ \A j \in Modules : env'[j].by = 1 => env[j].by = 1
    <2>1. X \in SUBSET Globals /\ X \subseteq All(F)
      BY <1>3, <1>9, <1>10, <1>11, <1>12 DEF Fades, All
    <2>2. Calls(env') \subseteq Calls(F) /\ \A j \in Modules : env'[j].by \in {F[j].by, 0}
      BY <1>3, <1>8, <1>12, <2>1, AppliedCalls
    <2>3. (\A g \in All(F) : g \in All(E)) /\ \A j \in Modules : F[j].by \in {E[j].by, 0}
      BY <1>12 DEF Fades, All
    <2>4. Calls(F) \subseteq Calls(E)
      BY <1>11, <1>12, <2>3, FewerCalls
    <2>5. \A j \in Modules : env'[j].by = 1 => env[j].by = 1
      BY <1>13, <2>2, <2>3
    <2> QED
      BY <2>2, <2>4, <2>5
  <1>15. ASSUME NEW x \in Uses(Cur), env[x].by = 1 PROVE Depth = 2 /\ x = k /\ k = vms[2].key
    <2>1. Depth = 2 /\ x = vms[2].key
      BY <1>2, <1>15 DEF OwnInv
    <2> QED
      BY <1>1, <1>2, <2>1
  <1>16. ASSUME NEW g \in Calls(E)
         PROVE  \/ g \in Calls(env) /\ g[2] # k
                \/ Depth = 2 /\ g[2] = k /\ Resolves(g, Transplanted)
    <2>1. PICK j \in Modules : g \in E[j].globals \cup E[j].exports
      BY DEF Calls, All
    <2>2. g[1] = "fn" /\ env[g[2]].by = 1
      <3>1. g[1] = "fn" /\ E[g[2]].by = 1 /\ g[2] \in Modules
        BY <1>11, AllTyped DEF Calls
      <3> QED
        BY <1>13, <3>1
    <2>3. CASE j # k
      <3>1. g \in env[j].globals \cup env[j].exports
        BY <1>11, <2>1, <2>3
      <3> QED
        BY <1>0, <1>1, <2>2, <2>3, <3>1, OthersCalls
    <2>4. CASE j = k
      <3>1. g \in globals
        BY <1>9, <1>10, <1>11, <2>1, <2>4
      <3>2. PICK h \in env[k].globals :
                \/ h[1] = "fn" /\ Resolves(h, Cur.table) /\ g = <<"fn", h[2], h[3] + n>>
                \/ ~(h[1] = "fn" /\ Resolves(h, Cur.table)) /\ g = h
        BY <1>4, <3>1, RemapCases
      <3>3. h[1] = "fn" /\ h[2] = g[2]
        BY <2>2, <3>2
      <3>4. h \in Calls(env) /\ h = <<"fn", h[2], h[3]>>
        <4>1. h \in All(env)
          BY <1>3 DEF All
        <4> QED
          BY <1>3, <2>2, <3>3, <4>1, AllTyped DEF Calls
      <3>5. CASE Resolves(h, Cur.table)
        <4>1. h[2] \in Uses(Cur)
          BY <3>5 DEF Resolves, Uses
        <4>2. Depth = 2 /\ h[2] = k
          BY <1>15, <2>2, <3>3, <4>1
        <4>3. g = <<"fn", k, h[3] + n>> /\ Resolves(<<"fn", k, h[3]>>, Cur.table)
          BY <3>2, <3>3, <3>4, <3>5, <4>2
        <4>4. Resolves(<<"fn", k, h[3] + Len(Caller.table)>>, Caller.table \o Cur.table)
          BY <1>2, <4>3, ResolvesMoved
        <4> QED
          BY <1>1, <3>3, <4>2, <4>3, <4>4 DEF Transplanted
      <3>6. CASE ~Resolves(h, Cur.table)
        <4>1. g = h
          BY <3>2, <3>6
        <4>2. ASSUME h[2] = k PROVE FALSE
          <5>1. h[2] \in Uses(Cur)
            BY <1>1, <4>2 DEF Uses
          <5>2. Depth = 2 /\ k = vms[2].key
            BY <1>15, <2>2, <3>3, <5>1
          <5>3. TableOf(h[2]) = Cur.table
            BY <1>0, <1>2, <4>2, <5>2 DEF TableOf
          <5> QED
            BY <3>4, <3>6, <5>3 DEF OwnInv
        <4> QED
          BY <3>4, <4>1, <4>2
      <3> QED
        BY <3>5, <3>6
    <2> QED
      BY <2>3, <2>4
  <1>17. \A g \in Calls(env') : \/ g \in Calls(env) /\ g[2] # Cur.key
                                \/ Depth = 2 /\ g[2] = Cur.key /\ Resolves(g, Transplanted)
    BY <1>1, <1>14, <1>16
  <1> QED
    BY <1>0, <1>14, <1>17, PoppedOwn

LEMMA FailOwn ==
    ASSUME LoaderConstants, IInv, OwnInv, NEW late \in BOOLEAN, Fail(late)
    PROVE  OwnInv'
  <1>1. PICK k, t : k = Cur.key /\ t = IF late THEN Transplanted ELSE Caller.table
    OBVIOUS
  <1>2. /\ Depth > 1 /\ vms' = Popped(t) /\ t \in {Caller.table, Transplanted}
        /\ env' = Decref([env EXCEPT ![k] = Unused], Spaces(env[k].globals))
    BY <1>1 DEF Fail, HasCaller, Cleared
  <1>3. k \in Modules /\ env \in Envs
    BY <1>1, StartFacts DEF Envs
  <1>4. Unused \in Entries /\ Unused.globals = {} /\ Unused.exports = {} /\ Unused.by = 0
    BY DEF Unused, Entries
  <1>5. PICK E : E = [env EXCEPT ![k] = Unused]
    OBVIOUS
  <1>6. E \in Envs /\ E[k] = Unused /\ \A j \in Modules : j # k => E[j] = env[j]
    BY <1>3, <1>4, <1>5 DEF Envs
  <1>7. env' \in Envs /\ Fades(E, env')
    BY <1>2, <1>5, <1>6, DecrefFades
  <1>8. \A j \in Modules : env'[j].by = 1 => j # k /\ env[j].by = 1
    <2>1. ASSUME NEW j \in Modules, env'[j].by = 1 PROVE j # k /\ env[j].by = 1
      <3>1. E[j].by = 1
        BY <1>7, <2>1 DEF Fades
      <3> QED
        BY <1>4, <1>6, <3>1
    <2> QED
      BY <2>1
  <1>9. ASSUME NEW g \in Calls(env') PROVE g \in Calls(env) /\ g[2] # Cur.key
    <2>1. PICK j \in Modules : g \in env'[j].globals \cup env'[j].exports
      BY DEF Calls, All
    <2>2. g[1] = "fn" /\ env[g[2]].by = 1
      <3>1. g[1] = "fn" /\ env'[g[2]].by = 1 /\ g[2] \in Modules
        BY <1>7, AllTyped DEF Calls
      <3> QED
        BY <1>8, <3>1
    <2>3. g \in E[j].globals \cup E[j].exports
      BY <1>7, <2>1 DEF Fades
    <2>4. j # k /\ g \in env[j].globals \cup env[j].exports
      BY <1>4, <1>6, <2>3
    <2> QED
      BY <1>1, <1>2, <2>2, <2>4, OthersCalls
  <1> QED
    BY <1>2, <1>8, <1>9, PoppedOwn

LEMMA ResetOwn ==
    ASSUME LoaderConstants, IInv, IInv', Reset
    PROVE  OwnInv'
  <1>1. cache' = {} /\ vms' = <<UserVM>>
    BY DEF Reset
  <1>2. Depth' = 1 /\ 2 .. 1 = {}
    BY <1>1 DEF Depth
  <1>3. ASSUME NEW g \in Calls(env') PROVE FALSE
    <2>1. env' \in Envs /\ EnvGood(env', {}, (Running \cup {User})', Plus(None, {}))
      BY <1>1 DEF IInv, EnvInv, EnvGood, Good
    <2>2. PICK j \in Modules : g \in env'[j].globals \cup env'[j].exports
      BY DEF Calls, All
    <2>3. g[2] = j /\ g[2] \in Mods
      BY <2>1, <2>2, AllTyped DEF EnvGood, Reaches, Calls
    <2>4. j \notin LiveIn(env') /\ j # User /\ j \in Keys
      BY <2>1, <2>3, ModFacts DEF EnvGood
    <2>5. Running' = {}
      BY <1>2 DEF Running
    <2>6. env'[j].st = "unused"
      <3>1. env'[j].st # "live" /\ env'[j].st # "running"
        BY <2>1, <2>4, <2>5 DEF EnvGood, LiveIn
      <3>2. env'[j].st \in {"unused", "running", "live"}
        BY <2>1 DEF Envs, Entries
      <3> QED
        BY <3>1, <3>2
    <2>7. env'[j].globals = {} /\ env'[j].exports = {}
      BY <2>1, <2>6 DEF EnvGood, Good, Blank
    <2> QED
      BY <2>2, <2>7
  <1> QED
    BY <1>2, <1>3 DEF OwnInv

\* What the user's code reaches, some module holds.
LEMMA ReachedHeld ==
    ASSUME LoaderConstants, IInv
    PROVE  Reached \subseteq All(env) /\ \A g \in Reached : g[1] = "fn"
  <1> DEFINE K == Cardinality(Keys)
             Step(S) == S \cup UNION {env[g[2]].globals \cup env[g[2]].exports : g \in S}
             D == SUBSET All(env)
             f == CHOOSE h : h = [n \in 0 .. K |-> IF n = 0 THEN env[User].globals ELSE Step(h[n - 1])]
  <1>1. Reached = {g \in f[K] : g[1] = "fn"}
    BY DEF Reached
  <1>2. K \in Nat /\ env \in Envs /\ User \in Modules
    BY FiniteFacts, StartFacts, ModFacts DEF Envs
  <1>3. env[User].globals \in D
    BY <1>2 DEF All
  <1>4. ASSUME NEW S \in D PROVE Step(S) \in D
    <2>1. ASSUME NEW g \in S PROVE env[g[2]].globals \cup env[g[2]].exports \subseteq All(env)
      <3>1. g \in Globals
        BY <1>2, AllTyped
      <3>2. g[2] \in Modules
        BY <3>1, ModFacts DEF Globals
      <3> QED
        BY <3>2 DEF All
    <2> QED
      BY <2>1
  <1>5. PICK r : r = [S \in D |-> Step(S)]
    OBVIOUS
  <1>6. r \in [D -> D] /\ \A S \in D : r[S] = Step(S)
    BY <1>4, <1>5
  <1> HIDE DEF Step, D, K
  <1>7. PICK h \in [0 .. K -> D] : h = [n \in 0 .. K |-> IF n = 0 THEN env[User].globals ELSE r[h[n - 1]]]
    <2>1. PICK h : Iterates(h, D, r, env[User].globals, K)
      <3>1. r \in [D -> D] /\ env[User].globals \in D /\ K \in Nat
        BY <1>2, <1>3, <1>6
      <3> QED
        BY <3>1, IterationExists
    <2> QED
      BY <2>1 DEF Iterates
  <1>8. h = [n \in 0 .. K |-> IF n = 0 THEN env[User].globals ELSE Step(h[n - 1])]
    <2>0. \A n \in 0 .. K : n # 0 => n - 1 \in 0 .. K
      BY <1>2
    <2>1. \A n \in 0 .. K : n # 0 => h[n - 1] \in D
      BY <1>7, <2>0
    <2>2. \A n \in 0 .. K : n # 0 => r[h[n - 1]] = Step(h[n - 1])
      BY <1>6, <2>1
    <2> QED
      BY <1>7, <2>2
  <1>9. f = [n \in 0 .. K |-> IF n = 0 THEN env[User].globals ELSE Step(f[n - 1])]
    BY <1>8
  <1> HIDE DEF f
  <1> DEFINE T == {n \in Nat : n <= K => f[n] \in D}
  <1>10. 0 \in T
    BY <1>2, <1>3, <1>9
  <1>11. ASSUME NEW n \in Nat, n \in T PROVE n + 1 \in T
    <2>1. ASSUME n + 1 <= K PROVE f[n + 1] \in D
      <3>1. n + 1 \in 0 .. K /\ n + 1 # 0 /\ n <= K /\ (n + 1) - 1 = n
        BY <1>2, <2>1
      <3>2. f[n + 1] = Step(f[n]) /\ f[n] \in D
        BY <1>9, <1>11, <3>1
      <3> QED
        BY <1>4, <3>2
    <2> QED
      BY <2>1
  <1>12. f[K] \in D
    <2> HIDE DEF T
    <2>1. Nat \subseteq T
      BY <1>10, <1>11, Induction
    <2>2. K \in T /\ K <= K
      BY <1>2, <2>1
    <2> QED
      BY <2>2 DEF T
  <1> QED
    BY <1>1, <1>12 DEF D

\* The inductive invariant of the tables.
THEOREM TablesCorrect == Spec => []OwnInv
  <1>1. LoaderConstants
    BY LoaderConstants
  <1>2. Init => OwnInv
    <2>1. SUFFICES ASSUME Init PROVE OwnInv
      OBVIOUS
    <2>2. Depth = 1 /\ 2 .. 1 = {}
      BY <2>1 DEF Init, Depth
    <2>3. \A j \in Modules : env[j].globals = {} /\ env[j].exports = {}
      BY <2>1 DEF Init, Modules, Unused, UserEnv
    <2>4. Calls(env) = {}
      BY <2>3 DEF Calls, All
    <2> QED
      BY <2>2, <2>4 DEF OwnInv
  <1>3. IInv /\ IInv' /\ OwnInv /\ [Next]_vars => OwnInv'
    <2>1. ASSUME IInv, IInv', OwnInv, Next PROVE OwnInv'
      BY <1>1, <2>1, CacheHitOwn, LoadPluginOwn, EnterOwn, FinishOwn, FailOwn, ForgetOwn, DefineOwn, ResetOwn DEF Next
    <2>2. ASSUME OwnInv, UNCHANGED vars PROVE OwnInv'
      BY <2>2 DEF OwnInv, TableOf, Depth, vars
    <2> QED
      BY <2>1, <2>2
  <1> QED
    BY <1>2, <1>3, EnvCorrect, PTL DEF Spec

\* The functions of a module that the user's pipeline imported itself find their own
\* templates wherever the user's code reaches them.
THEOREM OwnImportsCorrect == Spec => []OwnImportsResolve
  <1>1. LoaderConstants
    BY LoaderConstants
  <1>2. IInv /\ OwnInv => OwnImportsResolve
    <2>1. SUFFICES ASSUME IInv, OwnInv, Depth = 1, NEW g \in Reached, env[g[2]].by = 1
                   PROVE  Resolves(g, Cur.table)
      BY DEF OwnImportsResolve
    <2>2. Reached \subseteq All(env) /\ g[1] = "fn"
      BY <1>1, <2>1, ReachedHeld
    <2>3. g \in Calls(env)
      BY <2>1, <2>2 DEF Calls
    <2>4. TableOf(g[2]) = Cur.table
      BY <2>1 DEF TableOf, Cur
    <2>5. Resolves(g, TableOf(g[2]))
      BY <2>1, <2>3 DEF OwnInv
    <2> QED
      BY <2>4, <2>5
  <1> QED
    BY <1>2, EnvCorrect, TablesCorrect, PTL
=============================================================================
