------------------------------- MODULE Facts --------------------------------
(***************************************************************************)
(* Facts about sequences, numbers and sums that the proofs of several      *)
(* components rest on.  Induction is stated for sets, not operators: a set *)
(* of naturals that has 0 and the successor of each of its members has     *)
(* them all.                                                               *)
(***************************************************************************)
EXTENDS Integers, Sequences, FiniteSetTheorems, FunctionTheorems, WellFoundedInduction, TLAPS

LEMMA TailFacts ==
    ASSUME NEW S, NEW q \in Seq(S), q # <<>>
    PROVE  /\ Tail(q) \in Seq(S) /\ Len(Tail(q)) = Len(q) - 1
           /\ Head(q) = q[1] /\ Head(q) \in S /\ 1 \in 1 .. Len(q) /\ Len(q) \in Nat \ {0}
           /\ \A i \in 1 .. Len(Tail(q)) : i + 1 \in 1 .. Len(q) /\ Tail(q)[i] = q[i + 1]
  OBVIOUS

LEMMA AppendFacts ==
    ASSUME NEW S, NEW q \in Seq(S), NEW e \in S
    PROVE  /\ Append(q, e) \in Seq(S) /\ Len(Append(q, e)) = Len(q) + 1
           /\ \A i \in 1 .. Len(q) : Append(q, e)[i] = q[i]
           /\ Append(q, e)[Len(q) + 1] = e /\ Append(q, e) # <<>>
  OBVIOUS

LEMMA SetLastFacts ==
    ASSUME NEW S, NEW q \in Seq(S), q # <<>>, NEW e \in S
    PROVE  LET s == [q EXCEPT ![Len(q)] = e]
           IN  /\ s \in Seq(S) /\ Len(s) = Len(q) /\ DOMAIN s = DOMAIN q /\ s # <<>>
               /\ s[Len(q)] = e /\ \A i \in DOMAIN q : i # Len(q) => s[i] = q[i]
  OBVIOUS

LEMMA PushFacts ==
    ASSUME NEW S, NEW q \in Seq(S), NEW e \in S
    PROVE  /\ Append(q, e) \in Seq(S) /\ Append(q, e) # <<>>
           /\ Len(Append(q, e)) = Len(q) + 1 /\ Len(q) \in Nat
           /\ DOMAIN q = 1 .. Len(q)
           /\ DOMAIN Append(q, e) = DOMAIN q \cup {Len(q) + 1} /\ Len(q) + 1 \notin DOMAIN q
           /\ Append(q, e)[Len(q) + 1] = e /\ \A i \in DOMAIN q : Append(q, e)[i] = q[i]
  OBVIOUS
-----------------------------------------------------------------------------
\* Short sequences, and sums of small numbers.

LEMMA OneElement ==
    ASSUME NEW S, NEW e \in S
    PROVE  /\ <<e>> \in Seq(S) /\ <<e>> # <<>> /\ Len(<<e>>) = 1 /\ <<e>>[1] = e
           /\ DOMAIN <<e>> = 1 .. 1 /\ <<>> \in Seq(S) /\ DOMAIN <<>> = {}
  OBVIOUS

LEMMA LengthZero ==
    ASSUME NEW S, NEW q \in Seq(S)
    PROVE  (Len(q) = 0 <=> q = <<>>) /\ (q # <<>> => Len(q) >= 1)
  OBVIOUS

LEMMA TailOfOne ==
    ASSUME NEW S, NEW q \in Seq(S), Len(q) = 1
    PROVE  Tail(q) \in Seq(S) /\ Len(Tail(q)) = 0
  OBVIOUS

LEMMA AtLeastTwo ==
    \A n \in Nat : n # 0 /\ n # 1 => n > 1
  OBVIOUS

LEMMA OneTaken ==
    \A s, n \in Nat : n # 0 => (s + 1) + (n - 1) = s + n
  OBVIOUS

LEMMA SumsInNat ==
    \A a, b \in Nat : a + b + 1 \in Nat /\ a + b + 0 = a + b /\ a + b \in Nat
  OBVIOUS

LEMMA SumsOfSuccessor ==
    \A a, b \in Nat : (a + 1) + b = (a + b) + 1 /\ (a + 1) + b + 1 = (a + b + 1) + 1
                     /\ a + 1 \in Nat
  OBVIOUS

LEMMA SumsOfPredecessor ==
    \A a, b \in Nat : b # 0 => a + (b - 1) = (a + b) - 1 /\ a + (b - 1) + 1 = (a + b + 1) - 1
                              /\ b - 1 \in Nat
  OBVIOUS

LEMMA SumAtMostOne ==
    \A a, b \in Nat : a >= 1 /\ a + b <= 1 => a = 1 /\ b = 0
  OBVIOUS

LEMMA SumAtMostOneSecond ==
    \A a, b \in Nat : b >= 1 /\ a + b <= 1 => a = 0 /\ b = 1
  OBVIOUS
-----------------------------------------------------------------------------
LEMMA LeastNumber ==
    ASSUME NEW T, T \subseteq Nat, T # {}
    PROVE  \E x \in T : \A y \in T : x <= y
  <1> DEFINE R == OpToRel(<, Nat)
  <1>1. \E x \in T : \A y \in T : ~ (<<y, x>> \in R)
    <2>1. IsWellFoundedOn(R, Nat)
      BY NatLessThanWellFounded
    <2> HIDE DEF R
    <2> QED
      BY <2>1, WFMin
  <1>2. \A x, y \in Nat : <<y, x>> \in R <=> y < x
    BY DEF OpToRel
  <1> HIDE DEF R
  <1>3. PICK x \in T : \A y \in T : ~ (<<y, x>> \in R)
    BY <1>1
  <1>4. ASSUME NEW y \in T PROVE x <= y
    <2>1. x \in Nat /\ y \in Nat /\ ~(y < x)
      BY <1>2, <1>3
    <2> QED
      BY <2>1
  <1> QED
    BY <1>4

LEMMA Induction ==
    ASSUME NEW T, 0 \in T, \A n \in Nat : n \in T => n + 1 \in T
    PROVE  Nat \subseteq T
  <1>1. SUFFICES ASSUME Nat \ T # {} PROVE FALSE
    OBVIOUS
  <1>2. PICK x \in Nat \ T : \A y \in Nat \ T : x <= y
    BY <1>1, LeastNumber
  <1>3. x # 0 /\ x - 1 \in Nat /\ x - 1 < x
    BY <1>2
  <1>4. x - 1 \in T
    BY <1>2, <1>3
  <1> QED
    BY <1>2, <1>3, <1>4

LEMMA GreatestNumber ==
    ASSUME NEW n \in Nat, NEW T, T \subseteq 0 .. n, T # {}
    PROVE  \E x \in T : \A y \in T : y <= x
  <1> DEFINE U == {n - y : y \in T}
  <1>1. U \subseteq Nat /\ U # {}
    <2>1. \A y \in 0 .. n : n - y \in Nat
      OBVIOUS
    <2>2. \A y \in T : n - y \in Nat
      BY <2>1
    <2>3. PICK t : t \in T
      OBVIOUS
    <2>4. n - t \in U
      BY <2>3
    <2> QED
      BY <2>2, <2>4
  <1>2. PICK u \in U : \A y \in U : u <= y
    <2> HIDE DEF U
    <2> QED
      BY <1>1, LeastNumber
  <1>3. PICK x \in T : u = n - x
    OBVIOUS
  <1>4. ASSUME NEW y \in T PROVE y <= x
    <2>1. n - y \in U /\ x \in Int /\ y \in Int
      OBVIOUS
    <2>2. n - x <= n - y
      BY <2>1, <1>2, <1>3
    <2> QED
      BY <2>1, <2>2
  <1> QED
    BY <1>4
-----------------------------------------------------------------------------
LEMMA FewerByInjection ==
    ASSUME NEW S, NEW T, IsFiniteSet(T), NEW f \in [S -> T], \A a, b \in S : f[a] = f[b] => a = b
    PROVE  IsFiniteSet(S) /\ Cardinality(S) <= Cardinality(T)
  <1>1. f \in Injection(S, T)
    BY Fun_IsInj
  <1> QED
    BY <1>1, FS_Injection

LEMMA SameByBijection ==
    ASSUME NEW S, NEW T, IsFiniteSet(S), NEW f \in [S -> T], \A a, b \in S : f[a] = f[b] => a = b,
           \A t \in T : \E s \in S : f[s] = t
    PROVE  IsFiniteSet(T) /\ Cardinality(T) = Cardinality(S)
  <1>1. f \in Bijection(S, T)
    BY Fun_IsBij
  <1>2. ExistsBijection(S, T)
    BY <1>1, Fun_ExistsBij
  <1> QED
    BY <1>2, FS_Bijection
-----------------------------------------------------------------------------
\* Sums over a finite set.  MapThenSumSet is the value at S of a recursive function on the
\* subsets of S; that value is the size of a pile, so the order of the terms does not matter.

Pile(S, w)   == UNION {{x} \X (1 .. w[x]) : x \in S}
Weight(S, w) == Cardinality(Pile(S, w))
SumRec(f, S, w) == f = [s \in SUBSET S |-> IF s = {} THEN 0
                                           ELSE w[CHOOSE x \in s : TRUE] + f[s \ {CHOOSE x \in s : TRUE}]]

LEMMA DisjointSum ==
    ASSUME NEW A, NEW B, IsFiniteSet(A), IsFiniteSet(B), A \cap B = {}
    PROVE  IsFiniteSet(A \cup B) /\ Cardinality(A \cup B) = Cardinality(B) + Cardinality(A)
  <1>1. PICK a \in Nat : a = Cardinality(A)
    BY FS_CardinalityType
  <1>2. PICK b \in Nat : b = Cardinality(B)
    BY FS_CardinalityType
  <1>3. Cardinality(A \cap B) = 0
    BY FS_EmptySet
  <1>4. IsFiniteSet(A \cup B) /\ Cardinality(A \cup B) = a + b - 0
    BY <1>1, <1>2, <1>3, FS_Union
  <1> QED
    BY <1>1, <1>2, <1>4

LEMMA PileAdd ==
    ASSUME NEW S, NEW w, NEW x, x \notin S, w[x] \in Nat, IsFiniteSet(Pile(S, w))
    PROVE  /\ IsFiniteSet(Pile(S \cup {x}, w))
           /\ Weight(S \cup {x}, w) = w[x] + Weight(S, w)
  <1>1. Pile(S \cup {x}, w) = Pile(S, w) \cup ({x} \X (1 .. w[x]))
    BY DEF Pile
  <1>2. Pile(S, w) \cap ({x} \X (1 .. w[x])) = {}
    BY DEF Pile
  <1>3. IsFiniteSet(1 .. w[x]) /\ Cardinality(1 .. w[x]) = w[x]
    <2>1. PICK n \in Nat : n = w[x]
      OBVIOUS
    <2>2. 1 \in Int /\ n \in Int /\ (1 > n => n = 0) /\ n - 1 + 1 = n
      BY <2>1
    <2> QED
      BY <2>1, <2>2, FS_Interval
  <1>4. IsFiniteSet({x} \X (1 .. w[x])) /\ Cardinality({x} \X (1 .. w[x])) = w[x]
    <2>1. \A i, j : <<x, i>> = <<x, j>> => i = j
      OBVIOUS
    <2> DEFINE g == [i \in 1 .. w[x] |-> <<x, i>>]
    <2>2. g \in [1 .. w[x] -> {x} \X (1 .. w[x])] /\ \A a, b \in 1 .. w[x] : g[a] = g[b] => a = b
      OBVIOUS
    <2>3. \A t \in {x} \X (1 .. w[x]) : \E s \in 1 .. w[x] : g[s] = t
      OBVIOUS
    <2> HIDE DEF g
    <2> QED
      BY <1>3, <2>2, <2>3, SameByBijection
  <1>5. PICK A : A = Pile(S, w)
    OBVIOUS
  <1>6. PICK B : B = {x} \X (1 .. w[x])
    OBVIOUS
  <1>7. IsFiniteSet(A \cup B) /\ Cardinality(A \cup B) = Cardinality(B) + Cardinality(A)
    BY <1>2, <1>4, <1>5, <1>6, DisjointSum
  <1>8. Cardinality(B) = w[x] /\ Pile(S \cup {x}, w) = A \cup B
    BY <1>1, <1>4, <1>5, <1>6
  <1> QED
    BY <1>5, <1>7, <1>8 DEF Weight

LEMMA PileFinite ==
    ASSUME NEW S, IsFiniteSet(S), NEW w, \A x \in S : w[x] \in Nat
    PROVE  IsFiniteSet(Pile(S, w)) /\ Weight(S, w) \in Nat
  <1> DEFINE T == {n \in Nat : \A s \in SUBSET S : Cardinality(s) = n => IsFiniteSet(Pile(s, w))}
  <1>1. 0 \in T
    <2>1. ASSUME NEW s \in SUBSET S, Cardinality(s) = 0 PROVE IsFiniteSet(Pile(s, w))
      <3>1. s = {}
        BY <2>1, FS_Subset, FS_EmptySet
      <3>2. Pile({}, w) = {}
        BY DEF Pile
      <3> QED
        BY <3>1, <3>2, FS_EmptySet
    <2> QED
      BY <2>1
  <1>2. ASSUME NEW n \in Nat, n \in T PROVE n + 1 \in T
    <2>1. ASSUME NEW s \in SUBSET S, Cardinality(s) = n + 1 PROVE IsFiniteSet(Pile(s, w))
      <3>1. IsFiniteSet(s)
        BY FS_Subset
      <3>2. PICK x \in s : TRUE
        <4>1. s # {}
          BY <2>1, FS_EmptySet
        <4> QED
          BY <4>1
      <3>3. Cardinality(s \ {x}) = n
        <4>1. Cardinality(s \ {x}) = Cardinality(s) - 1
          BY <3>1, <3>2, FS_RemoveElement
        <4> QED
          BY <2>1, <4>1
      <3>4. IsFiniteSet(Pile(s \ {x}, w))
        BY <1>2, <3>3
      <3>5. w[x] \in Nat /\ x \notin s \ {x} /\ (s \ {x}) \cup {x} = s
        BY <3>2
      <3> HIDE DEF T
      <3>6. IsFiniteSet(Pile((s \ {x}) \cup {x}, w))
        BY <3>4, <3>5, PileAdd
      <3> QED
        BY <3>5, <3>6
    <2> QED
      BY <2>1
  <1>3. Nat \subseteq T
    <2> HIDE DEF T
    <2> QED
      BY <1>1, <1>2, Induction
  <1>4. Cardinality(S) \in Nat /\ S \in SUBSET S
    BY FS_CardinalityType
  <1> QED
    BY <1>3, <1>4, FS_CardinalityType DEF Weight

\* What MapThenSumSet adds up is the size of the pile, whatever the order it takes.
LEMMA SumIsWeight ==
    ASSUME NEW S, IsFiniteSet(S), NEW w, \A x \in S : w[x] \in Nat, NEW f, SumRec(f, S, w)
    PROVE  f[S] = Weight(S, w)
  <1> DEFINE T == {n \in Nat : \A s \in SUBSET S : Cardinality(s) = n => f[s] = Weight(s, w)}
  <1>1. 0 \in T
    <2>1. ASSUME NEW s \in SUBSET S, Cardinality(s) = 0 PROVE f[s] = Weight(s, w)
      <3>1. s = {}
        BY <2>1, FS_Subset, FS_EmptySet
      <3>2. Pile({}, w) = {}
        BY DEF Pile
      <3> QED
        BY <3>1, <3>2, FS_EmptySet DEF Weight, SumRec
    <2> QED
      BY <2>1
  <1>2. ASSUME NEW n \in Nat, n \in T PROVE n + 1 \in T
    <2>1. ASSUME NEW s \in SUBSET S, Cardinality(s) = n + 1 PROVE f[s] = Weight(s, w)
      <3>1. IsFiniteSet(s)
        BY FS_Subset
      <3>2. s # {}
        BY <2>1, FS_EmptySet
      <3>3. PICK x \in s : x = CHOOSE y \in s : TRUE
        BY <3>2
      <3>4. f[s] = w[x] + f[s \ {x}]
        BY <3>2, <3>3 DEF SumRec
      <3>5. Cardinality(s \ {x}) = n
        <4>1. Cardinality(s \ {x}) = Cardinality(s) - 1
          BY <3>1, <3>3, FS_RemoveElement
        <4> QED
          BY <2>1, <4>1
      <3>6. f[s \ {x}] = Weight(s \ {x}, w)
        BY <1>2, <3>5
      <3> HIDE DEF T
      <3>7. w[x] \in Nat /\ x \notin s \ {x} /\ (s \ {x}) \cup {x} = s
        BY <3>3
      <3>8. IsFiniteSet(Pile(s \ {x}, w))
        <4>1. IsFiniteSet(s \ {x}) /\ \A y \in s \ {x} : w[y] \in Nat
          BY <3>1, FS_Subset
        <4> QED
          BY <4>1, PileFinite
      <3>9. Weight((s \ {x}) \cup {x}, w) = w[x] + Weight(s \ {x}, w)
        BY <3>7, <3>8, PileAdd
      <3> QED
        BY <3>4, <3>6, <3>7, <3>9
    <2> QED
      BY <2>1
  <1>3. Nat \subseteq T
    <2> HIDE DEF T
    <2> QED
      BY <1>1, <1>2, Induction
  <1>4. Cardinality(S) \in Nat /\ S \in SUBSET S
    BY FS_CardinalityType
  <1> QED
    BY <1>3, <1>4

LEMMA SumExists ==
    ASSUME NEW S, IsFiniteSet(S), NEW w, \A x \in S : w[x] \in Nat
    PROVE  \E f : SumRec(f, S, w)
  <1> DEFINE f == [s \in SUBSET S |-> Weight(s, w)]
  <1>1. ASSUME NEW s \in SUBSET S
        PROVE  f[s] = IF s = {} THEN 0 ELSE w[CHOOSE x \in s : TRUE] + f[s \ {CHOOSE x \in s : TRUE}]
    <2>1. CASE s = {}
      <3>2. Pile({}, w) = {}
        BY DEF Pile
      <3> QED
        BY <2>1, <3>2, FS_EmptySet DEF Weight
    <2>2. CASE s # {}
      <3>3. PICK x \in s : x = CHOOSE y \in s : TRUE
        BY <2>2
      <3>7. w[x] \in Nat /\ x \notin s \ {x} /\ (s \ {x}) \cup {x} = s
        BY <3>3
      <3>8. IsFiniteSet(Pile(s \ {x}, w))
        <4>1. IsFiniteSet(s \ {x}) /\ \A y \in s \ {x} : w[y] \in Nat
          BY FS_Subset
        <4> QED
          BY <4>1, PileFinite
      <3>9. Weight((s \ {x}) \cup {x}, w) = w[x] + Weight(s \ {x}, w)
        BY <3>7, <3>8, PileAdd
      <3>10. f[s] = w[x] + f[s \ {x}]
        BY <3>7, <3>9
      <3> HIDE DEF f
      <3> QED
        BY <2>2, <3>3, <3>10
    <2> QED
      BY <2>1, <2>2
  <1> QED
    BY <1>1 DEF SumRec

\* Piles that map into one another, number by number.
LEMMA LighterByInjection ==
    ASSUME NEW S, NEW T, NEW w, NEW v, NEW g \in [S -> T], \A a, b \in S : g[a] = g[b] => a = b,
           \A x \in S : w[x] = v[g[x]], IsFiniteSet(Pile(T, v))
    PROVE  IsFiniteSet(Pile(S, w)) /\ Weight(S, w) <= Weight(T, v)
  <1> DEFINE f == [t \in Pile(S, w) |-> <<g[t[1]], t[2]>>]
  <1>1. \A t \in Pile(S, w) : t = <<t[1], t[2]>> /\ t[1] \in S /\ t[2] \in 1 .. w[t[1]]
    BY DEF Pile
  <1>2. ASSUME NEW t \in Pile(S, w) PROVE <<g[t[1]], t[2]>> \in Pile(T, v)
    <2>1. g[t[1]] \in T /\ t[2] \in 1 .. v[g[t[1]]]
      BY <1>1
    <2> QED
      BY <2>1 DEF Pile
  <1>3. f \in [Pile(S, w) -> Pile(T, v)]
    BY <1>2
  <1>4. ASSUME NEW t \in Pile(S, w), NEW u \in Pile(S, w), f[t] = f[u] PROVE t = u
    <2>1. g[t[1]] = g[u[1]] /\ t[2] = u[2]
      BY <1>4
    <2>2. t[1] = u[1]
      BY <1>1, <2>1
    <2> QED
      BY <1>1, <2>1, <2>2
  <1> HIDE DEF f
  <1> QED
    BY <1>3, <1>4, FewerByInjection DEF Weight
-----------------------------------------------------------------------------
\* f counts off the values of r applied n times to start, n up to K.
Iterates(f, D, r, start, K) ==
    /\ f \in [0 .. K -> D]
    /\ f = [n \in 0 .. K |-> IF n = 0 THEN start ELSE r[f[n - 1]]]

\* A function applied n times, n up to K: what the recursive functions of the models compute.
LEMMA IterationExists ==
    ASSUME NEW D, NEW r \in [D -> D], NEW start \in D, NEW K \in Nat
    PROVE  \E f : Iterates(f, D, r, start, K)
  <1> DEFINE Rounds(f, n) == f = [i \in 0 .. n |-> IF i = 0 THEN start ELSE r[f[i - 1]]]
             T == {n \in Nat : \E f \in [0 .. n -> D] : Rounds(f, n)}
  <1>1. 0 \in T
    <2>1. PICK f : f = [i \in 0 .. 0 |-> start]
      OBVIOUS
    <2>2. f \in [0 .. 0 -> D] /\ f = [i \in 0 .. 0 |-> IF i = 0 THEN start ELSE r[f[i - 1]]]
      BY <2>1
    <2> QED
      BY <2>2
  <1>2. ASSUME NEW n \in Nat, n \in T PROVE n + 1 \in T
    <2>1. PICK f \in [0 .. n -> D] : Rounds(f, n)
      BY <1>2
    <2>2. PICK g : g = [i \in 0 .. (n + 1) |-> IF i = n + 1 THEN r[f[n]] ELSE f[i]]
      OBVIOUS
    <2>3. ASSUME NEW i \in 0 .. (n + 1)
          PROVE  g[i] \in D /\ g[i] = IF i = 0 THEN start ELSE r[g[i - 1]]
      <3>1. CASE i = n + 1
        <4>1. g[i] = r[f[n]] /\ g[n] = f[n] /\ i - 1 = n /\ i # 0 /\ f[n] \in D
          BY <2>2, <3>1
        <4> QED
          BY <4>1
      <3>2. CASE i \in 1 .. n
        <4>1. g[i] = f[i] /\ i - 1 \in 0 .. n /\ g[i - 1] = f[i - 1] /\ i # 0 /\ i \in 0 .. n /\ f[i] \in D
          BY <2>2, <3>2
        <4>2. f[i] = r[f[i - 1]]
          BY <2>1, <4>1
        <4> QED
          BY <4>1, <4>2
      <3>3. CASE i = 0
        <4>1. g[i] = f[0] /\ 0 \in 0 .. n
          BY <2>2, <3>3
        <4> QED
          BY <2>1, <3>3, <4>1
      <3>4. i = 0 \/ i \in 1 .. n \/ i = n + 1
        OBVIOUS
      <3> QED
        BY <3>1, <3>2, <3>3, <3>4
    <2>4. g \in [0 .. (n + 1) -> D] /\ Rounds(g, n + 1)
      BY <2>2, <2>3
    <2> HIDE DEF Rounds
    <2>5. n + 1 \in Nat /\ \E h \in [0 .. (n + 1) -> D] : Rounds(h, n + 1)
      BY <2>4
    <2> QED
      BY <2>5, Zenon
  <1>3. Nat \subseteq T
    <2> HIDE DEF T
    <2> QED
      BY <1>1, <1>2, Induction
  <1>4. PICK f \in [0 .. K -> D] : Rounds(f, K)
    BY <1>3
  <1> QED
    BY <1>4 DEF Iterates
=============================================================================
