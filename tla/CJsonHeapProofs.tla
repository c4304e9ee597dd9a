---------------------------- MODULE CJsonHeapProofs ----------------------------
(***************************************************************************)
(* What each function of CJson does to a sound memory, of any size, with   *)
(* any names and texts and any allocation failing: which items and blocks  *)
(* there are then, how they are linked, and what a delete frees in which   *)
(* order.                                                                  *)
(***************************************************************************)
EXTENDS CJsonTree, CJsonProofs

USE CJsonAssumption DEF CJsonAssumption

-----------------------------------------------------------------------------
(* Functions defined by recursion, and counting.                           *)

\* f[k] is a after k steps.
Iterated(f, X, a, step, N) ==
  f \in [0 .. N -> X] /\ f[0] = a /\ \A k \in 1 .. N : f[k] = step[f[k - 1]]

LEMMA Iterates ==
  ASSUME NEW X, NEW a \in X, NEW step \in [X -> X], NEW N \in Nat
  PROVE  \E f : Iterated(f, X, a, step, N)
<1> DEFINE Runs(f, n) == f[0] = a /\ \A k \in 1 .. n : f[k] = step[f[k - 1]]
           S == {n \in Nat : ~\E f \in [0 .. n -> X] : Runs(f, n)}
<1>1. S = {}
  <2> SUFFICES ASSUME S # {} PROVE FALSE
    OBVIOUS
  <2>1. S \in SUBSET Nat
    OBVIOUS
  <2>2. PICK n \in S : \A m \in S : n <= m
    <3> HIDE DEF S
    <3> QED
      BY <2>1, LeastNatural
  <2>3. n # 0
    <3> DEFINE z == [k \in 0 .. 0 |-> a]
    <3>1. z \in [0 .. 0 -> X] /\ z[0] = a
      OBVIOUS
    <3>2. \A k \in 1 .. 0 : FALSE
      OBVIOUS
    <3> HIDE DEF z
    <3>3. Runs(z, 0)
      BY <3>1, <3>2
    <3>4. 0 \notin S
      BY <3>1, <3>3
    <3> QED
      BY <3>4
  <2>4. n - 1 \in Nat /\ n - 1 \notin S
    <3>1. n \in Nat /\ n - 1 \in Nat /\ ~(n <= n - 1)
      BY <2>1, <2>2, <2>3
    <3> HIDE DEF S
    <3> QED
      BY <2>2, <3>1
  <2>5. PICK f \in [0 .. n - 1 -> X] : Runs(f, n - 1)
    BY <2>4
  <2> DEFINE g == [k \in 0 .. n |-> IF k = n THEN step[f[n - 1]] ELSE f[k]]
  <2>6. f[n - 1] \in X /\ step[f[n - 1]] \in X
    BY <2>4
  <2>7. g \in [0 .. n -> X]
    BY <2>4, <2>6
  <2>8. Runs(g, n)
    BY <2>3, <2>4, <2>5
  <2> QED
    BY <2>7, <2>8
<1>2. N \notin S
  BY <1>1
<1> QED
  BY <1>2 DEF Iterated

\* What sets with the same elements but x count.
LEMMA CountOne ==
  ASSUME NEW S, IsFiniteSet(S), NEW T, NEW x, S \ {x} = T \ {x}
  PROVE  /\ IsFiniteSet(T)
         /\ Cardinality(T) = Cardinality(S) - (IF x \in S THEN 1 ELSE 0) + (IF x \in T THEN 1 ELSE 0)
         /\ Cardinality(S) \in Nat /\ Cardinality(T) \in Nat
<1> DEFINE U == S \ {x}
<1>1. IsFiniteSet(U) /\ Cardinality(U) = IF x \in S THEN Cardinality(S) - 1 ELSE Cardinality(S)
  BY FS_RemoveElement
<1>2. T = IF x \in T THEN U \cup {x} ELSE U
  OBVIOUS
<1>3. /\ IsFiniteSet(U \cup {x})
      /\ Cardinality(U \cup {x}) = IF x \in U THEN Cardinality(U) ELSE Cardinality(U) + 1
  BY <1>1, FS_AddElement
<1>4. x \notin U
  OBVIOUS
<1>5. Cardinality(S) \in Nat
  BY FS_CardinalityType
<1> HIDE DEF U
<1>6. IsFiniteSet(T) /\ Cardinality(T) = IF x \in T THEN Cardinality(U) + 1 ELSE Cardinality(U)
  BY <1>1, <1>2, <1>3, <1>4
<1>7. Cardinality(T) \in Nat
  BY <1>6, FS_CardinalityType
<1> QED
  BY <1>1, <1>5, <1>6, <1>7

\* Where in s elements of S are.
Spots(s, S) == {i \in DOMAIN s : s[i] \in S}

\* In a sequence without repetition they are as many as the elements.
LEMMA CountSpots ==
  ASSUME NEW D, IsFiniteSet(D), NEW s \in Seq(D), Once(s), NEW S \in SUBSET D
  PROVE  Cardinality(Spots(s, S)) = Cardinality(ToSet(s) \cap S)
<1> DEFINE I == {i \in DOMAIN s : s[i] \in S}
           T == ToSet(s) \cap S
           f == [i \in I |-> s[i]]
<1>1. DOMAIN s = 1 .. Len(s) /\ Len(s) \in Nat
  OBVIOUS
<1>2. \A x : x \in ToSet(s) <=> \E i \in DOMAIN s : s[i] = x
  BY <1>1, InSet
<1>3. f \in [I -> T] /\ (\A i, j \in I : f[i] = f[j] => i = j) /\ \A t \in T : \E i \in I : f[i] = t
  BY <1>2 DEF Once
<1> HIDE DEF f
<1>4. f \in Bijection(I, T)
  BY <1>3 DEF Bijection, Injection, Surjection, IsInjective
<1>5. ExistsBijection(I, T)
  BY <1>4 DEF ExistsBijection
<1>6. IsFiniteSet(I)
  <2>1. IsFiniteSet(1 .. Len(s))
    BY <1>1, FS_Interval
  <2> QED
    BY <1>1, <2>1, FS_Subset
<1> QED
  BY <1>5, <1>6, FS_Bijection DEF Spots

-----------------------------------------------------------------------------
(* What is below two items.                                                *)

LEMMA SoundFinite ==
  ASSUME NEW at, NEW ls, Sound(at, ls)
  PROVE  IsFiniteSet(DOMAIN ls) /\ Cardinality(DOMAIN ls) \in Nat /\ DOMAIN at = DOMAIN ls
<1>1. IsFiniteSet(Node)
  BY FS_Interval DEF Node
<1>2. DOMAIN ls \subseteq Node /\ DOMAIN at = DOMAIN ls
  BY DEF Sound, Typed
<1> QED
  BY <1>1, <1>2, FS_Subset, FS_CardinalityType

LEMMA BelowApart ==
  ASSUME NEW D, NEW ls \in [D -> Seq(D)], Apart(ls), NEW x \in D, NEW y \in D,
         x \notin Below(ls, y), y \notin Below(ls, x)
  PROVE  Below(ls, x) \cap Below(ls, y) = {}
<1> DEFINE X == Below(ls, x)
           Y == Below(ls, y)
           T == X \ Y
<1>1. X \subseteq D /\ x \in X /\ \A c \in X : ToSet(ls[c]) \subseteq X
  BY BelowClosed DEF Closed
<1>2. Y \subseteq D
  BY BelowClosed
<1>3. ASSUME NEW c \in T, NEW m \in ToSet(ls[c]) PROVE m \in T
  <2>1. m \in X
    BY <1>1
  <2> SUFFICES ASSUME m \in Y PROVE FALSE
    BY <2>1
  <2>2. m # y
    BY <2>1
  <2>3. PICK d \in Y : m \in ToSet(ls[d])
    BY <2>2, BelowParent
  <2>4. c \in D /\ d \in D /\ c # d
    BY <1>1, <1>2
  <2> QED
    BY <2>3, <2>4, ApartSets
<1>4. T \in SUBSET D /\ x \in T
  BY <1>1
<1>5. Closed(ls, T)
  BY <1>3 DEF Closed
<1> HIDE DEF T
<1>6. X \subseteq T
  BY <1>4, <1>5, BelowLeast
<1> QED
  BY <1>6 DEF T

LEMMA RootsApart ==
  ASSUME NEW D, NEW ls \in [D -> Seq(D)], Apart(ls), NEW r \in D, NEW s \in D, r # s,
         Root(ls, r), Root(ls, s)
  PROVE  Below(ls, r) \cap Below(ls, s) = {}
<1>1. ASSUME NEW x \in D, NEW y \in D, x # y, Root(ls, y) PROVE y \notin Below(ls, x)
  <2> SUFFICES ASSUME y \in Below(ls, x) PROVE FALSE
    OBVIOUS
  <2>1. PICK c \in Below(ls, x) : y \in ToSet(ls[c])
    BY <1>1, BelowParent
  <2>2. c \in D
    BY BelowClosed
  <2> QED
    BY <1>1, <2>1, <2>2 DEF Root
<1> QED
  BY <1>1, BelowApart

LEMMA SiblingsApart ==
  ASSUME NEW D, NEW ls \in [D -> Seq(D)], Apart(ls), Acyclic(ls), NEW c \in D,
         NEW x \in ToSet(ls[c]), NEW y \in ToSet(ls[c]), x # y
  PROVE  Below(ls, x) \cap Below(ls, y) = {}
<1>1. ToSet(ls[c]) \subseteq D
  BY InSet
<1>2. ASSUME NEW u \in ToSet(ls[c]), NEW v \in ToSet(ls[c]), u # v PROVE v \notin Below(ls, u)
  <2> SUFFICES ASSUME v \in Below(ls, u) PROVE FALSE
    OBVIOUS
  <2>1. PICK d \in Below(ls, u) : v \in ToSet(ls[d])
    BY <1>1, <1>2, BelowParent
  <2>2. d \in D
    BY <1>1, BelowClosed
  <2>3. d = c
    BY <2>1, <2>2, ApartSets
  <2> QED
    BY <2>1, <2>3 DEF Acyclic
<1> QED
  BY <1>1, <1>2, BelowApart

\* An item is above what is below its children.
LEMMA BelowUnfolds ==
  ASSUME NEW D, NEW ls \in [D -> Seq(D)], Acyclic(ls), NEW n \in D
  PROVE  /\ Below(ls, n) = {n} \cup UNION {Below(ls, m) : m \in ToSet(ls[n])}
         /\ n \notin UNION {Below(ls, m) : m \in ToSet(ls[n])}
<1> DEFINE U == UNION {Below(ls, m) : m \in ToSet(ls[n])}
           S == {n} \cup U
<1>1. ToSet(ls[n]) \subseteq D
  BY InSet
<1>2. \A m \in ToSet(ls[n]) : /\ Below(ls, m) \subseteq D /\ m \in Below(ls, m)
                              /\ \A c \in Below(ls, m) : ToSet(ls[c]) \subseteq Below(ls, m)
  BY <1>1, BelowClosed DEF Closed
<1>3. \A x : x \in U <=> \E m \in ToSet(ls[n]) : x \in Below(ls, m)
  OBVIOUS
<1> HIDE DEF U
<1>4. S \in SUBSET D /\ n \in S
  BY <1>2, <1>3
<1>5. ASSUME NEW c \in S, NEW d \in ToSet(ls[c]) PROVE d \in S
  <2>1. CASE c = n
    BY <1>2, <1>3, <1>5, <2>1
  <2>2. CASE c \in U
    BY <1>2, <1>3, <1>5, <2>2
  <2> QED
    BY <2>1, <2>2
<1>6. Closed(ls, S)
  BY <1>5 DEF Closed
<1> HIDE DEF S
<1>7. Below(ls, n) \subseteq S
  BY <1>4, <1>6, BelowLeast
<1>8. \A m \in ToSet(ls[n]) : Below(ls, m) \subseteq Below(ls, n)
  <2> SUFFICES ASSUME NEW m \in ToSet(ls[n]) PROVE Below(ls, m) \subseteq Below(ls, n)
    OBVIOUS
  <2>1. m \in Below(ls, n)
    BY BelowClosed DEF Closed
  <2> QED
    BY <2>1, BelowBelow
<1>9. n \in Below(ls, n)
  BY BelowClosed
<1>10. S \subseteq Below(ls, n)
  BY <1>3, <1>8, <1>9 DEF S
<1>11. n \notin U
  BY <1>3 DEF Acyclic
<1> QED
  BY <1>7, <1>10, <1>11 DEF S, U

\* What is below the children of c from the i-th on.
After(ls, c, i) == UNION {Below(ls, ls[c][j]) : j \in i .. Len(ls[c])}

LEMMA AfterIs ==
  ASSUME NEW D, NEW ls \in [D -> Seq(D)], Apart(ls), Acyclic(ls), NEW c \in D
  PROVE  /\ {c} \cup After(ls, c, 1) = Below(ls, c) /\ c \notin After(ls, c, 1)
         /\ After(ls, c, Len(ls[c]) + 1) = {}
         /\ \A i \in 1 .. Len(ls[c]) + 1 : After(ls, c, i) \subseteq D
         /\ \A i \in 1 .. Len(ls[c]) : /\ After(ls, c, i) = Below(ls, ls[c][i]) \cup After(ls, c, i + 1)
                                       /\ Below(ls, ls[c][i]) \cap After(ls, c, i + 1) = {}
<1> DEFINE s == ls[c]
<1>1. s \in Seq(D) /\ Len(s) \in Nat /\ DOMAIN s = 1 .. Len(s) /\ \A i \in 1 .. Len(s) : s[i] \in D
  OBVIOUS
<1>2. \A x : x \in ToSet(s) <=> \E i \in 1 .. Len(s) : s[i] = x
  BY <1>1, InSet
<1>3. \A i \in 1 .. Len(s) + 1 : \A x : x \in After(ls, c, i) <=> \E j \in i .. Len(s) : x \in Below(ls, s[j])
  BY DEF After
<1>4. \A x : x \in After(ls, c, 1) <=> x \in UNION {Below(ls, m) : m \in ToSet(s)}
  BY <1>1, <1>2, <1>3
<1>5. \A i \in 1 .. Len(s) : Below(ls, s[i]) \subseteq D
  BY <1>1, BelowClosed
<1>6. Once(s)
  BY ApartSets
<1>7. ASSUME NEW i \in 1 .. Len(s), NEW j \in 1 .. Len(s), i # j
      PROVE  Below(ls, s[i]) \cap Below(ls, s[j]) = {}
  <2>1. s[i] # s[j] /\ s[i] \in ToSet(s) /\ s[j] \in ToSet(s)
    BY <1>1, <1>2, <1>6, <1>7 DEF Once
  <2> QED
    BY <2>1, SiblingsApart
<1>8. {c} \cup After(ls, c, 1) = Below(ls, c) /\ c \notin After(ls, c, 1)
  <2>1. After(ls, c, 1) = UNION {Below(ls, m) : m \in ToSet(s)}
    BY <1>4
  <2> QED
    BY <2>1, BelowUnfolds
<1> HIDE DEF s
<1>9. After(ls, c, Len(s) + 1) = {}
  BY <1>1, <1>3
<1>10. \A i \in 1 .. Len(s) + 1 : After(ls, c, i) \subseteq D
  BY <1>1, <1>3, <1>5
<1>11. ASSUME NEW i \in 1 .. Len(s)
       PROVE  /\ After(ls, c, i) = Below(ls, s[i]) \cup After(ls, c, i + 1)
              /\ Below(ls, s[i]) \cap After(ls, c, i + 1) = {}
  <2>1. i \in 1 .. Len(s) + 1 /\ i + 1 \in 1 .. Len(s) + 1
    BY <1>1
  <2>2. \A j : j \in i .. Len(s) <=> j = i \/ j \in i + 1 .. Len(s)
    BY <1>1
  <2>3. \A x : x \in After(ls, c, i) <=> x \in Below(ls, s[i]) \/ x \in After(ls, c, i + 1)
    BY <1>3, <2>1, <2>2
  <2>4. \A j \in i + 1 .. Len(s) : j \in 1 .. Len(s) /\ i # j
    BY <1>1
  <2>5. \A x : x \in After(ls, c, i + 1) => x \notin Below(ls, s[i])
    BY <1>3, <1>7, <2>1, <2>4
  <2> QED
    BY <2>3, <2>5
<1> QED
  BY <1>8, <1>9, <1>10, <1>11 DEF s

-----------------------------------------------------------------------------
(* The order in which cJSON_Delete frees.                                  *)

\* Each element of S is in s, once.
Covers(s, D, S) == s \in Seq(D) /\ Once(s) /\ ToSet(s) = S

LEMMA CoversNone ==
  ASSUME NEW D
  PROVE  Covers(<<>>, D, {})
BY DEF Covers, Once, ToSet

LEMMA CoversOne ==
  ASSUME NEW D, NEW x \in D
  PROVE  Covers(<<x>>, D, {x})
<1>1. <<x>> \in Seq(D) /\ DOMAIN <<x>> = {1} /\ <<x>>[1] = x
  OBVIOUS
<1> QED
  BY <1>1 DEF Covers, Once, ToSet

LEMMA CoversBoth ==
  ASSUME NEW D, NEW A, NEW B, A \cap B = {}, NEW a, NEW b, Covers(a, D, A), Covers(b, D, B)
  PROVE  Covers(a \o b, D, A \cup B)
<1> DEFINE c == a \o b
<1>1. a \in Seq(D) /\ b \in Seq(D) /\ Once(a) /\ Once(b) /\ ToSet(a) = A /\ ToSet(b) = B
  BY DEF Covers
<1>2. /\ DOMAIN a = 1 .. Len(a) /\ DOMAIN b = 1 .. Len(b) /\ Len(a) \in Nat /\ Len(b) \in Nat
      /\ \A x : x \in A <=> \E i \in 1 .. Len(a) : a[i] = x
      /\ \A x : x \in B <=> \E i \in 1 .. Len(b) : b[i] = x
  BY <1>1, InSet
<1>3. /\ c \in Seq(D) /\ Len(c) = Len(a) + Len(b)
      /\ \A i \in 1 .. Len(a) + Len(b) : c[i] = IF i <= Len(a) THEN a[i] ELSE b[i - Len(a)]
  BY <1>1, JoinItems
<1> HIDE DEF c
<1>4. DOMAIN c = 1 .. Len(a) + Len(b) /\ \A x : x \in ToSet(c) <=> \E i \in 1 .. Len(c) : c[i] = x
  BY <1>3, InSet
<1>5. ASSUME NEW i \in 1 .. Len(a) + Len(b), NEW j \in 1 .. Len(a) + Len(b), c[i] = c[j] PROVE i = j
  <2>1. CASE i <= Len(a) /\ j <= Len(a)
    <3>1. i \in 1 .. Len(a) /\ j \in 1 .. Len(a) /\ a[i] = a[j]
      BY <1>2, <1>3, <1>5, <2>1
    <3> QED
      BY <1>1, <1>2, <3>1 DEF Once
  <2>2. CASE ~(i <= Len(a)) /\ ~(j <= Len(a))
    <3>1. i - Len(a) \in 1 .. Len(b) /\ j - Len(a) \in 1 .. Len(b) /\ b[i - Len(a)] = b[j - Len(a)]
      BY <1>2, <1>3, <1>5, <2>2
    <3>2. i - Len(a) = j - Len(a)
      BY <1>1, <1>2, <3>1 DEF Once
    <3> QED
      BY <1>2, <3>2
  <2>3. ASSUME NEW u \in 1 .. Len(a) + Len(b), NEW v \in 1 .. Len(a) + Len(b),
               u <= Len(a), ~(v <= Len(a)), c[u] = c[v]
        PROVE  FALSE
    <3>1. u \in 1 .. Len(a) /\ c[u] = a[u] /\ v - Len(a) \in 1 .. Len(b) /\ c[v] = b[v - Len(a)]
      BY <1>2, <1>3, <2>3
    <3>2. c[u] \in A /\ c[v] \in B
      BY <1>2, <3>1
    <3> QED
      BY <2>3, <3>2
  <2> QED
    BY <1>5, <2>1, <2>2, <2>3
<1>6. Once(c)
  BY <1>4, <1>5 DEF Once
<1>7. ASSUME NEW x PROVE x \in ToSet(c) <=> x \in A \/ x \in B
  <2>1. ASSUME NEW i \in 1 .. Len(c), c[i] = x PROVE x \in A \/ x \in B
    <3>1. CASE i <= Len(a)
      <4>1. i \in 1 .. Len(a) /\ a[i] = x
        BY <1>2, <1>3, <2>1, <3>1
      <4> QED
        BY <1>2, <4>1
    <3>2. CASE ~(i <= Len(a))
      <4>1. i - Len(a) \in 1 .. Len(b) /\ b[i - Len(a)] = x
        BY <1>2, <1>3, <2>1, <3>2
      <4> QED
        BY <1>2, <4>1
    <3> QED
      BY <3>1, <3>2
  <2>2. ASSUME NEW i \in 1 .. Len(a), a[i] = x PROVE i \in 1 .. Len(c) /\ c[i] = x
    BY <1>2, <1>3, <2>2
  <2>3. ASSUME NEW i \in 1 .. Len(b), b[i] = x
        PROVE  i + Len(a) \in 1 .. Len(c) /\ c[i + Len(a)] = x
    <3>1. i + Len(a) \in 1 .. Len(a) + Len(b) /\ ~(i + Len(a) <= Len(a)) /\ i + Len(a) - Len(a) = i
      BY <1>2
    <3> QED
      BY <1>3, <2>3, <3>1
  <2> QED
    BY <1>2, <1>4, <2>1, <2>2, <2>3
<1> QED
  BY <1>3, <1>6, <1>7 DEF Covers, c

\* The pointers cJSON_Delete follows lead to items there are.
LEMMA LinksInside ==
  ASSUME NEW at, NEW ls, Sound(at, ls), NEW n \in DOMAIN ls
  PROVE  /\ at[n].next \in DOMAIN ls \cup {NULL}
         /\ ~at[n].ref => at[n].child \in DOMAIN ls \cup {NULL}
<1> DEFINE D == DOMAIN ls
<1>1. /\ ls \in [D -> Seq(D)]
      /\ \A c \in D : at[c].ref => ls[c] = <<>>
      /\ \A c \in D : ~at[c].ref => Linked(at, c, ls[c])
  BY SoundFacts
<1>2. at[n].next \in D \cup {NULL}
  <2>1. CASE Root(ls, n)
    BY <2>1 DEF Sound, RootsLoose, LinkedToNothing
  <2>2. CASE ~Root(ls, n)
    <3>1. PICK c \in D : n \in ToSet(ls[c])
      BY <2>2 DEF Root
    <3>2. ls[c] \in Seq(D)
      BY <1>1
    <3>3. PICK i \in 1 .. Len(ls[c]) : ls[c][i] = n
      BY <3>1, <3>2, InSet
    <3>4. ~at[c].ref
      BY <1>1, <3>2, <3>3
    <3>5. at[n].next = IF i = Len(ls[c]) THEN NULL ELSE ls[c][i + 1]
      BY <1>1, <3>2, <3>3, <3>4, LinkedItems
    <3>6. i # Len(ls[c]) => ls[c][i + 1] \in D
      BY <3>2, <3>3
    <3> QED
      BY <3>5, <3>6
  <2> QED
    BY <2>1, <2>2
<1>3. ~at[n].ref => at[n].child \in D \cup {NULL}
  <2> SUFFICES ASSUME ~at[n].ref PROVE at[n].child \in D \cup {NULL}
    OBVIOUS
  <2>1. ls[n] \in Seq(D) /\ at[n].child = IF Len(ls[n]) = 0 THEN NULL ELSE ls[n][1]
    BY <1>1, LinkedItems
  <2>2. Len(ls[n]) # 0 => ls[n][1] \in D
    BY <2>1
  <2> QED
    BY <2>1, <2>2
<1> QED
  BY <1>2, <1>3

\* What DeleteOrder adds for n, given what it does one call deeper.
Freeing(at, n, g) ==
  IF n = NULL THEN <<>>
  ELSE (IF at[n].ref THEN <<>> ELSE g[at[n].child]) \o <<n>> \o g[at[n].next]

Orders(order, at, E, N) ==
  /\ \A item : DeleteOrder(at, item) = order[N + 1][item]
  /\ \A n \in E : order[0][n] = <<>>
  /\ \A k \in 1 .. N + 1 : \A n \in E : order[k][n] = Freeing(at, n, order[k - 1])

LEMMA OrderSteps ==
  ASSUME NEW at, NEW ls, Sound(at, ls), NEW N, N = Cardinality(DOMAIN ls),
         NEW E, E = DOMAIN ls \cup {NULL}
  PROVE  \E order : Orders(order, at, E, N)
<1> DEFINE D == DOMAIN ls
           X == [E -> Seq(D)]
           a == [n \in E |-> <<>>]
           step == [g \in X |-> [n \in E |-> Freeing(at, n, g)]]
           P(f) == f = [k \in 0 .. N + 1 |->
                          [n \in E |->
                             IF k = 0 \/ n = NULL THEN <<>>
                             ELSE (IF at[n].ref THEN <<>> ELSE f[k - 1][at[n].child])
                                  \o <<n>> \o f[k - 1][at[n].next]]]
<1>1. DOMAIN at = D /\ N \in Nat /\ N + 1 \in Nat
  BY SoundFinite
<1>2. \A n \in D : at[n].next \in E /\ (~at[n].ref => at[n].child \in E)
  BY LinksInside
<1>3. a \in X
  OBVIOUS
<1>4. step \in [X -> X]
  <2> SUFFICES ASSUME NEW g \in X, NEW n \in E PROVE Freeing(at, n, g) \in Seq(D)
    OBVIOUS
  <2>1. CASE n = NULL
    BY <2>1 DEF Freeing
  <2>2. CASE n # NULL
    <3> DEFINE b == IF at[n].ref THEN <<>> ELSE g[at[n].child]
               c == g[at[n].next]
    <3>1. n \in D
      BY <2>2
    <3>2. b \in Seq(D) /\ <<n>> \in Seq(D) /\ c \in Seq(D)
      <4>1. c \in Seq(D)
        BY <1>2, <3>1
      <4>2. <<>> \in Seq(D) /\ <<n>> \in Seq(D)
        BY <3>1
      <4>3. ~at[n].ref => g[at[n].child] \in Seq(D)
        BY <1>2, <3>1
      <4> QED
        BY <4>1, <4>2, <4>3
    <3> HIDE DEF b, c
    <3>3. b \o <<n>> \o c \in Seq(D)
      BY <3>2, JoinItems
    <3> QED
      BY <2>2, <3>3 DEF Freeing, b, c
  <2> QED
    BY <2>1, <2>2
<1> HIDE DEF a, step
<1>5. PICK f : f \in [0 .. N + 1 -> X] /\ f[0] = a /\ \A k \in 1 .. N + 1 : f[k] = step[f[k - 1]]
  <2> HIDE DEF X
  <2>1. \E f : Iterated(f, X, a, step, N + 1)
    BY <1>1, <1>3, <1>4, Iterates
  <2> QED
    BY <2>1 DEF Iterated
<1>6. P(f)
  <2> DEFINE g == [k \in 0 .. N + 1 |->
                     [n \in E |->
                        IF k = 0 \/ n = NULL THEN <<>>
                        ELSE (IF at[n].ref THEN <<>> ELSE f[k - 1][at[n].child])
                             \o <<n>> \o f[k - 1][at[n].next]]]
  <2>1. ASSUME NEW k \in 0 .. N + 1 PROVE f[k] = g[k]
    <3>1. CASE k = 0
      <4>1. g[k] = [n \in E |-> <<>>]
        BY <3>1
      <4> QED
        BY <1>5, <3>1, <4>1 DEF a
    <3>2. CASE k # 0
      <4>1. k \in 1 .. N + 1 /\ k - 1 \in 0 .. N + 1
        BY <1>1, <3>2
      <4>2. f[k - 1] \in X
        BY <1>5, <4>1
      <4>3. f[k] = [n \in E |-> Freeing(at, n, f[k - 1])]
        <5>1. f[k] = step[f[k - 1]]
          BY <1>5, <4>1
        <5> HIDE DEF X
        <5> QED
          BY <4>2, <5>1 DEF step
      <4>4. g[k] = [n \in E |-> Freeing(at, n, f[k - 1])]
        BY <3>2 DEF Freeing
      <4> QED
        BY <4>3, <4>4
    <3> QED
      BY <3>1, <3>2
  <2>2. f = [k \in 0 .. N + 1 |-> f[k]] /\ g = [k \in 0 .. N + 1 |-> g[k]]
    BY <1>5
  <2> HIDE DEF g
  <2>3. f = g
    BY <2>1, <2>2
  <2> QED
    BY <2>3 DEF g
<1> DEFINE order == CHOOSE g : P(g)
<1>7. P(order)
  <2>1. \E g : P(g)
    <3> HIDE DEF P
    <3> QED
      BY <1>6
  <2> HIDE DEF P
  <2> QED
    BY <2>1, Zenon
<1>8. \A item : DeleteOrder(at, item) = order[N + 1][item]
  BY <1>1, Zenon DEF DeleteOrder
<1> HIDE DEF order
<1>9. \A n \in E : order[0][n] = <<>>
  <2>1. 0 \in 0 .. N + 1
    BY <1>1
  <2>2. order[0] = [n \in E |-> <<>>]
    BY <1>7, <2>1
  <2> QED
    BY <2>2
<1>10. \A k \in 1 .. N + 1 : \A n \in E : order[k][n] = Freeing(at, n, order[k - 1])
  <2> SUFFICES ASSUME NEW k \in 1 .. N + 1, NEW n \in E PROVE order[k][n] = Freeing(at, n, order[k - 1])
    OBVIOUS
  <2>1. k \in 0 .. N + 1 /\ k # 0
    BY <1>1
  <2>2. order[k] = [m \in E |->
                      IF k = 0 \/ m = NULL THEN <<>>
                      ELSE (IF at[m].ref THEN <<>> ELSE order[k - 1][at[m].child])
                           \o <<m>> \o order[k - 1][at[m].next]]
    BY <1>7, <2>1
  <2> QED
    BY <2>1, <2>2 DEF Freeing
<1> QED
  BY <1>8, <1>9, <1>10 DEF Orders

LEMMA FreeingCovers ==
  ASSUME NEW at, NEW ls, Sound(at, ls), NEW x \in DOMAIN ls, NEW g, NEW T,
         ~at[x].ref => Covers(g[at[x].child], DOMAIN ls, After(ls, x, 1)),
         Covers(g[at[x].next], DOMAIN ls, T), Below(ls, x) \cap T = {}
  PROVE  Covers(Freeing(at, x, g), DOMAIN ls, Below(ls, x) \cup T)
<1> DEFINE D == DOMAIN ls
           A == After(ls, x, 1)
           b == IF at[x].ref THEN <<>> ELSE g[at[x].child]
<1>1. ls \in [D -> Seq(D)] /\ Apart(ls) /\ Acyclic(ls) /\ x # NULL /\ (at[x].ref => ls[x] = <<>>)
  BY SoundFacts DEF Sound
<1>2. {x} \cup A = Below(ls, x) /\ x \notin A
  BY <1>1, AfterIs
<1>3. at[x].ref => A = {}
  <2> SUFFICES ASSUME at[x].ref PROVE A = {}
    OBVIOUS
  <2>1. Len(ls[x]) = 0
    BY <1>1
  <2>2. After(ls, x, Len(ls[x]) + 1) = {}
    BY <1>1, AfterIs
  <2> QED
    BY <2>1, <2>2
<1>4. Covers(b, D, A)
  <2>1. CASE at[x].ref
    BY <1>3, <2>1, CoversNone
  <2>2. CASE ~at[x].ref
    BY <2>2
  <2> QED
    BY <2>1, <2>2
<1> HIDE DEF A, b
<1>5. Covers(b \o <<x>>, D, A \cup {x})
  <2>1. A \cap {x} = {} /\ Covers(<<x>>, D, {x})
    BY <1>2, CoversOne
  <2> QED
    BY <1>4, <2>1, CoversBoth
<1>6. (A \cup {x}) \cap T = {} /\ A \cup {x} = Below(ls, x)
  BY <1>2
<1>7. Covers((b \o <<x>>) \o g[at[x].next], D, (A \cup {x}) \cup T)
  BY <1>5, <1>6, CoversBoth
<1>8. Freeing(at, x, g) = (b \o <<x>>) \o g[at[x].next]
  BY <1>1 DEF Freeing, b
<1> QED
  BY <1>6, <1>7, <1>8

\* A part without x of a set with x has fewer elements.
LEMMA PartIsLess ==
  ASSUME NEW S, IsFiniteSet(S), NEW x \in S, NEW T \in SUBSET (S \ {x}), NEW k \in Nat, Cardinality(S) <= k
  PROVE  k # 0 /\ Cardinality(T) <= k - 1
<1>1. /\ IsFiniteSet(S \ {x}) /\ Cardinality(S \ {x}) = Cardinality(S) - 1
      /\ Cardinality(S) \in Nat /\ Cardinality(S \ {x}) \in Nat
  BY FS_RemoveElement, FS_CardinalityType
<1>2. Cardinality(T) <= Cardinality(S \ {x}) /\ Cardinality(T) \in Nat
  BY <1>1, FS_Subset, FS_CardinalityType
<1> QED
  BY <1>1, <1>2

\* cJSON_Delete of a root, all its loop and its calls of itself, frees what is
\* below it, each item once, whatever the depth (cJSON.c:253-276).
THEOREM FreesOnce ==
  ASSUME NEW at, NEW ls, Sound(at, ls)
  PROVE  /\ DeleteOrder(at, NULL) = <<>>
         /\ \A n \in DOMAIN ls : Root(ls, n) => Covers(DeleteOrder(at, n), DOMAIN ls, Below(ls, n))
<1> DEFINE D == DOMAIN ls
           E == D \cup {NULL}
           N == Cardinality(D)
           Place(c, i) == IF i <= Len(ls[c]) THEN ls[c][i] ELSE NULL
<1>1. /\ ls \in [D -> Seq(D)] /\ Apart(ls) /\ Acyclic(ls) /\ NULL \notin D
      /\ IsFiniteSet(D) /\ N \in Nat /\ N + 1 \in Nat
      /\ \A c \in D : ~at[c].ref => Linked(at, c, ls[c])
  BY SoundFacts, SoundFinite DEF Sound
<1>2. PICK order : /\ \A item : DeleteOrder(at, item) = order[N + 1][item]
                   /\ \A n \in E : order[0][n] = <<>>
                   /\ \A k \in 1 .. N + 1 : \A n \in E : order[k][n] = Freeing(at, n, order[k - 1])
  <2> HIDE DEF N, E
  <2>1. \E order : Orders(order, at, E, N)
    BY OrderSteps DEF N, E
  <2> QED
    BY <2>1 DEF Orders
<1> DEFINE Good(k) == \A c \in D : ~at[c].ref => \A i \in 1 .. Len(ls[c]) + 1 :
                        Cardinality(After(ls, c, i)) <= k =>
                          Covers(order[k][Place(c, i)], D, After(ls, c, i))
<1>3. \A c \in D : /\ Len(ls[c]) \in Nat /\ ls[c] \in Seq(D)
                   /\ \A i \in 1 .. Len(ls[c]) : ls[c][i] \in D
  BY <1>1
<1>4. \A c \in D : \A i \in 1 .. Len(ls[c]) + 1 :
        /\ Place(c, i) \in E /\ After(ls, c, i) \subseteq D /\ IsFiniteSet(After(ls, c, i))
        /\ Cardinality(After(ls, c, i)) \in Nat /\ Cardinality(After(ls, c, i)) <= N
  <2> SUFFICES ASSUME NEW c \in D, NEW i \in 1 .. Len(ls[c]) + 1
      PROVE /\ Place(c, i) \in E /\ After(ls, c, i) \subseteq D /\ IsFiniteSet(After(ls, c, i))
            /\ Cardinality(After(ls, c, i)) \in Nat /\ Cardinality(After(ls, c, i)) <= N
    OBVIOUS
  <2>1. Place(c, i) \in E
    BY <1>3
  <2>2. After(ls, c, i) \subseteq D
    BY <1>1, AfterIs
  <2>3. /\ IsFiniteSet(After(ls, c, i)) /\ Cardinality(After(ls, c, i)) <= N
        /\ Cardinality(After(ls, c, i)) \in Nat
    BY <1>1, <2>2, FS_Subset, FS_CardinalityType
  <2> QED
    BY <2>1, <2>2, <2>3
<1>5. \A k \in 1 .. N + 1 : order[k][NULL] = <<>>
  BY <1>2 DEF Freeing
<1>6. \A c \in D : After(ls, c, Len(ls[c]) + 1) = {}
  BY <1>1, AfterIs
<1>7. \A c \in D : ~at[c].ref => /\ at[c].child = Place(c, 1)
                                 /\ \A i \in 1 .. Len(ls[c]) : at[ls[c][i]].next = Place(c, i + 1)
  <2> SUFFICES ASSUME NEW c \in D, ~at[c].ref
      PROVE  /\ at[c].child = Place(c, 1)
             /\ \A i \in 1 .. Len(ls[c]) : at[ls[c][i]].next = Place(c, i + 1)
    OBVIOUS
  <2>1. ls[c] \in Seq(D) /\ Len(ls[c]) \in Nat /\ Linked(at, c, ls[c])
    BY <1>1, <1>3
  <2>2. /\ at[c].child = IF Len(ls[c]) = 0 THEN NULL ELSE ls[c][1]
        /\ \A i \in 1 .. Len(ls[c]) : at[ls[c][i]].next = IF i = Len(ls[c]) THEN NULL ELSE ls[c][i + 1]
    BY <2>1, LinkedItems
  <2>3. \A i \in 1 .. Len(ls[c]) : i + 1 <= Len(ls[c]) <=> i # Len(ls[c])
    BY <2>1
  <2> QED
    BY <2>1, <2>2, <2>3
<1> HIDE DEF N, D, E, Place
\* The children of x, when there is room for all that is below x but x.
<1>8. ASSUME NEW k \in Nat, Good(k), NEW x \in D, ~at[x].ref, Cardinality(After(ls, x, 1)) <= k
      PROVE  Covers(order[k][at[x].child], D, After(ls, x, 1))
  <2>1. 1 \in 1 .. Len(ls[x]) + 1
    BY <1>3
  <2> QED
    BY <1>7, <1>8, <2>1
<1>9. Good(0)
  <2> SUFFICES ASSUME NEW c \in D, ~at[c].ref, NEW i \in 1 .. Len(ls[c]) + 1,
                      Cardinality(After(ls, c, i)) <= 0
      PROVE Covers(order[0][Place(c, i)], D, After(ls, c, i))
    OBVIOUS
  <2>1. After(ls, c, i) = {}
    BY <1>4, FS_EmptySet
  <2>2. order[0][Place(c, i)] = <<>>
    BY <1>2, <1>4
  <2> QED
    BY <2>1, <2>2, CoversNone
<1>10. ASSUME NEW k \in 1 .. N + 1, Good(k - 1) PROVE Good(k)
  <2> SUFFICES ASSUME NEW c \in D, ~at[c].ref, NEW i \in 1 .. Len(ls[c]) + 1,
                      Cardinality(After(ls, c, i)) <= k
      PROVE Covers(order[k][Place(c, i)], D, After(ls, c, i))
    OBVIOUS
  <2>1. CASE i = Len(ls[c]) + 1
    <3>1. Place(c, i) = NULL /\ After(ls, c, i) = {}
      <4>1. Len(ls[c]) \in Nat /\ ~(Len(ls[c]) + 1 <= Len(ls[c]))
        BY <1>3
      <4> QED
        BY <1>6, <2>1, <4>1 DEF Place
    <3> QED
      BY <1>5, <3>1, CoversNone
  <2>2. CASE i # Len(ls[c]) + 1
    <3> DEFINE x == ls[c][i]
               S == After(ls, c, i)
               T == After(ls, c, i + 1)
    <3>1. i \in 1 .. Len(ls[c]) /\ i + 1 \in 1 .. Len(ls[c]) + 1 /\ x \in D /\ Place(c, i) = x
      BY <1>3, <2>2 DEF Place
    <3>2. S = Below(ls, x) \cup T /\ Below(ls, x) \cap T = {}
      BY <1>1, <3>1, AfterIs
    <3>3. {x} \cup After(ls, x, 1) = Below(ls, x) /\ x \notin After(ls, x, 1)
      BY <1>1, <3>1, AfterIs
    <3>4. IsFiniteSet(S) /\ x \in S /\ T \in SUBSET (S \ {x}) /\ After(ls, x, 1) \in SUBSET (S \ {x})
      BY <1>4, <3>2, <3>3
    <3>5. k \in Nat /\ k - 1 \in Nat
      BY <1>1
    <3>6. Cardinality(T) <= k - 1 /\ Cardinality(After(ls, x, 1)) <= k - 1
      <4> HIDE DEF S, T, x
      <4> QED
        BY <3>4, <3>5, PartIsLess DEF S
    <3>7. ~at[x].ref => Covers(order[k - 1][at[x].child], D, After(ls, x, 1))
      BY <1>8, <1>10, <3>1, <3>5, <3>6
    <3>8. Covers(order[k - 1][at[x].next], D, T)
      <4>1. Covers(order[k - 1][Place(c, i + 1)], D, T)
        BY <1>10, <3>1, <3>6
      <4>2. at[x].next = Place(c, i + 1)
        BY <1>7, <3>1
      <4> QED
        BY <4>1, <4>2
    <3>9. Covers(Freeing(at, x, order[k - 1]), D, Below(ls, x) \cup T)
      <4> HIDE DEF T, x
      <4> QED
        BY <3>1, <3>2, <3>7, <3>8, FreeingCovers DEF D
    <3>10. order[k][x] = Freeing(at, x, order[k - 1])
      BY <1>2, <3>1 DEF E
    <3> QED
      BY <3>1, <3>2, <3>9, <3>10
  <2> QED
    BY <2>1, <2>2
<1>11. Good(N)
  <2> DEFINE S == {k \in 0 .. N : ~Good(k)}
  <2> SUFFICES ASSUME S # {} PROVE FALSE
    BY <1>1
  <2> HIDE DEF Good
  <2>1. S \in SUBSET Nat
    OBVIOUS
  <2>2. PICK k \in S : \A m \in S : k <= m
    <3> HIDE DEF S
    <3> QED
      BY <2>1, LeastNatural
  <2>3. k \in 0 .. N /\ ~Good(k) /\ k # 0
    BY <1>9
  <2>4. k - 1 \in 0 .. N /\ k \in 1 .. N + 1 /\ ~(k <= k - 1)
    BY <1>1, <2>3
  <2>5. k - 1 \notin S
    <3> HIDE DEF S
    <3> QED
      BY <2>2, <2>4
  <2>6. Good(k - 1)
    BY <2>4, <2>5
  <2> QED
    BY <1>10, <2>3, <2>4, <2>6
<1>12. N + 1 \in 1 .. N + 1 /\ N + 1 - 1 = N
  BY <1>1
<1>13. DeleteOrder(at, NULL) = <<>>
  BY <1>2, <1>5, <1>12
<1>14. ASSUME NEW n \in D, Root(ls, n) PROVE Covers(DeleteOrder(at, n), D, Below(ls, n))
  <2>1. at[n].next = NULL
    BY <1>14 DEF Sound, RootsLoose, LinkedToNothing, D
  <2>2. Covers(order[N][NULL], D, {})
    <3>1. order[N][NULL] = <<>>
      <4>1. N = 0 \/ N \in 1 .. N + 1
        BY <1>1
      <4> QED
        BY <1>2, <1>5, <4>1 DEF E
    <3> QED
      BY <3>1, CoversNone
  <2>3. Cardinality(After(ls, n, 1)) <= N
    <3>1. 1 \in 1 .. Len(ls[n]) + 1
      BY <1>3
    <3> QED
      BY <1>4, <3>1
  <2>4. ~at[n].ref => Covers(order[N][at[n].child], D, After(ls, n, 1))
    BY <1>1, <1>8, <1>11, <2>3
  <2>5. Covers(Freeing(at, n, order[N]), D, Below(ls, n) \cup {})
    <3> DEFINE T == {}
               g == order[N]
    <3>1. Below(ls, n) \cap T = {} /\ Covers(g[at[n].next], D, T)
      BY <2>1, <2>2
    <3>2. ~at[n].ref => Covers(g[at[n].child], D, After(ls, n, 1))
      BY <2>4
    <3> HIDE DEF T, g
    <3>3. Covers(Freeing(at, n, g), D, Below(ls, n) \cup T)
      BY <3>1, <3>2, FreeingCovers DEF D
    <3> QED
      BY <3>3 DEF T, g
  <2>6. order[N + 1][n] = Freeing(at, n, order[N])
    <3>1. n \in E
      BY DEF E
    <3>2. ASSUME NEW k \in 1 .. N + 1 PROVE order[k][n] = Freeing(at, n, order[k - 1])
      BY <1>2, <3>1
    <3>3. ASSUME NEW k \in 1 .. N + 1, k = N + 1 PROVE order[k][n] = Freeing(at, n, order[N])
      <4>1. k - 1 = N
        BY <1>1, <3>3
      <4> QED
        BY <3>2, <4>1
    <3> QED
      BY <1>12, <3>3
  <2>7. DeleteOrder(at, n) = order[N + 1][n] /\ Below(ls, n) \cup {} = Below(ls, n)
    BY <1>2
  <2> QED
    BY <2>5, <2>6, <2>7
<1> QED
  BY <1>13, <1>14 DEF D

-----------------------------------------------------------------------------
(* The trees of the program are what is below its roots.                   *)

LEMMA ItemsSound ==
  ASSUME NEW h, NEW ls, Sound(h.at, ls), NEW n \in DOMAIN ls, ~h.at[n].ref
  PROVE  Items(h, n) = ls[n]
<1>1. /\ ls[n] \in Seq(DOMAIN h.at) /\ Once(ls[n]) /\ Linked(h.at, n, ls[n])
      /\ 0 \notin DOMAIN h.at /\ IsFiniteSet(DOMAIN h.at)
  BY SoundFacts, SoundFinite DEF NULL
<1> QED
  BY <1>1, ItemsAre

LEMMA TreeIs ==
  ASSUME NEW h, NEW ls, Sound(h.at, ls), NEW n \in DOMAIN ls
  PROVE  Tree(h, n) = Below(ls, n)
<1> DEFINE D == DOMAIN ls
           under(f, m) == {m} \cup (IF h.at[m].ref THEN {} ELSE UNION {f[c] : c \in ToSet(Items(h, m))})
           P(f) == f = [m \in Live(h) |-> under(f, m)]
           w == [m \in D |-> Below(ls, m)]
<1>1. /\ Live(h) = D /\ ls \in [D -> Seq(D)] /\ Apart(ls) /\ Acyclic(ls)
      /\ \A m \in D : h.at[m].ref => ls[m] = <<>>
      /\ \A m \in D : ~h.at[m].ref => Items(h, m) = ls[m]
      /\ IsFiniteSet(D)
  BY SoundFacts, SoundFinite, ItemsSound DEF Sound, Live
<1>2. \A m \in D : ToSet(ls[m]) \subseteq D
  BY <1>1, InSet
<1>3. ASSUME NEW f, NEW m \in D, \A c \in ToSet(ls[m]) : f[c] = Below(ls, c)
      PROVE  under(f, m) = Below(ls, m)
  <2>1. Below(ls, m) = {m} \cup UNION {Below(ls, c) : c \in ToSet(ls[m])}
    BY <1>1, BelowUnfolds
  <2>2. UNION {Below(ls, c) : c \in ToSet(ls[m])} = UNION {f[c] : c \in ToSet(ls[m])}
    BY <1>3
  <2>3. CASE h.at[m].ref
    <3>1. ToSet(ls[m]) = {}
      BY <1>1, <2>3 DEF ToSet
    <3>2. under(f, m) = {m}
      BY <2>3
    <3>3. UNION {Below(ls, c) : c \in ToSet(ls[m])} = {}
      BY <3>1
    <3> QED
      BY <2>1, <3>2, <3>3
  <2>4. CASE ~h.at[m].ref
    <3>1. under(f, m) = {m} \cup UNION {f[c] : c \in ToSet(ls[m])}
      BY <1>1, <2>4
    <3> QED
      BY <2>1, <2>2, <3>1
  <2> QED
    BY <2>3, <2>4
<1> HIDE DEF under
<1>4. P(w)
  <2>1. \A m \in D : under(w, m) = Below(ls, m)
    BY <1>2, <1>3
  <2>2. [m \in Live(h) |-> under(w, m)] = w
    BY <1>1, <2>1
  <2> QED
    BY <2>2
<1> DEFINE tree == CHOOSE f : P(f)
<1>5. P(tree)
  <2>1. \E f : P(f)
    <3> HIDE DEF P, w
    <3> QED
      BY <1>4
  <2> HIDE DEF P
  <2> QED
    BY <2>1, Zenon
<1>6. Tree(h, n) = tree[n]
  BY Zenon DEF Tree, under
<1> HIDE DEF tree
<1>7. \A m \in D : tree[m] = under(tree, m)
  BY <1>1, <1>5
<1> HIDE DEF P, w
<1>8. \A m \in D : /\ Below(ls, m) \subseteq D /\ IsFiniteSet(Below(ls, m))
                   /\ Cardinality(Below(ls, m)) \in Nat
  <2> SUFFICES ASSUME NEW m \in D
      PROVE /\ Below(ls, m) \subseteq D /\ IsFiniteSet(Below(ls, m)) /\ Cardinality(Below(ls, m)) \in Nat
    OBVIOUS
  <2>1. Below(ls, m) \subseteq D
    BY <1>1, BelowClosed
  <2> QED
    BY <1>1, <2>1, FS_Subset, FS_CardinalityType
<1>9. ASSUME NEW m \in D, NEW c \in ToSet(ls[m])
      PROVE  Cardinality(Below(ls, c)) < Cardinality(Below(ls, m))
  <2>1. /\ Below(ls, m) = {m} \cup UNION {Below(ls, d) : d \in ToSet(ls[m])}
        /\ m \notin UNION {Below(ls, d) : d \in ToSet(ls[m])}
    BY <1>1, BelowUnfolds
  <2>2. m \in Below(ls, m) /\ Below(ls, c) \in SUBSET (Below(ls, m) \ {m})
    BY <2>1
  <2>3. c \in D
    BY <1>2
  <2>4. Cardinality(Below(ls, c)) <= Cardinality(Below(ls, m)) - 1
    BY <1>8, <2>2, PartIsLess
  <2> QED
    BY <1>8, <2>3, <2>4
<1>10. \A m \in D : tree[m] = Below(ls, m)
  <2> DEFINE S == {k \in Nat : \E m \in D : Cardinality(Below(ls, m)) = k /\ tree[m] # Below(ls, m)}
  <2>1. S = {}
    <3> SUFFICES ASSUME S # {} PROVE FALSE
      OBVIOUS
    <3>1. S \in SUBSET Nat
      OBVIOUS
    <3>2. PICK k \in S : \A j \in S : k <= j
      <4> HIDE DEF S
      <4> QED
        BY <3>1, LeastNatural
    <3>3. PICK m \in D : Cardinality(Below(ls, m)) = k /\ tree[m] # Below(ls, m)
      OBVIOUS
    <3>4. ASSUME NEW c \in ToSet(ls[m]) PROVE tree[c] = Below(ls, c)
      <4>1. c \in D /\ Cardinality(Below(ls, c)) \in Nat /\ Cardinality(Below(ls, c)) < k /\ k \in Nat
        BY <1>2, <1>8, <1>9, <3>3
      <4>2. Cardinality(Below(ls, c)) \notin S
        <5> HIDE DEF S
        <5> QED
          BY <3>2, <4>1
      <4> QED
        BY <4>1, <4>2
    <3> QED
      BY <1>3, <1>7, <3>3, <3>4
  <2> SUFFICES ASSUME NEW m \in D, tree[m] # Below(ls, m) PROVE FALSE
    OBVIOUS
  <2> QED
    BY <1>8, <2>1
<1> QED
  BY <1>6, <1>10

LEMMA OwnedIs ==
  ASSUME NEW h, NEW ls, Sound(h.at, ls), NEW R \in SUBSET DOMAIN ls
  PROVE  Owned(h, R) = UNION {Below(ls, r) : r \in R}
<1>1. \A r \in R : Tree(h, r) = Below(ls, r)
  BY TreeIs
<1> QED
  BY <1>1 DEF Owned

LEMMA ReachCovers ==
  ASSUME NEW h, NEW ls, Sound(h.at, ls), NEW n \in DOMAIN ls, NEW m \in Below(ls, n)
  PROVE  Reaches(h, n, m)
<1> DEFINE D == DOMAIN ls
           shows == UNION {{c} \X ToSet(Items(h, c)) : c \in Live(h)}
<1>1. /\ Live(h) = D /\ ls \in [D -> Seq(D)]
      /\ \A c \in D : h.at[c].ref => ls[c] = <<>>
      /\ \A c \in D : ~h.at[c].ref => Items(h, c) = ls[c]
  BY SoundFacts, SoundFinite, ItemsSound DEF Live
<1>2. ASSUME NEW S \in SUBSET (D \ {m}), n \in S PROVE \E e \in shows : e[1] \in S /\ e[2] \notin S
  <2> SUFFICES ASSUME \A e \in shows : e[1] \in S => e[2] \in S PROVE FALSE
    OBVIOUS
  <2>1. ASSUME NEW c \in S PROVE ToSet(ls[c]) \subseteq S
    <3>1. CASE h.at[c].ref
      <4>1. ToSet(ls[c]) = {}
        BY <1>1, <3>1 DEF ToSet
      <4> QED
        BY <4>1
    <3>2. CASE ~h.at[c].ref
      <4>1. \A x \in ToSet(ls[c]) : <<c, x>> \in shows
        BY <1>1, <3>2
      <4>2. \A x \in ToSet(ls[c]) : <<c, x>>[1] = c /\ <<c, x>>[2] = x
        OBVIOUS
      <4> HIDE DEF shows
      <4> QED
        BY <4>1, <4>2
    <3> QED
      BY <3>1, <3>2
  <2>2. Below(ls, n) \subseteq S
    BY <1>1, <1>2, <2>1, BelowLeast DEF Closed
  <2> QED
    BY <2>2
<1> QED
  BY <1>1, <1>2 DEF Reaches

-----------------------------------------------------------------------------
(* The blocks of names and texts.                                          *)

Keyed(at)  == {n \in DOMAIN at : OwnsKey(at[n])}
Texted(at) == {n \in DOMAIN at : OwnsValue(at[n])}
Blocks(at) == Cardinality(Keyed(at)) + Cardinality(Texted(at))
Cost(i)    == (IF OwnsKey(i) THEN 1 ELSE 0) + (IF OwnsValue(i) THEN 1 ELSE 0)

LEMMA LabelOwns ==
  ASSUME NEW i, NEW j, Label(i) = Label(j)
  PROVE  OwnsKey(i) = OwnsKey(j) /\ OwnsValue(i) = OwnsValue(j)
<1>1. i.type = j.type /\ i.ref = j.ref /\ i.const = j.const /\ i.key = j.key /\ i.value = j.value
  BY DEF Label
<1> QED
  BY <1>1 DEF OwnsKey, OwnsValue

LEMMA BlocksType ==
  ASSUME NEW at, IsFiniteSet(DOMAIN at)
  PROVE  /\ IsFiniteSet(Keyed(at)) /\ IsFiniteSet(Texted(at)) /\ Blocks(at) \in Nat
         /\ Cardinality(Keyed(at)) \in Nat /\ Cardinality(Texted(at)) \in Nat
<1>1. Keyed(at) \in SUBSET DOMAIN at /\ Texted(at) \in SUBSET DOMAIN at
  BY DEF Keyed, Texted
<1>2. /\ IsFiniteSet(Keyed(at)) /\ Cardinality(Keyed(at)) \in Nat
      /\ IsFiniteSet(Texted(at)) /\ Cardinality(Texted(at)) \in Nat
  BY <1>1, FS_Subset, FS_CardinalityType
<1> QED
  BY <1>2 DEF Blocks

LEMMA BlocksSame ==
  ASSUME NEW at, NEW at2, SameLabels(at, at2)
  PROVE  Blocks(at2) = Blocks(at)
<1>1. DOMAIN at2 = DOMAIN at
      /\ \A n \in DOMAIN at : /\ OwnsKey(at2[n]) = OwnsKey(at[n])
                              /\ OwnsValue(at2[n]) = OwnsValue(at[n])
  BY LabelOwns DEF SameLabels
<1>2. Keyed(at2) = Keyed(at) /\ Texted(at2) = Texted(at)
  BY <1>1 DEF Keyed, Texted
<1> QED
  BY <1>2 DEF Blocks

LEMMA BlocksChange ==
  ASSUME NEW at, NEW at2, NEW n, IsFiniteSet(DOMAIN at), DOMAIN at \ {n} = DOMAIN at2 \ {n},
         \A m \in DOMAIN at \ {n} : at2[m] = at[m]
  PROVE  Blocks(at2) = Blocks(at) - (IF n \in DOMAIN at THEN Cost(at[n]) ELSE 0)
                                  + (IF n \in DOMAIN at2 THEN Cost(at2[n]) ELSE 0)
<1> DEFINE K == Keyed(at)
           V == Texted(at)
           K2 == Keyed(at2)
           V2 == Texted(at2)
<1>1. K \ {n} = K2 \ {n} /\ V \ {n} = V2 \ {n} /\ IsFiniteSet(K) /\ IsFiniteSet(V)
  <2>1. K \ {n} = K2 \ {n} /\ V \ {n} = V2 \ {n}
    BY DEF Keyed, Texted
  <2> QED
    BY <2>1, BlocksType
<1>2. /\ n \in K <=> n \in DOMAIN at /\ OwnsKey(at[n])
      /\ n \in V <=> n \in DOMAIN at /\ OwnsValue(at[n])
      /\ n \in K2 <=> n \in DOMAIN at2 /\ OwnsKey(at2[n])
      /\ n \in V2 <=> n \in DOMAIN at2 /\ OwnsValue(at2[n])
  BY DEF Keyed, Texted
<1> HIDE DEF K, V, K2, V2
<1>3. /\ Cardinality(K2) = Cardinality(K) - (IF n \in K THEN 1 ELSE 0) + (IF n \in K2 THEN 1 ELSE 0)
      /\ Cardinality(K) \in Nat /\ Cardinality(K2) \in Nat
  BY <1>1, CountOne
<1>4. /\ Cardinality(V2) = Cardinality(V) - (IF n \in V THEN 1 ELSE 0) + (IF n \in V2 THEN 1 ELSE 0)
      /\ Cardinality(V) \in Nat /\ Cardinality(V2) \in Nat
  BY <1>1, CountOne
<1>5. Blocks(at) = Cardinality(K) + Cardinality(V) /\ Blocks(at2) = Cardinality(K2) + Cardinality(V2)
  BY DEF Blocks, K, V, K2, V2
<1>6. /\ (IF n \in DOMAIN at THEN Cost(at[n]) ELSE 0)
           = (IF n \in K THEN 1 ELSE 0) + (IF n \in V THEN 1 ELSE 0)
      /\ (IF n \in DOMAIN at2 THEN Cost(at2[n]) ELSE 0)
           = (IF n \in K2 THEN 1 ELSE 0) + (IF n \in V2 THEN 1 ELSE 0)
  BY <1>2 DEF Cost
<1> QED
  BY <1>3, <1>4, <1>5, <1>6

LEMMA BlocksFreed ==
  ASSUME NEW at, IsFiniteSet(DOMAIN at), NEW B \in SUBSET DOMAIN at
  PROVE  /\ Cardinality(B \cap Keyed(at)) \in Nat /\ Cardinality(B \cap Texted(at)) \in Nat
         /\ Blocks([m \in DOMAIN at \ B |-> at[m]])
              = Blocks(at) - (Cardinality(B \cap Keyed(at)) + Cardinality(B \cap Texted(at)))
<1> DEFINE at2 == [m \in DOMAIN at \ B |-> at[m]]
           K == Keyed(at)
           V == Texted(at)
<1>1. Keyed(at2) = K \ B /\ Texted(at2) = V \ B
  BY DEF Keyed, Texted
<1>2. IsFiniteSet(K) /\ IsFiniteSet(V) /\ Cardinality(K) \in Nat /\ Cardinality(V) \in Nat
  BY BlocksType
<1> HIDE DEF at2, K, V
<1>3. K \cap B = B \cap K /\ V \cap B = B \cap V
  OBVIOUS
<1>4. Cardinality(K \ B) = Cardinality(K) - Cardinality(B \cap K) /\ IsFiniteSet(B \cap K)
  BY <1>2, <1>3, FS_Difference, FS_Intersection
<1>5. Cardinality(V \ B) = Cardinality(V) - Cardinality(B \cap V) /\ IsFiniteSet(B \cap V)
  BY <1>2, <1>3, FS_Difference, FS_Intersection
<1>6. Cardinality(B \cap K) \in Nat /\ Cardinality(B \cap V) \in Nat
  BY <1>4, <1>5, FS_CardinalityType
<1>7. Blocks(at) = Cardinality(K) + Cardinality(V) /\ Blocks(at2) = Cardinality(K \ B) + Cardinality(V \ B)
  BY <1>1 DEF Blocks, K, V
<1>8. Blocks(at2) = Blocks(at) - (Cardinality(B \cap K) + Cardinality(B \cap V))
  BY <1>2, <1>4, <1>5, <1>6, <1>7
<1> QED
  BY <1>6, <1>8 DEF at2, K, V

-----------------------------------------------------------------------------
(* The functions on links leave the other blocks and the fuel.             *)

HasRest(g, strings, fuel) == g = Mem(g.at, strings, fuel)

LEMMA LinksHaveRest ==
  ASSUME NEW g, NEW strings, NEW fuel, HasRest(g, strings, fuel), NEW n, NEW v
  PROVE  /\ HasRest([g EXCEPT !.at[n].next = v], strings, fuel)
         /\ HasRest([g EXCEPT !.at[n].prev = v], strings, fuel)
         /\ HasRest([g EXCEPT !.at[n].child = v], strings, fuel)
<1>1. ASSUME NEW at PROVE HasRest([g EXCEPT !.at = at], strings, fuel)
  BY DEF HasRest, Mem
<1>2. /\ [g EXCEPT !.at[n].next = v] = [g EXCEPT !.at = [g.at EXCEPT ![n].next = v]]
      /\ [g EXCEPT !.at[n].prev = v] = [g EXCEPT !.at = [g.at EXCEPT ![n].prev = v]]
      /\ [g EXCEPT !.at[n].child = v] = [g EXCEPT !.at = [g.at EXCEPT ![n].child = v]]
  BY DEF HasRest, Mem
<1> QED
  BY <1>1, <1>2

LEMMA AddRest ==
  ASSUME NEW h, NEW strings, NEW fuel, HasRest(h, strings, fuel), NEW a, NEW x, a # NULL, x # NULL, a # x
  PROVE  LET d == add_item_to_array(h, a, x) IN d.r = TRUE /\ HasRest(d.h, strings, fuel)
<1> DEFINE d == add_item_to_array(h, a, x)
           child == h.at[a].child
           tail == h.at[child].prev
           g1 == [h EXCEPT !.at[a].child = x]
           g2 == [g1 EXCEPT !.at[x].prev = x]
           g3 == [g2 EXCEPT !.at[x].next = NULL]
           k1 == [h EXCEPT !.at[tail].next = x]
           k2 == [k1 EXCEPT !.at[x].prev = tail]
           k3 == [k2 EXCEPT !.at[child].prev = x]
<1>1. [h EXCEPT !.at[a].child = x, !.at[x].prev = x, !.at[x].next = NULL] = g3
  OBVIOUS
<1>2. [suffix_object(h, tail, x) EXCEPT !.at[child].prev = x] = k3
  BY DEF suffix_object
<1>3. HasRest(g3, strings, fuel)
  <2>1. HasRest(g1, strings, fuel)
    BY LinksHaveRest
  <2> HIDE DEF g1
  <2>2. HasRest(g2, strings, fuel)
    BY <2>1, LinksHaveRest
  <2> HIDE DEF g2
  <2> QED
    BY <2>2, LinksHaveRest
<1>4. HasRest(k3, strings, fuel)
  <2>1. HasRest(k1, strings, fuel)
    BY LinksHaveRest
  <2> HIDE DEF k1
  <2>2. HasRest(k2, strings, fuel)
    BY <2>1, LinksHaveRest
  <2> HIDE DEF k2
  <2> QED
    BY <2>2, LinksHaveRest
<1>5. d = [h |-> IF child = NULL
                 THEN [h EXCEPT !.at[a].child = x, !.at[x].prev = x, !.at[x].next = NULL]
                 ELSE IF tail = NULL THEN h
                 ELSE [suffix_object(h, tail, x) EXCEPT !.at[child].prev = x],
           r |-> TRUE]
  BY Zenon DEF add_item_to_array
<1>6. d = [h |-> IF child = NULL THEN g3 ELSE IF tail = NULL THEN h ELSE k3, r |-> TRUE]
  <2> HIDE DEF d, g3, k3
  <2> QED
    BY <1>1, <1>2, <1>5, Zenon
<1> HIDE DEF g3, k3, d, child, tail
<1>7. d.r = TRUE /\ d.h = IF child = NULL THEN g3 ELSE IF tail = NULL THEN h ELSE k3
  BY <1>6
<1>8. HasRest(d.h, strings, fuel)
  BY <1>3, <1>4, <1>7
<1> QED
  BY <1>7, <1>8 DEF d

LEMMA DetachRest ==
  ASSUME NEW h, NEW strings, NEW fuel, HasRest(h, strings, fuel), NEW a, NEW x, a # NULL, x # NULL
  PROVE  LET d == cJSON_DetachItemViaPointer(h, a, x) IN d.r = x /\ HasRest(d.h, strings, fuel)
<1> DEFINE d == cJSON_DetachItemViaPointer(h, a, x)
           i == h.at[x]
           head == h.at[a].child
           h1 == IF x = head THEN [h EXCEPT !.at[a].child = i.next]
                 ELSE [h EXCEPT !.at[i.prev].next = i.next]
           h2 == IF i.next = NULL THEN h1 ELSE [h1 EXCEPT !.at[i.next].prev = i.prev]
           h3 == IF x # head /\ i.next = NULL THEN [h2 EXCEPT !.at[head].prev = i.prev] ELSE h2
           h4 == [h3 EXCEPT !.at[x].prev = NULL]
           h5 == [h4 EXCEPT !.at[x].next = NULL]
<1>1. d = [h |-> [h3 EXCEPT !.at[x].prev = NULL, !.at[x].next = NULL], r |-> x]
  BY Zenon DEF cJSON_DetachItemViaPointer
<1>2. [h3 EXCEPT !.at[x].prev = NULL, !.at[x].next = NULL] = h5
  <2> HIDE DEF h3
  <2> QED
    OBVIOUS
<1>3. HasRest(h1, strings, fuel)
  BY LinksHaveRest
<1> HIDE DEF h1
<1>4. HasRest(h2, strings, fuel)
  BY <1>3, LinksHaveRest
<1> HIDE DEF h2
<1>5. HasRest(h3, strings, fuel)
  BY <1>4, LinksHaveRest
<1> HIDE DEF h3
<1>6. HasRest(h4, strings, fuel)
  BY <1>5, LinksHaveRest
<1> HIDE DEF h4
<1>7. HasRest(h5, strings, fuel)
  BY <1>6, LinksHaveRest
<1>8. d = [h |-> h5, r |-> x]
  <2> HIDE DEF d, h5
  <2> QED
    BY <1>1, <1>2
<1> HIDE DEF h5, d
<1>9. d.r = x /\ d.h = h5
  BY <1>8
<1> QED
  BY <1>7, <1>9 DEF d

LEMMA InsertRest ==
  ASSUME NEW h, NEW strings, NEW fuel, HasRest(h, strings, fuel), NEW a, NEW x, NEW which \in Nat,
         get_array_item(h, a, which) # NULL
  PROVE  LET d == cJSON_InsertItemInArray(h, a, which, x) IN d.r = TRUE /\ HasRest(d.h, strings, fuel)
<1> DEFINE d == cJSON_InsertItemInArray(h, a, which, x)
           after == get_array_item(h, a, which)
           before == h.at[after].prev
           k1 == [h EXCEPT !.at[x].next = after]
           k2 == [k1 EXCEPT !.at[x].prev = before]
           k3 == [k2 EXCEPT !.at[after].prev = x]
           k4 == IF after = h.at[a].child THEN [k3 EXCEPT !.at[a].child = x]
                 ELSE [k3 EXCEPT !.at[before].next = x]
           h1 == [h EXCEPT !.at[x].next = after, !.at[x].prev = before, !.at[after].prev = x]
<1>1. h1 = k3
  <2> HIDE DEF after, before
  <2> QED
    OBVIOUS
<1>2. d = [h |-> IF after = h.at[a].child THEN [h1 EXCEPT !.at[a].child = x]
                 ELSE [h1 EXCEPT !.at[before].next = x],
           r |-> TRUE]
  <2>1. ~(which < 0)
    OBVIOUS
  <2> QED
    BY <2>1, Zenon DEF cJSON_InsertItemInArray
<1>3. d = [h |-> k4, r |-> TRUE]
  <2> HIDE DEF d, h1, k3, after, before
  <2> QED
    BY <1>1, <1>2
<1>4. HasRest(k4, strings, fuel)
  <2> HIDE DEF after, before
  <2>1. HasRest(k1, strings, fuel)
    BY LinksHaveRest
  <2> HIDE DEF k1
  <2>2. HasRest(k2, strings, fuel)
    BY <2>1, LinksHaveRest
  <2> HIDE DEF k2
  <2>3. HasRest(k3, strings, fuel)
    BY <2>2, LinksHaveRest
  <2> HIDE DEF k3
  <2> QED
    BY <2>3, LinksHaveRest
<1> HIDE DEF k4, d
<1>5. d.r = TRUE /\ d.h = k4
  BY <1>3
<1> QED
  BY <1>4, <1>5 DEF d

LEMMA PutRest ==
  ASSUME NEW h, NEW strings, NEW fuel, HasRest(h, strings, fuel), NEW a, NEW old, NEW x
  PROVE  HasRest(PutInPlace(h, a, old, x), strings, fuel)
<1> DEFINE i    == h.at[old]
           head == h.at[a].child
           k1 == [h EXCEPT !.at[x].next = i.next]
           k2 == [k1 EXCEPT !.at[x].prev = i.prev]
           h1 == [h EXCEPT !.at[x].next = i.next, !.at[x].prev = i.prev]
           h2 == IF i.next = NULL THEN h1 ELSE [h1 EXCEPT !.at[i.next].prev = x]
           f1 == [h2 EXCEPT !.at[a].child = x]
           v  == IF h2.at[head].prev = head THEN x ELSE f1.at[x].prev
           first == [h2 EXCEPT !.at[a].child = x,
                               !.at[x].prev = IF h2.at[head].prev = head THEN x ELSE @]
           inner == IF i.prev = NULL THEN h2 ELSE [h2 EXCEPT !.at[i.prev].next = x]
           h3 == IF head = old THEN first
                 ELSE IF i.next = NULL THEN [inner EXCEPT !.at[head].prev = x]
                 ELSE inner
           h4 == [h3 EXCEPT !.at[old].next = NULL]
<1>1. PutInPlace(h, a, old, x) = [h4 EXCEPT !.at[old].prev = NULL]
  <2>1. PutInPlace(h, a, old, x) = [h3 EXCEPT !.at[old].next = NULL, !.at[old].prev = NULL]
    BY Zenon DEF PutInPlace
  <2>2. [h3 EXCEPT !.at[old].next = NULL, !.at[old].prev = NULL] = [h4 EXCEPT !.at[old].prev = NULL]
    <3> HIDE DEF h3
    <3> QED
      OBVIOUS
  <2> HIDE DEF h3, h4
  <2> QED
    BY <2>1, <2>2
<1>2. h1 = k2
  OBVIOUS
<1>3. HasRest(k1, strings, fuel)
  BY LinksHaveRest
<1>4. HasRest(h1, strings, fuel)
  <2> HIDE DEF k1, h1
  <2> QED
    BY <1>2, <1>3, LinksHaveRest
<1> HIDE DEF h1
<1>5. HasRest(h2, strings, fuel)
  BY <1>4, LinksHaveRest
<1>6. first = [f1 EXCEPT !.at[x].prev = v]
  <2> HIDE DEF h2, head
  <2> QED
    OBVIOUS
<1> HIDE DEF h2, v, first
<1>7. HasRest(first, strings, fuel)
  <2>1. HasRest(f1, strings, fuel)
    BY <1>5, LinksHaveRest
  <2> HIDE DEF f1
  <2> QED
    BY <1>6, <2>1, LinksHaveRest
<1>8. HasRest(inner, strings, fuel)
  BY <1>5, LinksHaveRest
<1> HIDE DEF inner
<1>9. HasRest(h3, strings, fuel)
  BY <1>7, <1>8, LinksHaveRest
<1> HIDE DEF h3
<1>10. HasRest(h4, strings, fuel)
  BY <1>9, LinksHaveRest
<1> DEFINE h5 == [h4 EXCEPT !.at[old].prev = NULL]
<1> HIDE DEF h4
<1>11. HasRest(h5, strings, fuel)
  BY <1>10, LinksHaveRest
<1> QED
  BY <1>1, <1>11

-----------------------------------------------------------------------------
(* The invariant of the heap, in the middle of a call.                     *)

LEMMA RelabelKeeps ==
  ASSUME NEW at, NEW ls, Sound(at, ls), NEW n \in DOMAIN ls, NEW x \in Item, x.ref = at[n].ref,
         x.next = at[n].next, x.prev = at[n].prev, x.child = at[n].child
  PROVE  Sound([at EXCEPT ![n] = x], ls)
<1> DEFINE D == DOMAIN ls
           at2 == [at EXCEPT ![n] = x]
<1>1. at \in [D -> Item] /\ ls \in [D -> Seq(D)]
  BY SoundFacts
<1>2. at2 \in [D -> Item]
      /\ \A m \in D : /\ at2[m].ref = at[m].ref /\ at2[m].next = at[m].next
                      /\ at2[m].prev = at[m].prev /\ at2[m].child = at[m].child
  BY <1>1
<1> HIDE DEF at2
<1>3. ASSUME NEW c \in D PROVE IF at2[c].ref THEN ls[c] = <<>> ELSE Linked(at2, c, ls[c])
  <2>1. IF at[c].ref THEN ls[c] = <<>> ELSE Linked(at, c, ls[c])
    BY DEF Sound, Chained
  <2>2. ls[c] \in Seq(D)
    BY <1>1
  <2>3. \A i \in DOMAIN ls[c] : ls[c][i] \in D
    BY <2>2
  <2>4. Linked(at, c, ls[c]) => Linked(at2, c, ls[c])
    BY <1>2, <2>3 DEF Linked
  <2> QED
    BY <1>2, <2>1, <2>4
<1>4. RootsLoose(at2, ls)
  BY <1>2 DEF Sound, RootsLoose, LinkedToNothing
<1>5. Typed(at2, ls)
  BY <1>2 DEF Sound, Typed
<1> QED
  BY <1>3, <1>4, <1>5 DEF Sound, Chained, at2

\* A string that is no reference has a text.
Written(i) == i.type = "string" /\ ~i.ref => i.value # NoString

\* The items are linked as in ls, k blocks are not yet the name or text of an
\* item, and R are roots.
Tidy(h, ls, R, k) ==
  /\ h = Mem(h.at, h.strings, h.fuel)
  /\ Sound(h.at, ls)
  /\ \A n \in DOMAIN ls : Written(h.at[n])
  /\ h.strings = Blocks(h.at) + k
  /\ \A r \in R : r \in DOMAIN ls /\ Root(ls, r)

LEMMA TidyGrows ==
  ASSUME NEW h, NEW ls, NEW R, NEW k, Tidy(h, ls, R, k), NEW n \in Node \ DOMAIN ls,
         NEW x \in Item, x.next = NULL, x.prev = NULL, ~x.ref => x.child = NULL, Written(x),
         NEW j \in Int, NEW strings, strings = Blocks(h.at) + Cost(x) + j, NEW fuel
  PROVE  Tidy(Mem(Grown(h.at, n, x), strings, fuel), Grown(ls, n, <<>>), R \cup {n}, j)
<1> DEFINE at == h.at
           at2 == Grown(at, n, x)
           ls2 == Grown(ls, n, <<>>)
           h2 == Mem(at2, strings, fuel)
<1>1. /\ Sound(at, ls) /\ \A m \in DOMAIN ls : Written(at[m])
      /\ \A r \in R : r \in DOMAIN ls /\ Root(ls, r)
  BY DEF Tidy
<1>2. DOMAIN at = DOMAIN ls /\ IsFiniteSet(DOMAIN at) /\ n \notin DOMAIN at
  BY <1>1, SoundFinite
<1>3. Sound(at2, ls2) /\ Root(ls2, n)
  BY <1>1, NewKeeps
<1>4. /\ DOMAIN at2 = DOMAIN at \cup {n} /\ at2[n] = x /\ \A m \in DOMAIN at : at2[m] = at[m]
      /\ DOMAIN ls2 = DOMAIN ls \cup {n} /\ ls2[n] = <<>> /\ \A m \in DOMAIN ls : ls2[m] = ls[m]
  BY <1>2 DEF Grown
<1> HIDE DEF at, at2, ls2
<1>5. \A m \in DOMAIN ls2 : Written(at2[m])
  BY <1>1, <1>2, <1>4
<1>6. Blocks(at) \in Nat /\ Cost(x) \in Int
  BY <1>2, BlocksType DEF Cost
<1>7. Blocks(at2) = Blocks(at) + Cost(x)
  <2>1. /\ DOMAIN at \ {n} = DOMAIN at2 \ {n} /\ \A m \in DOMAIN at \ {n} : at2[m] = at[m]
        /\ n \notin DOMAIN at /\ n \in DOMAIN at2
    BY <1>2, <1>4
  <2>2. Blocks(at2) = Blocks(at) - 0 + Cost(at2[n])
    BY <1>2, <2>1, BlocksChange
  <2> QED
    BY <1>4, <1>6, <2>2
<1>8. strings = Blocks(at2) + j
  BY <1>7 DEF at
<1>9. ASSUME NEW r \in R \cup {n} PROVE r \in DOMAIN ls2 /\ Root(ls2, r)
  <2>1. CASE r = n
    BY <1>3, <1>4, <2>1
  <2>2. CASE r # n
    <3>1. ToSet(<<>>) = {}
      BY DEF ToSet
    <3> QED
      BY <1>1, <1>4, <2>2, <3>1 DEF Root
  <2> QED
    BY <2>1, <2>2
<1>10. h2.at = at2 /\ h2.strings = strings /\ h2 = Mem(h2.at, h2.strings, h2.fuel)
  BY DEF Mem
<1> HIDE DEF h2
<1>11. Tidy(h2, ls2, R \cup {n}, j)
  BY <1>3, <1>5, <1>8, <1>9, <1>10 DEF Tidy
<1> QED
  BY <1>11 DEF h2, at2, ls2, at

LEMMA TidyRelabels ==
  ASSUME NEW h, NEW ls, NEW R, NEW k, Tidy(h, ls, R, k), NEW n \in DOMAIN ls,
         NEW x \in Item, x.ref = h.at[n].ref, x.next = h.at[n].next, x.prev = h.at[n].prev,
         x.child = h.at[n].child, Written(x),
         NEW j \in Int, NEW strings, strings = Blocks(h.at) - Cost(h.at[n]) + Cost(x) + j, NEW fuel
  PROVE  Tidy(Mem([h.at EXCEPT ![n] = x], strings, fuel), ls, R, j)
<1> DEFINE at == h.at
           at2 == [at EXCEPT ![n] = x]
           h2 == Mem(at2, strings, fuel)
<1>1. /\ Sound(at, ls) /\ \A m \in DOMAIN ls : Written(at[m])
      /\ \A r \in R : r \in DOMAIN ls /\ Root(ls, r)
  BY DEF Tidy
<1>2. DOMAIN at = DOMAIN ls /\ IsFiniteSet(DOMAIN at)
  BY <1>1, SoundFinite
<1>3. Sound(at2, ls)
  BY <1>1, RelabelKeeps
<1>4. DOMAIN at2 = DOMAIN at /\ at2[n] = x /\ \A m \in DOMAIN at : m # n => at2[m] = at[m]
  BY <1>2
<1> HIDE DEF at, at2
<1>5. \A m \in DOMAIN ls : Written(at2[m])
  BY <1>1, <1>2, <1>4
<1>6. Blocks(at) \in Nat /\ Cost(x) \in Int /\ Cost(at[n]) \in Int
  BY <1>2, BlocksType DEF Cost
<1>7. Blocks(at2) = Blocks(at) - Cost(at[n]) + Cost(x)
  <2>1. /\ DOMAIN at \ {n} = DOMAIN at2 \ {n} /\ \A m \in DOMAIN at \ {n} : at2[m] = at[m]
        /\ n \in DOMAIN at /\ n \in DOMAIN at2
    BY <1>2, <1>4
  <2>2. Blocks(at2) = Blocks(at) - Cost(at[n]) + Cost(at2[n])
    BY <1>2, <2>1, BlocksChange
  <2> QED
    BY <1>4, <2>2
<1>8. strings = Blocks(at2) + j
  BY <1>7 DEF at
<1>9. h2.at = at2 /\ h2.strings = strings /\ h2 = Mem(h2.at, h2.strings, h2.fuel)
  BY DEF Mem
<1> HIDE DEF h2
<1>10. Tidy(h2, ls, R, j)
  BY <1>1, <1>3, <1>5, <1>8, <1>9 DEF Tidy
<1> QED
  BY <1>10 DEF h2, at2, at

\* Links and lists change, and names and texts stay.
LEMMA TidyRelinks ==
  ASSUME NEW h, NEW ls, NEW R, NEW k, Tidy(h, ls, R, k),
         NEW h2, HasRest(h2, h.strings, h.fuel), NEW ls2, Sound(h2.at, ls2), SameLabels(h.at, h2.at),
         NEW R2, \A r \in R2 : r \in DOMAIN ls2 /\ Root(ls2, r)
  PROVE  Tidy(h2, ls2, R2, k)
<1>1. Sound(h.at, ls) /\ (\A m \in DOMAIN ls : Written(h.at[m])) /\ h.strings = Blocks(h.at) + k
  BY DEF Tidy
<1>2. DOMAIN h.at = DOMAIN ls /\ DOMAIN h2.at = DOMAIN ls2 /\ DOMAIN h2.at = DOMAIN h.at
  BY <1>1, SoundFinite DEF SameLabels
<1>3. ASSUME NEW m \in DOMAIN ls2 PROVE Written(h2.at[m])
  <2>1. Label(h2.at[m]) = Label(h.at[m]) /\ Written(h.at[m])
    BY <1>1, <1>2 DEF SameLabels
  <2>2. /\ h2.at[m].type = h.at[m].type /\ h2.at[m].ref = h.at[m].ref
        /\ h2.at[m].value = h.at[m].value
    BY <2>1 DEF Label
  <2> QED
    BY <2>1, <2>2 DEF Written
<1>4. h2 = Mem(h2.at, h.strings, h.fuel)
  BY DEF HasRest
<1>5. h2.strings = h.strings /\ h2 = Mem(h2.at, h2.strings, h2.fuel)
  BY <1>4 DEF Mem
<1>6. Blocks(h2.at) = Blocks(h.at)
  BY BlocksSame
<1> QED
  BY <1>1, <1>3, <1>5, <1>6 DEF Tidy

\* What cJSON_Delete leaves: the items at, and `texts' blocks less.
Rest(h, at, texts) == [h EXCEPT !.at = at, !.strings = @ - texts]

LEMMA MemFreed ==
  ASSUME NEW h, NEW a, NEW strings, NEW fuel, h = Mem(a, strings, fuel), NEW at, NEW texts,
         NEW left, left = strings - texts
  PROVE  Rest(h, at, texts) = Mem(at, left, fuel)
<1>1. [h EXCEPT !.at = at, !.strings = @ - texts] = [h EXCEPT !.at = at, !.strings = h.strings - texts]
  OBVIOUS
<1>2. [h EXCEPT !.at = at, !.strings = left] = [[h EXCEPT !.at = at] EXCEPT !.strings = left]
  OBVIOUS
<1>3. [h EXCEPT !.at = at] = Mem(at, strings, fuel)
  BY DEF Mem
<1>4. h.strings - texts = left
  BY DEF Mem
<1>5. [Mem(at, strings, fuel) EXCEPT !.strings = left] = Mem(at, left, fuel)
  BY DEF Mem
<1> QED
  BY <1>1, <1>2, <1>3, <1>4, <1>5 DEF Rest

\* cJSON_Delete(NULL).
LEMMA DeletesNone ==
  ASSUME NEW at, NEW strings \in Int, NEW fuel, NEW ls, Sound(at, ls)
  PROVE  cJSON_Delete(Mem(at, strings, fuel), NULL) = Mem(at, strings, fuel)
<1> DEFINE h == Mem(at, strings, fuel)
<1>0. h.at = at /\ h.strings = strings /\ h.fuel = fuel
  BY DEF Mem
<1>a. h = Mem(at, strings, fuel)
  OBVIOUS
<1> HIDE DEF h
<1>1. DeleteOrder(h.at, NULL) = <<>>
  BY <1>0, FreesOnce
<1>2. /\ DOMAIN <<>> = {} /\ ToSet(<<>>) = {} /\ Cardinality({}) = 0
      /\ {i \in DOMAIN <<>> : OwnsKey(h.at[<<>>[i]])} = {}
      /\ {i \in DOMAIN <<>> : OwnsValue(h.at[<<>>[i]])} = {}
  BY FS_EmptySet DEF ToSet
<1> DEFINE kept == [n \in Live(h) \ {} |-> h.at[n]]
<1>3. cJSON_Delete(h, NULL) = Rest(h, kept, 0 + 0)
  BY <1>1, <1>2 DEF cJSON_Delete, Rest
<1>4. kept = at
  <2>1. at \in [DOMAIN ls -> Item]
    BY SoundFacts
  <2> QED
    BY <1>0, <2>1 DEF Live
<1> HIDE DEF kept
<1>5. strings = strings - (0 + 0)
  OBVIOUS
<1>6. Rest(h, kept, 0 + 0) = Mem(kept, strings, fuel)
  BY <1>5, <1>a, MemFreed
<1> QED
  BY <1>3, <1>4, <1>6, <1>a

LEMMA TidyDeletes ==
  ASSUME NEW h, NEW ls, NEW R, NEW k \in Int, Tidy(h, ls, R, k), NEW n \in DOMAIN ls, Root(ls, n)
  PROVE  LET h2 == cJSON_Delete(h, n)
         IN  h2.at = Deleted(h.at, n) /\ h2.fuel = h.fuel /\ Tidy(h2, Without(ls, n), R \ {n}, k)
<1> DEFINE D == DOMAIN ls
           B == Below(ls, n)
           at == h.at
           s == DeleteOrder(at, n)
           at2 == [m \in D \ B |-> at[m]]
           ls2 == Without(ls, n)
           texts == Cardinality({i \in DOMAIN s : OwnsKey(at[s[i]])})
                      + Cardinality({i \in DOMAIN s : OwnsValue(at[s[i]])})
           h2 == Mem(at2, h.strings - texts, h.fuel)
<1>1. /\ h = Mem(at, h.strings, h.fuel) /\ Sound(at, ls)
      /\ \A m \in D : Written(at[m])
      /\ h.strings = Blocks(at) + k
      /\ \A r \in R : r \in D /\ Root(ls, r)
  BY DEF Tidy
<1>2. /\ ls \in [D -> Seq(D)] /\ DOMAIN at = D /\ IsFiniteSet(D) /\ Live(h) = D
      /\ B \subseteq D /\ n \in B
  BY <1>1, SoundFacts, SoundFinite, BelowClosed DEF Live
<1>3. s \in Seq(D) /\ Once(s) /\ ToSet(s) = B /\ Freed(at, n) = B
  BY <1>1, FreesOnce, FreesBelow DEF Covers
<1> HIDE DEF s
<1>4. texts = Cardinality(B \cap Keyed(at)) + Cardinality(B \cap Texted(at))
  <2>1. Keyed(at) \in SUBSET D /\ Texted(at) \in SUBSET D
    BY <1>2 DEF Keyed, Texted
  <2>2. \A i \in DOMAIN s : s[i] \in D
    BY <1>3
  <2>3. /\ {i \in DOMAIN s : OwnsKey(at[s[i]])} = Spots(s, Keyed(at))
        /\ {i \in DOMAIN s : OwnsValue(at[s[i]])} = Spots(s, Texted(at))
    BY <1>2, <2>2 DEF Keyed, Texted, Spots
  <2> HIDE DEF B, D
  <2>4. Cardinality(Spots(s, Keyed(at))) = Cardinality(B \cap Keyed(at))
    BY <1>2, <1>3, <2>1, CountSpots
  <2>5. Cardinality(Spots(s, Texted(at))) = Cardinality(B \cap Texted(at))
    BY <1>2, <1>3, <2>1, CountSpots
  <2> QED
    BY <2>3, <2>4, <2>5
<1>5. cJSON_Delete(h, n) = Rest(h, at2, texts)
  BY <1>2, <1>3 DEF cJSON_Delete, Rest, s
<1> HIDE DEF texts, at2
<1>6. Rest(h, at2, texts) = h2
  <2> DEFINE left == h.strings - texts
  <2>1. Rest(h, at2, texts) = Mem(at2, left, h.fuel)
    <3>1. left = h.strings - texts
      OBVIOUS
    <3> HIDE DEF left
    <3> QED
      BY <1>1, <3>1, MemFreed
  <2> QED
    BY <2>1
<1>7. at2 = Deleted(at, n)
  BY <1>2, <1>3 DEF at2, Deleted
<1>8. Sound(at2, ls2)
  BY <1>1, <1>7, DeleteKeeps
<1>9. /\ Blocks(at2) = Blocks(at) - texts /\ texts \in Int /\ Blocks(at) \in Int
      /\ h.strings - texts = Blocks(at2) + k
  <2>1. /\ Cardinality(B \cap Keyed(at)) \in Nat /\ Cardinality(B \cap Texted(at)) \in Nat
        /\ Blocks(at2) = Blocks(at) - (Cardinality(B \cap Keyed(at)) + Cardinality(B \cap Texted(at)))
    BY <1>2, BlocksFreed DEF at2
  <2>2. Blocks(at) \in Nat
    BY <1>2, BlocksType
  <2>3. Blocks(at2) = Blocks(at) - texts /\ texts \in Int
    BY <1>4, <2>1
  <2> QED
    BY <1>1, <2>2, <2>3
<1>10. /\ DOMAIN ls2 = D \ B /\ (\A m \in D \ B : ls2[m] = ls[m])
       /\ DOMAIN at2 = D \ B /\ (\A m \in D \ B : at2[m] = at[m])
  BY <1>2 DEF Without, at2
<1>11. ASSUME NEW r \in R \ {n} PROVE r \in DOMAIN ls2 /\ Root(ls2, r)
  <2>1. r \in D /\ Root(ls, r)
    BY <1>1
  <2>2. r \notin B
    <3> SUFFICES ASSUME r \in B PROVE FALSE
      OBVIOUS
    <3>1. PICK c \in B : r \in ToSet(ls[c])
      BY <1>2, BelowParent
    <3> QED
      BY <1>2, <2>1, <3>1 DEF Root
  <2> HIDE DEF ls2
  <2> QED
    BY <1>10, <2>1, <2>2 DEF Root
<1>12. h2.at = at2 /\ h2.strings = h.strings - texts /\ h2 = Mem(h2.at, h2.strings, h2.fuel)
       /\ h2.fuel = h.fuel
  BY DEF Mem
<1>13. \A m \in DOMAIN ls2 : Written(at2[m])
  <2> HIDE DEF ls2
  <2> QED
    BY <1>1, <1>10
<1> HIDE DEF h2, ls2
<1>14. Tidy(h2, ls2, R \ {n}, k)
  BY <1>8, <1>9, <1>11, <1>12, <1>13 DEF Tidy
<1> QED
  BY <1>5, <1>6, <1>7, <1>12, <1>14 DEF ls2

-----------------------------------------------------------------------------
(* The calls, on a heap that is tidy.                                      *)

\* The lists, with t for the list of a.
Listing(ls, a, t) == [ls EXCEPT ![a] = t]

LEMMA ListingIs ==
  ASSUME NEW ls, NEW a \in DOMAIN ls, NEW t
  PROVE  /\ DOMAIN Listing(ls, a, t) = DOMAIN ls /\ Listing(ls, a, t)[a] = t
         /\ \A c \in DOMAIN ls : c # a => Listing(ls, a, t)[c] = ls[c]
BY DEF Listing

LEMMA RootsStay ==
  ASSUME NEW at, NEW ls, Sound(at, ls), NEW a \in DOMAIN ls, NEW t \in Seq(DOMAIN ls),
         NEW R, \A r \in R : r \in DOMAIN ls /\ Root(ls, r),
         NEW R2, \A r \in R2 : r \notin ToSet(t) /\ (r \in R \/ r \in ToSet(ls[a]))
  PROVE  \A r \in R2 : r \in DOMAIN Listing(ls, a, t) /\ Root(Listing(ls, a, t), r)
<1> DEFINE D == DOMAIN ls
<1>1. ls \in [D -> Seq(D)]
  BY SoundFacts
<1>2. \A c \in D : c # a => ToSet(ls[c]) \cap ToSet(ls[a]) = {}
  BY <1>1, ApartSets DEF Sound
<1>3. ToSet(ls[a]) \subseteq D
  BY <1>1, InSet
<1>4. ASSUME NEW r \in R2 PROVE r \in D /\ \A c \in D : c # a => r \notin ToSet(ls[c])
  BY <1>2, <1>3 DEF Root
<1>5. DOMAIN Listing(ls, a, t) = D /\ Listing(ls, a, t)[a] = t
      /\ \A c \in D : c # a => Listing(ls, a, t)[c] = ls[c]
  BY ListingIs
<1>6. \A r \in R2 : r \notin ToSet(t)
  OBVIOUS
<1> QED
  BY <1>4, <1>5, <1>6 DEF Root

\* The heap may be given less or more fuel, and roots may be left out.
LEMMA TidyFewer ==
  ASSUME NEW h, NEW ls, NEW R, NEW k, Tidy(h, ls, R, k), NEW fuel, NEW R2 \in SUBSET R
  PROVE  Tidy(Mem(h.at, h.strings, fuel), ls, R2, k)
<1> DEFINE g == Mem(h.at, h.strings, fuel)
<1>1. g.at = h.at /\ g.strings = h.strings /\ g.fuel = fuel
  BY DEF Mem
<1>2. g = Mem(g.at, g.strings, g.fuel)
  BY <1>1
<1> HIDE DEF g
<1>3. Tidy(g, ls, R2, k)
  BY <1>1, <1>2 DEF Tidy
<1> QED
  BY <1>3 DEF g

LEMMA AddsItem ==
  ASSUME NEW h, NEW ls, NEW R, NEW k, Tidy(h, ls, R, k), NEW a \in DOMAIN ls, NEW x \in DOMAIN ls,
         ~h.at[a].ref, Root(ls, x), a \notin Below(ls, x)
  PROVE  LET d == add_item_to_array(h, a, x)
         IN  /\ d.r = TRUE /\ SameLabels(h.at, d.h.at)
             /\ Tidy(d.h, Listing(ls, a, Append(ls[a], x)), R \ {x}, k)
<1> DEFINE d == add_item_to_array(h, a, x)
           t == Append(ls[a], x)
<1>1. Sound(h.at, ls) /\ h = Mem(h.at, h.strings, h.fuel) /\ \A r \in R : r \in DOMAIN ls /\ Root(ls, r)
  BY DEF Tidy
<1>2. Sound(d.h.at, [ls EXCEPT ![a] = Append(@, x)]) /\ SameLabels(h.at, d.h.at)
  BY <1>1, AddSound
<1>3. [ls EXCEPT ![a] = Append(@, x)] = Listing(ls, a, t)
  BY DEF Listing
<1>4. a # NULL /\ x # NULL /\ a # x /\ ls[a] \in Seq(DOMAIN ls)
  BY <1>1, SoundFacts, BelowClosed
<1>5. d.r = TRUE /\ HasRest(d.h, h.strings, h.fuel)
  <2>1. HasRest(h, h.strings, h.fuel)
    BY <1>1 DEF HasRest
  <2> QED
    BY <1>4, <2>1, AddRest
<1>6. t \in Seq(DOMAIN ls) /\ \A r \in R \ {x} : r \notin ToSet(t)
  <2>1. t \in Seq(DOMAIN ls) /\ ToSet(t) \subseteq ToSet(ls[a]) \cup {x}
    <3>1. Once(ls[a]) /\ x \notin ToSet(ls[a])
      BY <1>1, SoundFacts DEF Root
    <3> QED
      BY <1>4, <3>1, AppendOnce
  <2> QED
    BY <1>1, <2>1 DEF Root
<1>7. \A r \in R \ {x} : r \in DOMAIN Listing(ls, a, t) /\ Root(Listing(ls, a, t), r)
  BY <1>1, <1>6, RootsStay
<1> HIDE DEF d, t
<1>8. Tidy(d.h, Listing(ls, a, t), R \ {x}, k)
  BY <1>2, <1>3, <1>5, <1>7, TidyRelinks
<1> QED
  BY <1>2, <1>5, <1>8 DEF d, t

LEMMA Gets ==
  ASSUME NEW h, NEW ls, Sound(h.at, ls), NEW a \in DOMAIN ls, ~h.at[a].ref, NEW index \in Nat
  PROVE  /\ get_array_item(h, a, index) = IF index < Len(ls[a]) THEN ls[a][index + 1] ELSE NULL
         /\ Len(ls[a]) \in Nat /\ \A i \in 1 .. Len(ls[a]) : ls[a][i] \in DOMAIN ls /\ ls[a][i] # NULL
<1>1. /\ DOMAIN h.at = DOMAIN ls /\ ls[a] \in Seq(DOMAIN ls) /\ NULL \notin DOMAIN ls
      /\ Linked(h.at, a, ls[a])
  BY SoundFacts
<1>2. 0 \notin DOMAIN h.at
  BY <1>1 DEF NULL
<1>3. Len(ls[a]) \in Nat /\ \A i \in 1 .. Len(ls[a]) : ls[a][i] \in DOMAIN ls
  BY <1>1
<1>4. get_array_item(h, a, index) = IF index < Len(ls[a]) THEN ls[a][index + 1] ELSE NULL
  BY <1>1, <1>2, GetsItem
<1> QED
  BY <1>1, <1>3, <1>4

\* Where an item inserted at `which' comes to stand.
InsertPlace(s, which) == IF which < Len(s) THEN which + 1 ELSE Len(s) + 1

LEMMA InsertsItem ==
  ASSUME NEW h, NEW ls, NEW R, NEW k, Tidy(h, ls, R, k), NEW a \in DOMAIN ls, NEW x \in DOMAIN ls,
         ~h.at[a].ref, Root(ls, x), a \notin Below(ls, x), NEW which \in Nat
  PROVE  LET d == cJSON_InsertItemInArray(h, a, which, x)
         IN  /\ d.r = TRUE /\ SameLabels(h.at, d.h.at)
             /\ Tidy(d.h, Listing(ls, a, InsertAt(ls[a], InsertPlace(ls[a], which), x)), R \ {x}, k)
<1> DEFINE d == cJSON_InsertItemInArray(h, a, which, x)
           p == InsertPlace(ls[a], which)
           t == InsertAt(ls[a], p, x)
           after == get_array_item(h, a, which)
<1>1. Sound(h.at, ls) /\ h = Mem(h.at, h.strings, h.fuel) /\ \A r \in R : r \in DOMAIN ls /\ Root(ls, r)
  BY DEF Tidy
<1>2. /\ after = IF which < Len(ls[a]) THEN ls[a][which + 1] ELSE NULL
      /\ Len(ls[a]) \in Nat /\ \A i \in 1 .. Len(ls[a]) : ls[a][i] \in DOMAIN ls /\ ls[a][i] # NULL
  BY <1>1, Gets
<1>3. ls[a] \in Seq(DOMAIN ls) /\ x \notin ToSet(ls[a])
  BY <1>1, SoundFacts DEF Root
<1>4. CASE which < Len(ls[a])
  <2>1. p \in 1 .. Len(ls[a]) /\ which = p - 1 /\ after # NULL
    BY <1>2, <1>4 DEF InsertPlace
  <2> HIDE DEF p
  <2>2. Sound(d.h.at, [ls EXCEPT ![a] = InsertAt(@, p, x)]) /\ SameLabels(h.at, d.h.at)
    BY <1>1, <2>1, InsertSound
  <2>3. [ls EXCEPT ![a] = InsertAt(@, p, x)] = Listing(ls, a, t)
    BY DEF Listing
  <2>4. d.r = TRUE /\ HasRest(d.h, h.strings, h.fuel)
    <3>1. HasRest(h, h.strings, h.fuel)
      BY <1>1 DEF HasRest
    <3> QED
      BY <2>1, <3>1, InsertRest
  <2>5. t \in Seq(DOMAIN ls) /\ ToSet(t) \subseteq ToSet(ls[a]) \cup {x}
    <3>1. Once(ls[a]) /\ p \in 1 .. Len(ls[a]) + 1
      BY <1>1, <1>2, <2>1, SoundFacts
    <3> QED
      BY <1>3, <3>1, InsertOnce
  <2>6. \A r \in R \ {x} : r \notin ToSet(t)
    BY <1>1, <2>5 DEF Root
  <2> HIDE DEF t, d
  <2>7. \A r \in R \ {x} : r \in DOMAIN Listing(ls, a, t) /\ Root(Listing(ls, a, t), r)
    BY <1>1, <2>5, <2>6, RootsStay
  <2>8. Tidy(d.h, Listing(ls, a, t), R \ {x}, k)
    BY <2>2, <2>3, <2>4, <2>7, TidyRelinks
  <2> QED
    BY <2>2, <2>4, <2>8 DEF d, t, p
<1>5. CASE ~(which < Len(ls[a]))
  <2>1. after = NULL /\ p = Len(ls[a]) + 1
    BY <1>2, <1>5 DEF InsertPlace
  <2> HIDE DEF p
  <2>2. d = add_item_to_array(h, a, x)
    BY <2>1 DEF cJSON_InsertItemInArray
  <2>3. t = Append(ls[a], x)
    BY <1>3, <2>1, InsertLast
  <2> HIDE DEF d, t
  <2>4. d.r = TRUE /\ SameLabels(h.at, d.h.at) /\ Tidy(d.h, Listing(ls, a, Append(ls[a], x)), R \ {x}, k)
    BY <2>2, AddsItem
  <2> QED
    BY <2>3, <2>4 DEF d, t, p
<1> QED
  BY <1>4, <1>5

\* x, at place i of the list of a, has become a root.
TakenOut(d, ls, R, k, a, i, x) ==
  /\ x = ls[a][i]
  /\ Tidy(d.h, Listing(ls, a, RemoveAt(ls[a], i)), R \cup {x}, k)

LEMMA DetachesItem ==
  ASSUME NEW h, NEW ls, NEW R, NEW k, Tidy(h, ls, R, k), NEW a \in DOMAIN ls, ~h.at[a].ref,
         NEW i \in 1 .. Len(ls[a]), NEW x, x = ls[a][i]
  PROVE  LET d == cJSON_DetachItemViaPointer(h, a, x)
         IN  d.r = x /\ x # NULL /\ SameLabels(h.at, d.h.at) /\ TakenOut(d, ls, R, k, a, i, x)
<1> DEFINE d == cJSON_DetachItemViaPointer(h, a, x)
           t == RemoveAt(ls[a], i)
<1>1. Sound(h.at, ls) /\ h = Mem(h.at, h.strings, h.fuel) /\ \A r \in R : r \in DOMAIN ls /\ Root(ls, r)
  BY DEF Tidy
<1>2. /\ ls[a] \in Seq(DOMAIN ls) /\ Once(ls[a]) /\ NULL \notin DOMAIN ls
  BY <1>1, SoundFacts
<1>3. /\ x \in DOMAIN ls /\ x \in ToSet(ls[a]) /\ x # NULL /\ a # NULL
  BY <1>2, InSet
<1>4. Sound(d.h.at, [ls EXCEPT ![a] = RemoveAt(@, i)]) /\ SameLabels(h.at, d.h.at)
  BY <1>1, DetachSound
<1>5. [ls EXCEPT ![a] = RemoveAt(@, i)] = Listing(ls, a, t)
  BY DEF Listing
<1>6. d.r = x /\ HasRest(d.h, h.strings, h.fuel)
  <2>1. HasRest(h, h.strings, h.fuel)
    BY <1>1 DEF HasRest
  <2> QED
    BY <1>3, <2>1, DetachRest
<1>7. t \in Seq(DOMAIN ls) /\ ToSet(t) \subseteq ToSet(ls[a]) /\ x \notin ToSet(t)
  <2>1. NULL \notin ToSet(ls[a])
    BY <1>2, InSet
  <2>2. t \in Seq(DOMAIN ls) /\ ToSet(t) \subseteq ToSet(ls[a])
    BY <1>2, <2>1, RemoveOnce
  <2>3. /\ Len(t) = Len(ls[a]) - 1
        /\ \A j \in 1 .. Len(ls[a]) - 1 : t[j] = IF j < i THEN ls[a][j] ELSE ls[a][j + 1]
    BY <1>2, RemoveItems
  <2>4. Len(ls[a]) \in Nat /\ DOMAIN ls[a] = 1 .. Len(ls[a])
    BY <1>2
  <2> HIDE DEF t
  <2>5. ASSUME NEW j \in 1 .. Len(t) PROVE t[j] # x
    BY <1>2, <2>3, <2>4, <2>5 DEF Once
  <2> QED
    BY <2>2, <2>5, InSet
<1>8. \A r \in R \cup {x} : r \notin ToSet(t) /\ (r \in R \/ r \in ToSet(ls[a]))
  BY <1>1, <1>3, <1>7 DEF Root
<1> HIDE DEF t, d
<1>9. \A r \in R \cup {x} : r \in DOMAIN Listing(ls, a, t) /\ Root(Listing(ls, a, t), r)
  BY <1>1, <1>7, <1>8, RootsStay
<1>10. Tidy(d.h, Listing(ls, a, t), R \cup {x}, k)
  BY <1>4, <1>5, <1>6, <1>9, TidyRelinks
<1> QED
  BY <1>3, <1>4, <1>6, <1>10 DEF TakenOut, d, t

\* The items are those of at, with the same names and texts, or fewer.
Labelled(at, at2) == \A m \in DOMAIN at2 : m \in DOMAIN at /\ Label(at2[m]) = Label(at[m])

\* x, at place i of the list of a, has made room for y.
Replaced(d, ls, R, k, a, i, x, y) ==
  LET ls2 == Listing(ls, a, ReplaceAt(ls[a], i, y))
  IN  /\ x = ls[a][i] /\ x \in DOMAIN ls /\ Root(ls2, x)
      /\ Tidy(d.h, Without(ls2, x), R \ {y}, k)
      /\ \E g : Tidy(g, ls2, (R \ {y}) \cup {x}, k)

LEMMA ReplacesItem ==
  ASSUME NEW h, NEW ls, NEW R, NEW k \in Int, Tidy(h, ls, R, k), NEW a \in DOMAIN ls, ~h.at[a].ref,
         NEW y \in DOMAIN ls, Root(ls, y), a \notin Below(ls, y),
         NEW i \in 1 .. Len(ls[a]), NEW x, x = ls[a][i]
  PROVE  LET d == cJSON_ReplaceItemViaPointer(h, a, x, y)
         IN  d.r = TRUE /\ Labelled(h.at, d.h.at) /\ Replaced(d, ls, R, k, a, i, x, y)
<1> DEFINE d == cJSON_ReplaceItemViaPointer(h, a, x, y)
           g == PutInPlace(h, a, x, y)
           t == ReplaceAt(ls[a], i, y)
           ls2 == Listing(ls, a, t)
<1>1. Sound(h.at, ls) /\ h = Mem(h.at, h.strings, h.fuel) /\ \A r \in R : r \in DOMAIN ls /\ Root(ls, r)
  BY DEF Tidy
<1>2. /\ ls[a] \in Seq(DOMAIN ls) /\ Once(ls[a]) /\ NULL \notin DOMAIN ls
  BY <1>1, SoundFacts
<1>3. /\ x \in DOMAIN ls /\ x \in ToSet(ls[a]) /\ x # NULL /\ a # NULL /\ y # NULL
      /\ y \notin ToSet(ls[a])
  BY <1>2, InSet DEF Root
<1>4. x # y /\ x \notin R
  BY <1>1, <1>3 DEF Root
<1>5. d = [h |-> cJSON_Delete(g, x), r |-> TRUE]
  BY <1>3, <1>4 DEF cJSON_ReplaceItemViaPointer
<1>6. /\ Sound(g.at, [ls EXCEPT ![a] = ReplaceAt(@, i, y)]) /\ SameLabels(h.at, g.at)
      /\ Root([ls EXCEPT ![a] = ReplaceAt(@, i, y)], x)
  BY <1>1, PutSound
<1>7. [ls EXCEPT ![a] = ReplaceAt(@, i, y)] = ls2
  BY DEF Listing
<1>8. HasRest(g, h.strings, h.fuel)
  <2>1. HasRest(h, h.strings, h.fuel)
    BY <1>1 DEF HasRest
  <2> QED
    BY <2>1, PutRest
<1>9. t \in Seq(DOMAIN ls) /\ ToSet(t) \subseteq ToSet(ls[a]) \cup {y}
  BY <1>2, <1>3, ReplaceOnce
<1>10. \A r \in R \ {y} : r \notin ToSet(t) /\ (r \in R \/ r \in ToSet(ls[a]))
  BY <1>1, <1>9 DEF Root
<1> HIDE DEF t, g
<1>11. \A r \in R \ {y} : r \in DOMAIN ls2 /\ Root(ls2, r)
  BY <1>1, <1>9, <1>10, RootsStay
<1>12. x \in DOMAIN ls2
  BY <1>3, ListingIs
<1> HIDE DEF ls2
<1>13. Tidy(g, ls2, R \ {y}, k)
  BY <1>6, <1>7, <1>8, <1>11, TidyRelinks
<1>14. LET h2 == cJSON_Delete(g, x)
       IN  h2.at = Deleted(g.at, x) /\ Tidy(h2, Without(ls2, x), (R \ {y}) \ {x}, k)
  BY <1>6, <1>7, <1>12, <1>13, TidyDeletes
<1>15. (R \ {y}) \ {x} = R \ {y}
  BY <1>4
<1>16. Labelled(h.at, Deleted(g.at, x))
  BY <1>6 DEF Deleted, SameLabels, Labelled
<1> HIDE DEF d
<1>17. d.h = cJSON_Delete(g, x) /\ d.r = TRUE
  BY <1>5
<1>18. d.h.at = Deleted(g.at, x) /\ Tidy(d.h, Without(ls2, x), R \ {y}, k)
  BY <1>14, <1>15, <1>17
<1>19. Labelled(h.at, d.h.at)
  BY <1>16, <1>18
<1>20. Root(ls2, x)
  BY <1>6, <1>7
<1>21. Tidy(g, ls2, (R \ {y}) \cup {x}, k)
  BY <1>12, <1>13, <1>20 DEF Tidy
<1>22. \E g2 : Tidy(g2, ls2, (R \ {y}) \cup {x}, k)
  BY <1>21
<1>23. Replaced(d, ls, R, k, a, i, x, y)
  BY <1>3, <1>18, <1>20, <1>22 DEF Replaced, ls2, t
<1> QED
  BY <1>17, <1>19, <1>23 DEF d

\* The heap once a text was copied.
Copied(at, strings, fuel) == Mem(at, strings + 1, fuel - 1)

LEMMA Copies ==
  ASSUME NEW at, NEW strings, NEW fuel
  PROVE  LET d == cJSON_strdup(Mem(at, strings, fuel))
         IN  \/ d.r = FALSE /\ d.h = Mem(at, strings, fuel)
             \/ d.r = TRUE /\ d.h = Copied(at, strings, fuel)
<1> DEFINE h == Mem(at, strings, fuel)
           more == strings + 1
           less == fuel - 1
           g == [h EXCEPT !.strings = @ + 1]
<1>1. h.strings = strings /\ h.fuel = fuel
  BY DEF Mem
<1>2. g = Mem(at, more, fuel)
  <2>1. g = [h EXCEPT !.strings = more]
    BY <1>1
  <2>2. [h EXCEPT !.strings = more] = Mem(at, more, fuel)
    BY DEF Mem
  <2> QED
    BY <2>1, <2>2
<1>3. [h EXCEPT !.strings = @ + 1, !.fuel = @ - 1] = [g EXCEPT !.fuel = less]
  BY <1>1
<1>4. [g EXCEPT !.fuel = less] = Mem(at, more, less)
  <2>1. [Mem(at, more, fuel) EXCEPT !.fuel = less] = Mem(at, more, less)
    BY DEF Mem
  <2> HIDE DEF g
  <2> QED
    BY <1>2, <2>1
<1>5. cJSON_strdup(h) = IF h.fuel = 0 THEN [h |-> h, r |-> FALSE]
                        ELSE [h |-> Mem(at, more, less), r |-> TRUE]
  BY <1>3, <1>4 DEF cJSON_strdup
<1>6. Mem(at, more, less) = Copied(at, strings, fuel)
  BY DEF Copied
<1> HIDE DEF h, more, less
<1>7. CASE h.fuel = 0
  BY <1>5, <1>7 DEF h
<1>8. CASE h.fuel # 0
  BY <1>5, <1>6, <1>8 DEF h
<1> QED
  BY <1>7, <1>8

LEMMA CopiesText ==
  ASSUME NEW h, h = Mem(h.at, h.strings, h.fuel)
  PROVE  LET d == cJSON_strdup(h)
         IN  \/ d.r = FALSE /\ d.h = h
             \/ /\ d.r = TRUE /\ d.h.at = h.at /\ d.h.strings = h.strings + 1
                /\ d.h = Mem(d.h.at, d.h.strings, d.h.fuel)
<1> DEFINE g == Mem(h.at, h.strings, h.fuel)
           u == cJSON_strdup(g)
           e == Copied(h.at, h.strings, h.fuel)
<1>1. \/ u.r = FALSE /\ u.h = g
      \/ u.r = TRUE /\ u.h = e
  <2> DEFINE at == h.at
             strings == h.strings
             fuel == h.fuel
  <2> HIDE DEF at, strings, fuel
  <2>1. LET v == cJSON_strdup(Mem(at, strings, fuel))
        IN  \/ v.r = FALSE /\ v.h = Mem(at, strings, fuel)
            \/ v.r = TRUE /\ v.h = Copied(at, strings, fuel)
    BY Copies
  <2> QED
    BY <2>1 DEF at, strings, fuel
<1>2. e.at = h.at /\ e.strings = h.strings + 1 /\ e.fuel = h.fuel - 1 /\ e = Mem(h.at, h.strings + 1, h.fuel - 1)
  BY DEF Copied, Mem
<1>3. e = Mem(e.at, e.strings, e.fuel)
  BY <1>2
<1> HIDE DEF e, g
<1>4. h = g
  BY DEF g
<1> DEFINE d == cJSON_strdup(h)
<1>5. d = u
  BY <1>4
<1> HIDE DEF d, u
<1>6. CASE u.r = FALSE /\ u.h = g
  BY <1>4, <1>5, <1>6 DEF d
<1>7. CASE u.r = TRUE /\ u.h = e
  <2>1. d.r = TRUE /\ d.h = e
    BY <1>5, <1>7
  <2> QED
    BY <1>2, <1>3, <2>1 DEF d
<1> QED
  BY <1>1, <1>6, <1>7

\* An item that was just created.
Made(type, value) == [Blank EXCEPT !.type = type, !.value = value]

LEMMA MadeIs ==
  ASSUME NEW type \in Type, NEW value \in Chars
  PROVE  LET x == Made(type, value)
         IN  /\ x \in Item /\ x.type = type /\ x.value = value /\ x.ref = FALSE /\ x.const = FALSE
             /\ x.key = NoString /\ x.next = NULL /\ x.prev = NULL /\ x.child = NULL
BY NoStringIsChars DEF Made, Blank, Item, Ptr

\* item->type = type; item->valuestring = value.
Fills(m, r, type, value) == [m EXCEPT !.at[r].type = type, !.at[r].value = value]

LEMMA Makes ==
  ASSUME NEW at, NEW r, NEW strings, NEW fuel, NEW type, NEW value
  PROVE  Fills(Mem(Grown(at, r, Blank), strings, fuel), r, type, value)
           = Mem(Grown(at, r, Made(type, value)), strings, fuel)
<1> DEFINE D == DOMAIN at \cup {r}
           b == [Blank EXCEPT !.type = type]
           at1 == Grown(at, r, Blank)
           at2 == Grown(at, r, b)
           at3 == Grown(at, r, Made(type, value))
           m == Mem(at1, strings, fuel)
           m2 == Mem(at2, strings, fuel)
<1>1. [m EXCEPT !.at[r].type = type, !.at[r].value = value]
        = [[m EXCEPT !.at[r].type = type] EXCEPT !.at[r].value = value]
  OBVIOUS
<1>2. [at1 EXCEPT ![r].type = type] = at2
  BY DEF Grown
<1>3. [at2 EXCEPT ![r].value = value] = at3
  BY DEF Grown, Made
<1>4. [m EXCEPT !.at[r].type = type] = Mem([at1 EXCEPT ![r].type = type], strings, fuel)
  <2> HIDE DEF at1
  <2> QED
    BY DEF Mem
<1>5. [m2 EXCEPT !.at[r].value = value] = Mem([at2 EXCEPT ![r].value = value], strings, fuel)
  <2> HIDE DEF at2
  <2> QED
    BY DEF Mem
<1> HIDE DEF m, m2, at1, at2, at3
<1>6. [m EXCEPT !.at[r].type = type] = m2
  BY <1>2, <1>4 DEF m2
<1>7. [m2 EXCEPT !.at[r].value = value] = Mem(at3, strings, fuel)
  BY <1>3, <1>5
<1> QED
  BY <1>1, <1>6, <1>7 DEF m, at1, at3, Fills

\* A new item that is freed at once leaves everything as it was.
LEMMA NewDeleted ==
  ASSUME NEW h, NEW ls, NEW R, NEW k \in Int, Tidy(h, ls, R, k), NEW n \in Node \ DOMAIN ls,
         NEW x \in Item, x.next = NULL, x.prev = NULL, ~x.ref => x.child = NULL,
         NEW g, g.at = Grown(h.at, n, x), Tidy(g, Grown(ls, n, <<>>), R \cup {n}, k)
  PROVE  LET h2 == cJSON_Delete(g, n) IN h2.at = h.at /\ Tidy(h2, ls, R, k)
<1> DEFINE at2 == Grown(h.at, n, x)
           ls2 == Grown(ls, n, <<>>)
           h2 == cJSON_Delete(g, n)
<1>1. Sound(h.at, ls) /\ \A r \in R : r \in DOMAIN ls /\ Root(ls, r)
  BY DEF Tidy
<1>2. Sound(at2, ls2) /\ Root(ls2, n) /\ Below(ls2, n) = {n}
  BY <1>1, NewKeeps
<1>3. n \in DOMAIN ls2 /\ DOMAIN at2 = DOMAIN ls2 /\ DOMAIN ls2 = DOMAIN ls \cup {n}
      /\ ls \in [DOMAIN ls -> Seq(DOMAIN ls)] /\ h.at \in [DOMAIN ls -> Item]
      /\ (\A m \in DOMAIN ls : ls2[m] = ls[m] /\ at2[m] = h.at[m])
  <2>1. ls \in [DOMAIN ls -> Seq(DOMAIN ls)] /\ h.at \in [DOMAIN ls -> Item]
    BY <1>1, SoundFacts
  <2> QED
    BY <2>1 DEF Grown
<1> HIDE DEF at2, ls2
<1>4. Freed(at2, n) = {n}
  BY <1>2, <1>3, FreesBelow
<1>5. Deleted(at2, n) = h.at
  BY <1>3, <1>4 DEF Deleted
<1>6. Without(ls2, n) = ls
  BY <1>2, <1>3 DEF Without
<1>7. (R \cup {n}) \ {n} = R
  BY <1>1
<1>8. Tidy(g, ls2, R \cup {n}, k) /\ g.at = at2
  BY DEF at2, ls2
<1> HIDE DEF h2
<1>9. h2.at = Deleted(g.at, n) /\ Tidy(h2, Without(ls2, n), (R \cup {n}) \ {n}, k)
  <2> DEFINE R1 == R \cup {n}
  <2>1. Tidy(g, ls2, R1, k) /\ n \in DOMAIN ls2 /\ Root(ls2, n)
    BY <1>2, <1>3, <1>8
  <2> HIDE DEF R1
  <2>2. h2.at = Deleted(g.at, n) /\ Tidy(h2, Without(ls2, n), R1 \ {n}, k)
    BY <2>1, TidyDeletes DEF h2
  <2> QED
    BY <2>2 DEF R1
<1> QED
  BY <1>5, <1>6, <1>7, <1>8, <1>9 DEF h2

\* A call that makes an item, and returns it or NULL.
NewRoot(d, h, ls, R, k, x) ==
  \/ d.r = NULL /\ d.h.at = h.at /\ Tidy(d.h, ls, R, k)
  \/ /\ d.r \in Node \ DOMAIN ls /\ d.h.at = Grown(h.at, d.r, x)
     /\ Tidy(d.h, Grown(ls, d.r, <<>>), R \cup {d.r}, k)

LEMMA TidyFacts ==
  ASSUME NEW h, NEW ls, NEW R, NEW k \in Int, Tidy(h, ls, R, k)
  PROVE  /\ h = Mem(h.at, h.strings, h.fuel) /\ Sound(h.at, ls) /\ DOMAIN h.at = DOMAIN ls
         /\ DOMAIN h.at \subseteq Node /\ NULL \notin DOMAIN h.at /\ h.at \in [DOMAIN ls -> Item]
         /\ h.strings = Blocks(h.at) + k /\ h.strings \in Int /\ Blocks(h.at) \in Int
         /\ \A n \in DOMAIN ls : Written(h.at[n]) /\ Cost(h.at[n]) \in Int
<1>1. h = Mem(h.at, h.strings, h.fuel) /\ Sound(h.at, ls) /\ h.strings = Blocks(h.at) + k
      /\ \A n \in DOMAIN ls : Written(h.at[n])
  BY DEF Tidy
<1>2. /\ DOMAIN h.at = DOMAIN ls /\ IsFiniteSet(DOMAIN h.at)
      /\ DOMAIN h.at \subseteq Node /\ NULL \notin DOMAIN h.at /\ h.at \in [DOMAIN ls -> Item]
  BY <1>1, SoundFinite, SoundFacts
<1>3. Blocks(h.at) \in Nat
  BY <1>2, BlocksType
<1>4. \A n \in DOMAIN ls : Cost(h.at[n]) \in Int
  BY DEF Cost
<1> QED
  BY <1>1, <1>2, <1>3, <1>4

LEMMA CreatesItem ==
  ASSUME NEW h, NEW ls, NEW R, NEW k \in Int, Tidy(h, ls, R, k), NEW type \in Type, NEW value \in Chars,
         type \in {"string", "raw"} => value # NoString
  PROVE  NewRoot(Create(h, type, value), h, ls, R, k, Made(type, value))
<1> DEFINE d == Create(h, type, value)
           n == cJSON_New_Item(h)
           c == cJSON_strdup(n.h)
           x == Made(type, value)
<1>1. /\ h = Mem(h.at, h.strings, h.fuel) /\ DOMAIN h.at = DOMAIN ls /\ DOMAIN h.at \subseteq Node
      /\ h.strings = Blocks(h.at) + k /\ h.strings \in Int /\ Blocks(h.at) \in Int
  BY TidyFacts
<1>2. /\ x \in Item /\ x.type = type /\ x.value = value /\ x.ref = FALSE /\ x.const = FALSE
      /\ x.key = NoString /\ x.next = NULL /\ x.prev = NULL /\ x.child = NULL
  BY MadeIs
<1>3. Written(x) /\ Cost(x) = IF type \in {"string", "raw"} THEN 1 ELSE 0
  BY <1>2 DEF Written, Cost, OwnsKey, OwnsValue
<1>4. \/ n.r = NULL /\ n.h = h
      \/ n.r \in Node \ DOMAIN h.at /\ n.h = Mem(Grown(h.at, n.r, Blank), h.strings, h.fuel - 1)
  BY <1>1, NewItemIs
<1>5. CASE n.r = NULL
  <2>1. NULL \notin Node
    BY DEF NULL, Node
  <2>2. d = n /\ n.h = h
    BY <1>4, <1>5, <2>1 DEF Create
  <2> QED
    BY <1>5, <2>2 DEF NewRoot
<1>6. CASE n.r # NULL
  <2> DEFINE r == n.r
             f == h.fuel - 1
             more == h.strings + 1
             less == f - 1
  <2>1. r \in Node \ DOMAIN ls /\ n.h = Mem(Grown(h.at, r, Blank), h.strings, f)
    BY <1>1, <1>4, <1>6
  <2>a. more = h.strings + 1 /\ less = f - 1
    OBVIOUS
  <2> HIDE DEF more, less
  <2>2. \/ c.r = FALSE /\ c.h = n.h
        \/ c.r = TRUE /\ c.h = Mem(Grown(h.at, r, Blank), more, less)
    <3> DEFINE G == Grown(h.at, n.r, Blank)
               v == h.strings
               u == cJSON_strdup(Mem(G, v, f))
    <3>1. Mem(G, more, less) = Copied(G, v, f)
      BY DEF Copied, more, less
    <3> HIDE DEF n, f, G, v
    <3>2. \/ u.r = FALSE /\ u.h = Mem(G, v, f)
          \/ u.r = TRUE /\ u.h = Mem(G, more, less)
      BY <3>1, Copies
    <3>3. n.h = Mem(G, v, f)
      BY <2>1 DEF G, v
    <3> QED
      BY <3>2, <3>3 DEF G
  <2>3. CASE type \notin {"string", "raw"}
    <3>1. d.h = Fills(n.h, n.r, type, value) /\ d.r = n.r
      BY <1>6, <2>3 DEF Create, Fills
    <3> HIDE DEF n, f, d
    <3>2. d.h = Mem(Grown(h.at, r, x), h.strings, f) /\ d.r = r
      BY <2>1, <3>1, Makes
    <3> HIDE DEF r
    <3>3. h.strings = Blocks(h.at) + Cost(x) + k
      BY <1>1, <1>3, <2>3
    <3> HIDE DEF d, x
    <3>4. Tidy(Mem(Grown(h.at, r, x), h.strings, f), Grown(ls, r, <<>>), R \cup {r}, k)
      BY <1>2, <1>3, <2>1, <3>3, TidyGrows
    <3>5. d.h.at = Grown(h.at, r, x)
      BY <3>2 DEF Mem
    <3> QED
      BY <2>1, <3>2, <3>4, <3>5 DEF NewRoot, d, x
  <2>4. CASE type \in {"string", "raw"} /\ c.r = TRUE
    <3>1. d.h = Fills(c.h, n.r, type, value) /\ d.r = n.r
      BY <1>6, <2>4 DEF Create, Fills
    <3> HIDE DEF n, f, d, c
    <3>2. c.h = Mem(Grown(h.at, r, Blank), more, less)
      BY <2>2, <2>4
    <3>3. d.h = Mem(Grown(h.at, r, x), more, less) /\ d.r = r
      BY <3>1, <3>2, Makes
    <3> HIDE DEF r
    <3>4. more = Blocks(h.at) + Cost(x) + k
      BY <1>1, <1>3, <2>4, <2>a
    <3> HIDE DEF d, x
    <3>5. Tidy(Mem(Grown(h.at, r, x), more, less), Grown(ls, r, <<>>), R \cup {r}, k)
      BY <1>2, <1>3, <2>1, <3>4, TidyGrows
    <3>6. d.h.at = Grown(h.at, r, x)
      BY <3>3 DEF Mem
    <3> QED
      BY <2>1, <3>3, <3>5, <3>6 DEF NewRoot, d, x
  <2>5. CASE type \in {"string", "raw"} /\ c.r = FALSE
    <3>1. d = [h |-> cJSON_Delete(n.h, n.r), r |-> NULL]
      <4>1. c.h = n.h
        BY <2>2, <2>5
      <4> QED
        BY <1>6, <2>5, <4>1 DEF Create
    <3> HIDE DEF r, f
    <3>2. Written(Blank) /\ Cost(Blank) = 0
      BY DEF Written, Cost, OwnsKey, OwnsValue, Blank
    <3>3. h.strings = Blocks(h.at) + Cost(Blank) + k
      BY <1>1, <3>2
    <3>4. Tidy(Mem(Grown(h.at, r, Blank), h.strings, f), Grown(ls, r, <<>>), R \cup {r}, k)
      BY <2>1, <3>2, <3>3, BlankIsItem, TidyGrows
    <3>5. n.h.at = Grown(h.at, r, Blank)
      BY <2>1 DEF Mem
    <3>6. LET h2 == cJSON_Delete(n.h, r) IN h2.at = h.at /\ Tidy(h2, ls, R, k)
      BY <2>1, <3>4, <3>5, BlankIsItem, NewDeleted
    <3>7. d.h = cJSON_Delete(n.h, r) /\ d.r = NULL
      BY <3>1 DEF r
    <3> HIDE DEF d, n
    <3> QED
      BY <3>6, <3>7 DEF NewRoot, d
  <2> QED
    BY <2>2, <2>3, <2>4, <2>5
<1> QED
  BY <1>5, <1>6

\* An item that was just created to show child.
Showing(type, value, child) ==
  [Blank EXCEPT !.type = type, !.ref = TRUE, !.value = value, !.child = child]

LEMMA NewShowing ==
  ASSUME NEW h, NEW ls, NEW R, NEW k \in Int, Tidy(h, ls, R, k), NEW r \in Node \ DOMAIN ls,
         NEW x \in Item, x.next = NULL, x.prev = NULL, x.ref, x.key = NoString,
         NEW d, d.r = r, NEW fuel, d.h = Mem(Grown(h.at, r, x), h.strings, fuel)
  PROVE  NewRoot(d, h, ls, R, k, x)
<1>1. Cost(x) = 0 /\ Written(x)
  BY DEF Cost, OwnsKey, OwnsValue, Written
<1>2. h.strings = Blocks(h.at) + Cost(x) + k
  BY <1>1, TidyFacts
<1>3. Tidy(Mem(Grown(h.at, r, x), h.strings, fuel), Grown(ls, r, <<>>), R \cup {r}, k)
  BY <1>1, <1>2, TidyGrows
<1>4. d.h.at = Grown(h.at, r, x)
  BY DEF Mem
<1> QED
  BY <1>3, <1>4 DEF NewRoot

LEMMA CreatesReference ==
  ASSUME NEW h, NEW ls, NEW R, NEW k \in Int, Tidy(h, ls, R, k), NEW type \in Type, NEW value \in Chars,
         NEW child \in Ptr
  PROVE  NewRoot(CreateReference(h, type, value, child), h, ls, R, k, Showing(type, value, child))
<1> DEFINE d == CreateReference(h, type, value, child)
           n == cJSON_New_Item(h)
           x == Showing(type, value, child)
           at1 == Grown(h.at, n.r, Blank)
           fuel == h.fuel - 1
<1>1. /\ h = Mem(h.at, h.strings, h.fuel) /\ DOMAIN h.at = DOMAIN ls /\ DOMAIN h.at \subseteq Node
  BY TidyFacts
<1>2. x \in Item /\ x.next = NULL /\ x.prev = NULL /\ x.ref /\ x.key = NoString
  BY NoStringIsChars DEF Showing, Blank, Item, Ptr
<1>3. \/ n.r = NULL /\ n.h = h
      \/ n.r \in Node \ DOMAIN h.at /\ n.h = Mem(at1, h.strings, fuel)
  BY <1>1, NewItemIs
<1>4. NULL \notin Node
  BY DEF NULL, Node
<1>5. CASE n.r = NULL
  <2>1. d = n /\ n.h = h
    BY <1>3, <1>4, <1>5 DEF CreateReference
  <2> QED
    BY <1>5, <2>1 DEF NewRoot
<1>6. CASE n.r # NULL
  <2>1. d = [h |-> [n.h EXCEPT !.at[n.r] = x], r |-> n.r]
    BY <1>6 DEF CreateReference, Showing
  <2>2. n.r \in Node \ DOMAIN ls /\ n.h = Mem(at1, h.strings, fuel)
    BY <1>1, <1>3, <1>6
  <2> HIDE DEF x
  <2>3. [at1 EXCEPT ![n.r] = x] = Grown(h.at, n.r, x)
    BY DEF Grown
  <2> HIDE DEF at1, n, fuel
  <2>4. [Mem(at1, h.strings, fuel) EXCEPT !.at[n.r] = x] = Mem([at1 EXCEPT ![n.r] = x], h.strings, fuel)
    BY DEF Mem
  <2>5. d.h = Mem(Grown(h.at, n.r, x), h.strings, fuel) /\ d.r = n.r
    BY <2>1, <2>2, <2>3, <2>4
  <2> HIDE DEF d
  <2>6. NewRoot(d, h, ls, R, k, x)
    BY <1>2, <2>2, <2>5, NewShowing
  <2> QED
    BY <2>6 DEF d, x
<1> QED
  BY <1>5, <1>6

LEMMA References ==
  ASSUME NEW h, NEW ls, NEW R, NEW k \in Int, Tidy(h, ls, R, k), NEW item \in DOMAIN ls
  PROVE  NewRoot(create_reference(h, item), h, ls, R, k, Reference(h.at[item]))
<1> DEFINE d == create_reference(h, item)
           x == Reference(h.at[item])
           fuel == h.fuel - 1
<1>1. /\ h = Mem(h.at, h.strings, h.fuel) /\ DOMAIN h.at = DOMAIN ls /\ DOMAIN h.at \subseteq Node
      /\ NULL \notin DOMAIN h.at /\ h.at[item] \in Item
  BY TidyFacts
<1>2. /\ \/ d.r = NULL /\ d.h = h
         \/ d.r \in Node \ DOMAIN h.at /\ d.h = Mem(Grown(h.at, d.r, x), h.strings, fuel)
      /\ x \in Item /\ x.next = NULL /\ x.prev = NULL /\ x.ref
  BY <1>1, ReferenceIs
<1>3. x.key = NoString
  BY <1>1 DEF Reference, Item
<1> HIDE DEF d, x, fuel
<1>4. CASE d.r = NULL /\ d.h = h
  BY <1>4 DEF NewRoot, d, x
<1>5. CASE d.r \in Node \ DOMAIN h.at /\ d.h = Mem(Grown(h.at, d.r, x), h.strings, fuel)
  <2>1. NewRoot(d, h, ls, R, k, x)
    BY <1>1, <1>2, <1>3, <1>5, NewShowing
  <2> QED
    BY <2>1 DEF d, x
<1> QED
  BY <1>2, <1>4, <1>5

\* The items, with x for n.
AtWith(at, n, x) == [at EXCEPT ![n] = x]

LEMMA TidyRelabelled ==
  ASSUME NEW h, NEW ls, NEW R, NEW k, Tidy(h, ls, R, k), NEW n \in DOMAIN ls,
         NEW x \in Item, x.ref = h.at[n].ref, x.next = h.at[n].next, x.prev = h.at[n].prev,
         x.child = h.at[n].child, Written(x), NEW j \in Int,
         NEW g, g.at = AtWith(h.at, n, x), g = Mem(g.at, g.strings, g.fuel),
         g.strings = Blocks(h.at) - Cost(h.at[n]) + Cost(x) + j
  PROVE  Tidy(g, ls, R, j)
<1>1. Tidy(Mem([h.at EXCEPT ![n] = x], g.strings, g.fuel), ls, R, j)
  BY TidyRelabels
<1> QED
  BY <1>1 DEF AtWith

Rewritten(i, text) == [i EXCEPT !.value = text]

\* item->valuestring = text, and `less' blocks are freed.
Valued(g, n, text, less) == [g EXCEPT !.at[n].value = text, !.strings = @ - less]

LEMMA ValuedIs ==
  ASSUME NEW g, g = Mem(g.at, g.strings, g.fuel), g.strings \in Int, NEW n, NEW text, NEW less \in Int
  PROVE  LET q == Valued(g, n, text, less)
         IN  /\ q.at = AtWith(g.at, n, Rewritten(g.at[n], text))
             /\ q.strings = g.strings - less /\ q = Mem(q.at, q.strings, q.fuel)
<1> DEFINE at == g.at
           strings == g.strings
           fuel == g.fuel
           at2 == [at EXCEPT ![n] = Rewritten(at[n], text)]
           left == strings - less
           q == Valued(g, n, text, less)
<1>0. g = Mem(at, strings, fuel)
  OBVIOUS
<1>1. g.at = at /\ g.strings = strings /\ g.fuel = fuel
  OBVIOUS
<1>2. q = [[g EXCEPT !.at = at2] EXCEPT !.strings = left]
  BY <1>1 DEF Valued, Rewritten
<1> HIDE DEF at2, left, q, at, strings, fuel
<1>3. [g EXCEPT !.at = at2] = Mem(at2, strings, fuel)
  <2>1. [Mem(at, strings, fuel) EXCEPT !.at = at2] = Mem(at2, strings, fuel)
    BY DEF Mem
  <2> QED
    BY <1>0, <2>1
<1>4. [Mem(at2, strings, fuel) EXCEPT !.strings = left] = Mem(at2, left, fuel)
  BY DEF Mem
<1>5. q = Mem(at2, left, fuel)
  BY <1>2, <1>3, <1>4
<1>6. q.at = at2 /\ q.strings = left /\ q.fuel = fuel
  BY <1>5 DEF Mem
<1>7. q = Mem(q.at, q.strings, q.fuel)
  BY <1>5, <1>6
<1> QED
  BY <1>6, <1>7 DEF q, at2, left, at, strings, AtWith

LEMMA SetsItsText ==
  ASSUME NEW h, NEW ls, NEW R, NEW k \in Int, Tidy(h, ls, R, k), NEW n \in DOMAIN ls,
         NEW text \in Chars, text # NoString
  PROVE  LET d == cJSON_SetValuestring(h, n, text)
         IN  /\ Tidy(d.h, ls, R, k) /\ d.r \in BOOLEAN
             /\ ~d.r => d.h = h
             /\ d.r => d.h.at = AtWith(h.at, n, Rewritten(h.at[n], text))
<1> DEFINE d == cJSON_SetValuestring(h, n, text)
           i == h.at[n]
           x == Rewritten(i, text)
           c == IF Len(text) <= Len(i.value) THEN [h |-> h, r |-> TRUE] ELSE cJSON_strdup(h)
           freed == IF Len(text) <= Len(i.value) THEN 0 ELSE 1
           q == Valued(c.h, n, text, freed)
<1>1. /\ h = Mem(h.at, h.strings, h.fuel) /\ DOMAIN h.at = DOMAIN ls /\ i \in Item
      /\ h.strings = Blocks(h.at) + k /\ h.strings \in Int /\ Blocks(h.at) \in Int
      /\ Written(i) /\ Cost(i) \in Int
  BY TidyFacts
<1>2. \/ c.r = FALSE
      \/ c.r = TRUE /\ c.h = Mem(h.at, h.strings + freed, c.h.fuel)
  <2>1. CASE Len(text) <= Len(i.value)
    <3>1. c.h = h /\ c.r = TRUE /\ freed = 0 /\ h.strings + 0 = h.strings
      BY <1>1, <2>1
    <3> HIDE DEF c, freed
    <3> QED
      BY <1>1, <3>1
  <2>2. CASE ~(Len(text) <= Len(i.value))
    <3>1. c = cJSON_strdup(h) /\ freed = 1
      BY <2>2
    <3> HIDE DEF c, freed
    <3>2. \/ c.r = FALSE
          \/ /\ c.r = TRUE /\ c.h.at = h.at /\ c.h.strings = h.strings + 1
             /\ c.h = Mem(c.h.at, c.h.strings, c.h.fuel)
      BY <1>1, <3>1, CopiesText
    <3> QED
      BY <3>1, <3>2
  <2> QED
    BY <2>1, <2>2
<1>3. freed \in Int /\ (h.strings + freed) - freed = h.strings
  BY <1>1
<1>4. d = IF i.type # "string" \/ i.ref \/ ~c.r THEN [h |-> h, r |-> FALSE] ELSE [h |-> q, r |-> TRUE]
  BY DEF cJSON_SetValuestring, Valued
<1> HIDE DEF c, d, freed
<1>5. CASE i.type # "string" \/ i.ref \/ ~c.r
  <2>1. d.h = h /\ d.r = FALSE
    BY <1>4, <1>5
  <2> QED
    BY <2>1 DEF d
<1>6. CASE ~(i.type # "string" \/ i.ref \/ ~c.r)
  <2>1. d.h = q /\ d.r = TRUE
    <3> HIDE DEF q
    <3> QED
      BY <1>4, <1>6
  <2>2. c.h = Mem(h.at, h.strings + freed, c.h.fuel)
    BY <1>2, <1>6
  <2>3. /\ q.at = AtWith(h.at, n, x) /\ q.strings = h.strings /\ q = Mem(q.at, q.strings, q.fuel)
    <3>1. c.h.at = h.at /\ c.h.strings = h.strings + freed /\ c.h = Mem(c.h.at, c.h.strings, c.h.fuel)
      <4> DEFINE more == h.strings + freed
                 f == c.h.fuel
      <4>1. c.h = Mem(h.at, more, f)
        BY <2>2
      <4> HIDE DEF more, f
      <4>2. c.h.at = h.at /\ c.h.strings = more /\ c.h.fuel = f
        BY <4>1 DEF Mem
      <4>3. c.h = Mem(c.h.at, c.h.strings, c.h.fuel)
        BY <4>1, <4>2
      <4> QED
        BY <4>2, <4>3 DEF more
    <3>2. /\ q.at = AtWith(c.h.at, n, Rewritten(c.h.at[n], text))
          /\ q.strings = c.h.strings - freed /\ q = Mem(q.at, q.strings, q.fuel)
      <4>1. c.h.strings \in Int /\ freed \in Int
        BY <1>1, <1>3, <3>1
      <4> QED
        BY <3>1, <4>1, ValuedIs
    <3> HIDE DEF q
    <3> QED
      BY <1>3, <3>1, <3>2
  <2>4. x \in Item /\ x.ref = i.ref /\ x.next = i.next /\ x.prev = i.prev /\ x.child = i.child
        /\ x.type = i.type /\ x.value = text /\ x.key = i.key /\ x.const = i.const
    BY <1>1 DEF Item, Rewritten
  <2> HIDE DEF q, x
  <2>5. Written(x) /\ Cost(x) = Cost(i)
    BY <1>1, <1>6, <2>4 DEF Written, Cost, OwnsKey, OwnsValue
  <2>6. q.strings = Blocks(h.at) - Cost(i) + Cost(x) + k
    BY <1>1, <2>3, <2>5
  <2>7. Tidy(q, ls, R, k)
    BY <2>3, <2>4, <2>5, <2>6, TidyRelabelled
  <2> QED
    BY <2>1, <2>3, <2>7 DEF d, x
<1> QED
  BY <1>5, <1>6

\* item->string = name, with its flag, and `less' blocks are freed.
Naming(g, n, name, const, less) == [g EXCEPT !.strings = @ - less, !.at[n].key = name, !.at[n].const = const]
Titled(i, name, const) == [i EXCEPT !.key = name, !.const = const]

LEMMA NamingIs ==
  ASSUME NEW g, g = Mem(g.at, g.strings, g.fuel), g.strings \in Int, NEW n, NEW name, NEW const,
         NEW less \in Int
  PROVE  LET q == Naming(g, n, name, const, less)
         IN  /\ q.at = AtWith(g.at, n, Titled(g.at[n], name, const))
             /\ q.strings = g.strings - less /\ q = Mem(q.at, q.strings, q.fuel)
<1> DEFINE at == g.at
           strings == g.strings
           fuel == g.fuel
           at1 == [at EXCEPT ![n].key = name]
           at2 == [at1 EXCEPT ![n].const = const]
           left == strings - less
           q == Naming(g, n, name, const, less)
<1>0. g = Mem(at, strings, fuel)
  OBVIOUS
<1>1. g.at = at /\ g.strings = strings /\ g.fuel = fuel
  OBVIOUS
<1>2. q = [[[g EXCEPT !.strings = left] EXCEPT !.at[n].key = name] EXCEPT !.at[n].const = const]
  BY <1>1 DEF Naming
<1>3. at2 = AtWith(at, n, Titled(at[n], name, const))
  BY DEF Titled, AtWith
<1> HIDE DEF left, q, at, strings, fuel
<1>4. [g EXCEPT !.strings = left] = Mem(at, left, fuel)
  <2>1. [Mem(at, strings, fuel) EXCEPT !.strings = left] = Mem(at, left, fuel)
    BY DEF Mem
  <2> QED
    BY <1>0, <2>1
<1>5. [Mem(at, left, fuel) EXCEPT !.at[n].key = name] = Mem(at1, left, fuel)
  BY DEF Mem
<1> HIDE DEF at1
<1>6. [Mem(at1, left, fuel) EXCEPT !.at[n].const = const] = Mem(at2, left, fuel)
  BY DEF Mem
<1> HIDE DEF at2
<1>7. q = Mem(at2, left, fuel)
  BY <1>2, <1>4, <1>5, <1>6
<1>8. q.at = at2 /\ q.strings = left /\ q.fuel = fuel
  BY <1>7 DEF Mem
<1>9. q = Mem(q.at, q.strings, q.fuel)
  BY <1>7, <1>8
<1> QED
  BY <1>3, <1>8, <1>9 DEF q, left, at, strings

LEMMA NamesItem ==
  ASSUME NEW h, NEW ls, NEW R, NEW k \in Int, Tidy(h, ls, R, k), NEW n \in DOMAIN ls,
         NEW name \in Chars, NEW const \in BOOLEAN,
         NEW q, q = Mem(q.at, q.strings, q.fuel), q.at = AtWith(h.at, n, Titled(h.at[n], name, const)),
         q.strings = h.strings - (IF OwnsKey(h.at[n]) THEN 1 ELSE 0)
                               + (IF ~const /\ name # NoString THEN 1 ELSE 0)
  PROVE  Tidy(q, ls, R, k)
<1> DEFINE i == h.at[n]
           x == Titled(i, name, const)
<1>1. /\ i \in Item /\ h.strings = Blocks(h.at) + k /\ h.strings \in Int /\ Blocks(h.at) \in Int
      /\ Written(i) /\ Cost(i) \in Int
  BY TidyFacts
<1>2. x \in Item /\ x.ref = i.ref /\ x.next = i.next /\ x.prev = i.prev /\ x.child = i.child
      /\ x.type = i.type /\ x.value = i.value /\ x.key = name /\ x.const = const
  BY <1>1 DEF Item, Titled
<1>3. Written(x) /\ Cost(x) \in Int
      /\ Cost(x) - (IF ~const /\ name # NoString THEN 1 ELSE 0)
           = Cost(i) - (IF OwnsKey(i) THEN 1 ELSE 0)
  <2> HIDE DEF x, i
  <2> DEFINE new == IF ~const /\ name # NoString THEN 1 ELSE 0
             old == IF OwnsKey(i) THEN 1 ELSE 0
             text == IF OwnsValue(i) THEN 1 ELSE 0
  <2>1. (OwnsValue(x) <=> OwnsValue(i)) /\ (OwnsKey(x) <=> (~const /\ name # NoString))
    BY <1>2 DEF OwnsKey, OwnsValue
  <2>2. Written(x)
    BY <1>1, <1>2 DEF Written
  <2>3. (IF OwnsKey(x) THEN 1 ELSE 0) = new /\ (IF OwnsValue(x) THEN 1 ELSE 0) = text
    BY <2>1, Zenon
  <2>4. new \in Int /\ old \in Int /\ text \in Int
    OBVIOUS
  <2>5. Cost(x) = new + text /\ Cost(i) = old + text
    BY <2>3 DEF Cost
  <2> HIDE DEF new, old, text
  <2>6. Cost(x) \in Int /\ Cost(x) - new = Cost(i) - old
    BY <2>4, <2>5
  <2> QED
    BY <2>2, <2>6 DEF new, old
<1> HIDE DEF x, i
<1>4. q.strings = Blocks(h.at) - Cost(i) + Cost(x) + k
  BY <1>1, <1>3 DEF i
<1>5. q.at = AtWith(h.at, n, x)
  BY DEF x, i
<1> QED
  BY <1>2, <1>4, <1>5, <1>3, TidyRelabelled DEF i

\* The name goes, and `less' blocks are freed; and a name comes.
Unnaming(g, n, less)        == [g EXCEPT !.strings = @ - less, !.at[n].key = NoString]
Renaming(g, n, name, const) == [g EXCEPT !.at[n].key = name, !.at[n].const = const]

LEMMA UnnamingIs ==
  ASSUME NEW g, g = Mem(g.at, g.strings, g.fuel), g.strings \in Int, NEW n, g.at \in [DOMAIN g.at -> Item],
         n \in DOMAIN g.at, NEW less \in Int
  PROVE  LET q == Unnaming(g, n, less)
         IN  /\ q.at = AtWith(g.at, n, Titled(g.at[n], NoString, g.at[n].const))
             /\ q.strings = g.strings - less /\ q = Mem(q.at, q.strings, q.fuel)
<1> DEFINE at == g.at
           strings == g.strings
           fuel == g.fuel
           at1 == [at EXCEPT ![n].key = NoString]
           left == strings - less
           q == Unnaming(g, n, less)
<1>0. g = Mem(at, strings, fuel)
  OBVIOUS
<1>1. q = [[g EXCEPT !.strings = left] EXCEPT !.at[n].key = NoString]
  BY DEF Unnaming
<1>2. at1 = AtWith(at, n, Titled(at[n], NoString, at[n].const))
  <2>1. at[n] \in Item
    OBVIOUS
  <2>2. [at[n] EXCEPT !.key = NoString] = [at[n] EXCEPT !.key = NoString, !.const = at[n].const]
    BY <2>1 DEF Item
  <2>3. at1 = [at EXCEPT ![n] = [at[n] EXCEPT !.key = NoString]]
    OBVIOUS
  <2> QED
    BY <2>2, <2>3 DEF Titled, AtWith
<1> HIDE DEF left, q, at, strings, fuel
<1>4. [g EXCEPT !.strings = left] = Mem(at, left, fuel)
  <2>1. [Mem(at, strings, fuel) EXCEPT !.strings = left] = Mem(at, left, fuel)
    BY DEF Mem
  <2> QED
    BY <1>0, <2>1
<1>5. [Mem(at, left, fuel) EXCEPT !.at[n].key = NoString] = Mem(at1, left, fuel)
  BY DEF Mem
<1> HIDE DEF at1
<1>7. q = Mem(at1, left, fuel)
  BY <1>1, <1>4, <1>5
<1>8. q.at = at1 /\ q.strings = left /\ q.fuel = fuel
  BY <1>7 DEF Mem
<1>9. q = Mem(q.at, q.strings, q.fuel)
  BY <1>7, <1>8
<1> QED
  BY <1>2, <1>8, <1>9 DEF q, left, at, strings

LEMMA RenamingIs ==
  ASSUME NEW g, g = Mem(g.at, g.strings, g.fuel), NEW n, NEW name, NEW const
  PROVE  LET q == Renaming(g, n, name, const)
         IN  /\ q.at = AtWith(g.at, n, Titled(g.at[n], name, const))
             /\ q.strings = g.strings /\ q = Mem(q.at, q.strings, q.fuel)
<1> DEFINE at == g.at
           strings == g.strings
           fuel == g.fuel
           at1 == [at EXCEPT ![n].key = name]
           at2 == [at1 EXCEPT ![n].const = const]
           q == Renaming(g, n, name, const)
<1>0. g = Mem(at, strings, fuel)
  OBVIOUS
<1>2. q = [[g EXCEPT !.at[n].key = name] EXCEPT !.at[n].const = const]
  BY DEF Renaming
<1>3. at2 = AtWith(at, n, Titled(at[n], name, const))
  BY DEF Titled, AtWith
<1> HIDE DEF q, at, strings, fuel
<1>5. [Mem(at, strings, fuel) EXCEPT !.at[n].key = name] = Mem(at1, strings, fuel)
  BY DEF Mem
<1> HIDE DEF at1
<1>6. [Mem(at1, strings, fuel) EXCEPT !.at[n].const = const] = Mem(at2, strings, fuel)
  BY DEF Mem
<1> HIDE DEF at2
<1>7. q = Mem(at2, strings, fuel)
  BY <1>0, <1>2, <1>5, <1>6
<1>8. q.at = at2 /\ q.strings = strings /\ q.fuel = fuel
  BY <1>7 DEF Mem
<1>9. q = Mem(q.at, q.strings, q.fuel)
  BY <1>7, <1>8
<1> QED
  BY <1>3, <1>8, <1>9 DEF q, at, strings

LEMMA AtWithIs ==
  ASSUME NEW at, NEW n \in DOMAIN at, NEW x
  PROVE  /\ DOMAIN AtWith(at, n, x) = DOMAIN at /\ AtWith(at, n, x)[n] = x
         /\ \A m \in DOMAIN at : m # n => AtWith(at, n, x)[m] = at[m]
BY DEF AtWith

\* x has the name and is the last in the list of o.
AddedNamed(d, h, ls, R, k, o, x, name, const) ==
  /\ Tidy(d.h, Listing(ls, o, Append(ls[o], x)), R \ {x}, k)
  /\ SameLabels(AtWith(h.at, x, Titled(h.at[x], name, const)), d.h.at)

AddedOrNot(d, h, ls, R, k, o, x, name, const) ==
  \/ d.r = FALSE /\ d.h = h
  \/ d.r = TRUE /\ AddedNamed(d, h, ls, R, k, o, x, name, const)

LEMMA AddsNamed ==
  ASSUME NEW h, NEW ls, NEW R, NEW k \in Int, Tidy(h, ls, R, k), NEW o \in DOMAIN ls, NEW x \in DOMAIN ls,
         ~h.at[o].ref, Root(ls, x), o \notin Below(ls, x),
         NEW name \in Chars, name # NoString, NEW const \in BOOLEAN
  PROVE  AddedOrNot(add_item_to_object(h, o, name, x, const), h, ls, R, k, o, x, name, const)
<1> DEFINE d == add_item_to_object(h, o, name, x, const)
           c == IF const THEN [h |-> h, r |-> TRUE] ELSE cJSON_strdup(h)
           own == IF OwnsKey(h.at[x]) THEN 1 ELSE 0
           cost == IF ~const /\ name # NoString THEN 1 ELSE 0
           q == Naming(c.h, x, name, const, own)
           y == Titled(h.at[x], name, const)
<1>1. /\ h = Mem(h.at, h.strings, h.fuel) /\ DOMAIN h.at = DOMAIN ls /\ NULL \notin DOMAIN ls
      /\ h.strings \in Int /\ Sound(h.at, ls) /\ h.at[x] \in Item
  BY TidyFacts
<1>2. NULL \notin {o, x} /\ o # x
  BY <1>1, SoundFacts, BelowClosed
<1>3. d = IF ~c.r THEN [h |-> h, r |-> FALSE] ELSE add_item_to_array(q, o, x)
  BY <1>2 DEF add_item_to_object, Naming
<1>4. \/ c.r = FALSE
      \/ /\ c.r = TRUE /\ c.h.at = h.at /\ c.h.strings = h.strings + cost
         /\ c.h = Mem(c.h.at, c.h.strings, c.h.fuel)
  <2>1. CASE const
    <3>1. c.h = h /\ c.r = TRUE /\ cost = 0 /\ h.strings + 0 = h.strings
      BY <1>1, <2>1
    <3> HIDE DEF c, cost
    <3> QED
      BY <1>1, <3>1
  <2>2. CASE ~const
    <3>1. c = cJSON_strdup(h) /\ cost = 1
      BY <2>2
    <3> HIDE DEF c, cost
    <3>2. \/ c.r = FALSE
          \/ /\ c.r = TRUE /\ c.h.at = h.at /\ c.h.strings = h.strings + 1
             /\ c.h = Mem(c.h.at, c.h.strings, c.h.fuel)
      BY <1>1, <3>1, CopiesText
    <3> QED
      BY <3>1, <3>2
  <2> QED
    BY <2>1, <2>2
<1>5. own \in Int /\ cost \in Int
  OBVIOUS
<1> HIDE DEF c
<1>6. CASE c.r = FALSE
  <2>1. d = [h |-> h, r |-> FALSE]
    BY <1>3, <1>6
  <2> HIDE DEF d
  <2>2. d.r = FALSE /\ d.h = h
    BY <2>1
  <2> QED
    BY <2>2 DEF d, AddedOrNot
<1>7. CASE c.r # FALSE
  <2>1. /\ c.r = TRUE /\ c.h.at = h.at /\ c.h.strings = h.strings + cost
        /\ c.h = Mem(c.h.at, c.h.strings, c.h.fuel)
    BY <1>4, <1>7
  <2>2. q.at = AtWith(h.at, x, y) /\ q.strings = h.strings - own + cost /\ q = Mem(q.at, q.strings, q.fuel)
    <3> HIDE DEF own, cost, y
    <3>1. c.h.strings \in Int
      BY <1>1, <1>5, <2>1
    <3>2. /\ q.at = AtWith(c.h.at, x, Titled(c.h.at[x], name, const))
          /\ q.strings = c.h.strings - own /\ q = Mem(q.at, q.strings, q.fuel)
      BY <1>5, <2>1, <3>1, NamingIs
    <3> HIDE DEF q
    <3>3. q.strings = h.strings - own + cost
      BY <1>1, <1>5, <2>1, <3>2
    <3> QED
      BY <2>1, <3>2, <3>3 DEF y
  <2>3. Tidy(q, ls, R, k)
    <3> HIDE DEF q
    <3> QED
      BY <2>2, NamesItem
  <2>4. ~q.at[o].ref
    BY <1>1, <1>2, <2>2, AtWithIs
  <2> HIDE DEF q
  <2> DEFINE e == add_item_to_array(q, o, x)
  <2>5. /\ e.r = TRUE /\ SameLabels(q.at, e.h.at)
        /\ Tidy(e.h, Listing(ls, o, Append(ls[o], x)), R \ {x}, k)
    BY <2>3, <2>4, AddsItem
  <2>6. d = e
    BY <1>3, <2>1
  <2> HIDE DEF d, e
  <2> QED
    BY <2>2, <2>5, <2>6 DEF d, AddedNamed, AddedOrNot
<1> QED
  BY <1>6, <1>7 DEF AddedOrNot

\* The places in s of the items with the name.
NamedIn(at, s, name, exact) ==
  {i \in DOMAIN s : IF exact THEN at[s[i]].key = name ELSE Fold(at[s[i]].key) = Fold(name)}

\* it is what a search in s for the name comes to.
FoundByName(it, at, s, name, exact) ==
  LET places == NamedIn(at, s, name, exact)
  IN  /\ it = NULL \/ \E i \in 1 .. Len(s) : it = s[i]
      /\ places # {} => Min(places) \in 1 .. Len(s)
      /\ (\A i \in 1 .. Len(s) : at[s[i]].key # NoString) =>
           it = IF places = {} THEN NULL ELSE s[Min(places)]

LEMMA Finds ==
  ASSUME NEW h, NEW ls, Sound(h.at, ls), NEW o \in DOMAIN ls, ~h.at[o].ref, NEW name, NEW exact \in BOOLEAN
  PROVE  FoundByName(get_object_item(h, o, name, exact), h.at, ls[o], name, exact)
<1> DEFINE it == get_object_item(h, o, name, exact)
           s == ls[o]
           key(i) == h.at[s[i]].key
           stops == {i \in DOMAIN s : IF exact THEN key(i) \in {NoString, name} ELSE Fold(key(i)) = Fold(name)}
           places == NamedIn(h.at, s, name, exact)
<1>1. Items(h, o) = s
  BY ItemsSound
<1>2. s \in Seq(DOMAIN ls) /\ DOMAIN s = 1 .. Len(s) /\ Len(s) \in Nat
  BY SoundFacts
<1>3. it = IF stops = {} THEN NULL ELSE IF key(Min(stops)) = NoString THEN NULL ELSE s[Min(stops)]
  BY <1>1 DEF get_object_item
<1>4. stops \in SUBSET Nat /\ places \in SUBSET Nat /\ stops \subseteq 1 .. Len(s) /\ places \subseteq 1 .. Len(s)
  BY <1>2 DEF NamedIn
<1>5. (\A i \in 1 .. Len(s) : key(i) # NoString) => stops = places
  BY <1>2 DEF NamedIn
<1> HIDE DEF it, stops, places, key
<1>6. stops # {} => Min(stops) \in stops
  BY <1>4, MinIsLeast
<1>7. places # {} => Min(places) \in places
  BY <1>4, MinIsLeast
<1>8. it = NULL \/ \E i \in 1 .. Len(s) : it = s[i]
  BY <1>3, <1>4, <1>6
<1>9. (\A i \in 1 .. Len(s) : key(i) # NoString) => it = IF places = {} THEN NULL ELSE s[Min(places)]
  BY <1>3, <1>4, <1>5, <1>7
<1> QED
  BY <1>4, <1>7, <1>8, <1>9 DEF it, places, key, FoundByName

\* The list of o has y, with the name, where the item was that the search finds.
ReplacedOrNot(d, h, ls, R, k, o, y, name, exact) ==
  LET places == NamedIn(h.at, ls[o], name, exact)
  IN  \/ /\ d.r = FALSE /\ Tidy(d.h, ls, R, k)
         /\ \E key, const : d.h.at = AtWith(h.at, y, Titled(h.at[y], key, const))
      \/ /\ d.r = TRUE
         /\ \E i \in 1 .. Len(ls[o]) :
              /\ Replaced(d, ls, R, k, o, i, ls[o][i], y)
              /\ (\A j \in 1 .. Len(ls[o]) : h.at[ls[o][j]].key # NoString) =>
                   places # {} /\ i = Min(places)
         /\ Labelled(AtWith(h.at, y, Titled(h.at[y], name, FALSE)), d.h.at)

LEMMA ReplacesNamed ==
  ASSUME NEW h, NEW ls, NEW R, NEW k \in Int, Tidy(h, ls, R, k), NEW o \in DOMAIN ls, NEW y \in DOMAIN ls,
         ~h.at[o].ref, Root(ls, y), o \notin Below(ls, y),
         NEW name \in Chars, name # NoString, NEW exact \in BOOLEAN
  PROVE  ReplacedOrNot(replace_item_in_object(h, o, name, y, exact), h, ls, R, k, o, y, name, exact)
<1> DEFINE d == replace_item_in_object(h, o, name, y, exact)
           own == IF OwnsKey(h.at[y]) THEN 1 ELSE 0
           u == Unnaming(h, y, own)
           c == cJSON_strdup(u)
           q == Renaming(c.h, y, name, FALSE)
           it == get_object_item(q, o, name, exact)
           z == Titled(h.at[y], name, FALSE)
           const == h.at[y].const
           s == ls[o]
<1>1. /\ h = Mem(h.at, h.strings, h.fuel) /\ DOMAIN h.at = DOMAIN ls /\ NULL \notin DOMAIN ls
      /\ h.strings \in Int /\ Sound(h.at, ls) /\ h.at[y] \in Item /\ h.at \in [DOMAIN h.at -> Item]
  BY TidyFacts
<1>2. own \in Int /\ const \in BOOLEAN /\ y # o /\ y # NULL /\ o # NULL /\ y \notin ToSet(s)
  BY <1>1, SoundFacts, BelowClosed DEF Item, Root
<1>3. /\ u.at = AtWith(h.at, y, Titled(h.at[y], NoString, const)) /\ u.strings = h.strings - own
      /\ u = Mem(u.at, u.strings, u.fuel)
  <2> HIDE DEF own
  <2> QED
    BY <1>1, <1>2, UnnamingIs
<1>4. d = IF ~c.r THEN c ELSE cJSON_ReplaceItemViaPointer(q, o, it, y)
  BY DEF replace_item_in_object, Unnaming, Renaming
<1>5. Tidy(u, ls, R, k)
  <2>1. u.strings = h.strings - own + (IF ~const /\ NoString # NoString THEN 1 ELSE 0)
    BY <1>1, <1>2, <1>3
  <2>2. NoString \in Chars
    BY NoStringIsChars
  <2> HIDE DEF u, const
  <2> QED
    BY <1>2, <1>3, <2>1, <2>2, NamesItem
<1> HIDE DEF u
<1>6. \/ c.r = FALSE /\ c.h = u
      \/ /\ c.r = TRUE /\ c.h.at = u.at /\ c.h.strings = u.strings + 1
         /\ c.h = Mem(c.h.at, c.h.strings, c.h.fuel)
  BY <1>3, CopiesText
<1> HIDE DEF c
<1>7. ASSUME c.r = FALSE, c.h = u PROVE ReplacedOrNot(d, h, ls, R, k, o, y, name, exact)
  <2>1. d = c
    BY <1>4, <1>7
  <2> HIDE DEF d
  <2>2. d.r = FALSE /\ d.h = u
    BY <1>7, <2>1
  <2>3. d.h.at = AtWith(h.at, y, Titled(h.at[y], NoString, const))
    BY <1>3, <2>2
  <2> QED
    BY <1>5, <2>2, <2>3 DEF ReplacedOrNot
<1>8. ASSUME c.r = TRUE, c.h.at = u.at, c.h.strings = u.strings + 1,
             c.h = Mem(c.h.at, c.h.strings, c.h.fuel)
      PROVE  ReplacedOrNot(d, h, ls, R, k, o, y, name, exact)
  <2>1. /\ q.at = AtWith(c.h.at, y, Titled(c.h.at[y], name, FALSE))
        /\ q.strings = c.h.strings /\ q = Mem(q.at, q.strings, q.fuel)
    <3> DEFINE no == FALSE
               e == Renaming(c.h, y, name, no)
    <3> HIDE DEF no
    <3>1. /\ e.at = AtWith(c.h.at, y, Titled(c.h.at[y], name, no))
          /\ e.strings = c.h.strings /\ e = Mem(e.at, e.strings, e.fuel)
      BY <1>8, RenamingIs
    <3> QED
      BY <3>1 DEF no
  <2> HIDE DEF q
  <2>2. q.at = AtWith(h.at, y, z)
    <3>1. u.at[y] = Titled(h.at[y], NoString, const)
      BY <1>1, <1>3, AtWithIs
    <3>2. Titled(Titled(h.at[y], NoString, const), name, FALSE) = z
      BY <1>1 DEF Titled, Item
    <3> HIDE DEF z
    <3>3. q.at = AtWith(AtWith(h.at, y, Titled(h.at[y], NoString, const)), y, z)
      BY <1>3, <1>8, <2>1, <3>1, <3>2
    <3>4. ASSUME NEW v PROVE AtWith(AtWith(h.at, y, v), y, z) = AtWith(h.at, y, z)
      BY <1>1 DEF AtWith
    <3> HIDE DEF const
    <3> QED
      BY <3>3, <3>4
  <2>3. Tidy(q, ls, R, k)
    <3>1. q.strings = h.strings - own + (IF ~FALSE /\ name # NoString THEN 1 ELSE 0)
      BY <1>1, <1>2, <1>3, <1>8, <2>1
    <3> QED
      BY <2>1, <2>2, <3>1, NamesItem
  <2>4. Sound(q.at, ls) /\ ~q.at[o].ref
    <3>1. Sound(q.at, ls)
      BY <2>3 DEF Tidy
    <3> HIDE DEF z
    <3>2. q.at[o] = h.at[o]
      BY <1>1, <1>2, <2>2, AtWithIs
    <3> QED
      BY <3>1, <3>2
  <2> HIDE DEF z
  <2>5. /\ s \in Seq(DOMAIN ls) /\ DOMAIN s = 1 .. Len(s)
        /\ \A j \in 1 .. Len(s) : s[j] \in DOMAIN h.at /\ s[j] # y /\ q.at[s[j]] = h.at[s[j]] /\ s[j] # NULL
    <3>1. s \in Seq(DOMAIN ls)
      BY <1>1, SoundFacts
    <3>2. \A j \in 1 .. Len(s) : s[j] \in DOMAIN h.at /\ s[j] # y
      BY <1>1, <1>2, <3>1, InSet
    <3> HIDE DEF s
    <3> QED
      BY <1>1, <2>2, <3>1, <3>2, AtWithIs
  <2>6. NamedIn(q.at, s, name, exact) = NamedIn(h.at, s, name, exact)
    BY <2>5 DEF NamedIn
  <2>7. /\ it = NULL \/ \E i \in 1 .. Len(s) : it = s[i]
        /\ (\A i \in 1 .. Len(s) : q.at[s[i]].key # NoString) =>
             it = IF NamedIn(q.at, s, name, exact) = {} THEN NULL
                  ELSE s[Min(NamedIn(q.at, s, name, exact))]
        /\ NamedIn(q.at, s, name, exact) # {} => Min(NamedIn(q.at, s, name, exact)) \in 1 .. Len(s)
    <3>1. FoundByName(it, q.at, s, name, exact)
      BY <2>4, Finds
    <3> HIDE DEF it, s
    <3> QED
      BY <3>1 DEF FoundByName
  <2> HIDE DEF it
  <2>8. ASSUME it = NULL PROVE ReplacedOrNot(d, h, ls, R, k, o, y, name, exact)
    <3>1. d = [h |-> q, r |-> FALSE]
      BY <1>4, <1>8, <2>8 DEF cJSON_ReplaceItemViaPointer
    <3> HIDE DEF d
    <3>2. d.r = FALSE /\ d.h = q /\ d.h.at = AtWith(h.at, y, Titled(h.at[y], name, FALSE))
      BY <2>2, <3>1 DEF z
    <3> QED
      BY <2>3, <3>2 DEF ReplacedOrNot
  <2>9. ASSUME it # NULL PROVE ReplacedOrNot(d, h, ls, R, k, o, y, name, exact)
    <3>1. PICK i \in 1 .. Len(s) : it = s[i]
      BY <2>7, <2>9
    <3> DEFINE e == cJSON_ReplaceItemViaPointer(q, o, it, y)
    <3>2. e.r = TRUE /\ Labelled(q.at, e.h.at) /\ Replaced(e, ls, R, k, o, i, it, y)
      BY <2>3, <2>4, <3>1, ReplacesItem
    <3>3. d = e
      BY <1>4, <1>8
    <3> HIDE DEF d, e
    <3>4. Replaced(d, ls, R, k, o, i, s[i], y)
      BY <3>1, <3>2, <3>3
    <3>5. (\A j \in 1 .. Len(s) : h.at[s[j]].key # NoString) =>
            NamedIn(h.at, s, name, exact) # {} /\ i = Min(NamedIn(h.at, s, name, exact))
      <4> DEFINE places == NamedIn(h.at, s, name, exact)
      <4> SUFFICES ASSUME \A j \in 1 .. Len(s) : h.at[s[j]].key # NoString
                   PROVE  places # {} /\ i = Min(places)
        OBVIOUS
      <4>1. \A j \in 1 .. Len(s) : q.at[s[j]].key # NoString
        BY <2>5
      <4>2. places # {} /\ it = s[Min(places)] /\ Min(places) \in 1 .. Len(s)
        BY <2>6, <2>7, <2>9, <4>1
      <4>3. Once(s)
        BY <1>1, SoundFacts
      <4> HIDE DEF places, s
      <4> QED
        BY <2>5, <3>1, <4>2, <4>3 DEF Once
    <3>6. Labelled(AtWith(h.at, y, Titled(h.at[y], name, FALSE)), d.h.at)
      BY <2>2, <3>2, <3>3 DEF z
    <3> QED
      BY <3>2, <3>3, <3>4, <3>5, <3>6 DEF ReplacedOrNot, s
  <2> QED
    BY <2>8, <2>9
<1> HIDE DEF d
<1>9. ReplacedOrNot(d, h, ls, R, k, o, y, name, exact)
  BY <1>6, <1>7, <1>8
<1> QED
  BY <1>9 DEF d

\* x, at place i of the list of a, was detached and freed.
Removed(d, ls, R, k, a, i, x) ==
  LET ls2 == Listing(ls, a, RemoveAt(ls[a], i))
  IN  /\ x = ls[a][i] /\ x \in DOMAIN ls /\ Root(ls2, x)
      /\ Tidy(d.h, Without(ls2, x), R, k)
      /\ \E g : Tidy(g, ls2, R \cup {x}, k)

LEMMA DeletesDetached ==
  ASSUME NEW h, NEW ls, NEW R, NEW k \in Int, Tidy(h, ls, R, k), NEW a \in DOMAIN ls, ~h.at[a].ref,
         NEW i \in 1 .. Len(ls[a]), NEW x, x = ls[a][i]
  PROVE  LET d == DeleteDetached(cJSON_DetachItemViaPointer(h, a, x))
         IN  d.r = x /\ x # NULL /\ Labelled(h.at, d.h.at) /\ Removed(d, ls, R, k, a, i, x)
<1> DEFINE c == cJSON_DetachItemViaPointer(h, a, x)
           d == DeleteDetached(c)
           ls2 == Listing(ls, a, RemoveAt(ls[a], i))
           e == cJSON_Delete(c.h, x)
<1>1. c.r = x /\ x # NULL /\ SameLabels(h.at, c.h.at) /\ Tidy(c.h, ls2, R \cup {x}, k)
  <2>1. c.r = x /\ x # NULL /\ SameLabels(h.at, c.h.at) /\ TakenOut(c, ls, R, k, a, i, x)
    BY DetachesItem
  <2> QED
    BY <2>1 DEF TakenOut
<1>2. x \in DOMAIN ls2 /\ Root(ls2, x)
  BY <1>1 DEF Tidy
<1>3. x \in DOMAIN ls
  BY <1>2, ListingIs
<1>4. x \notin R
  <2>1. Sound(h.at, ls) /\ \A r \in R : Root(ls, r)
    BY DEF Tidy
  <2>2. ls[a] \in Seq(DOMAIN ls)
    BY <2>1, SoundFacts
  <2>3. x \in ToSet(ls[a])
    BY <2>2, InSet
  <2> QED
    BY <2>1, <2>3 DEF Root
<1>5. (R \cup {x}) \ {x} = R
  BY <1>4
<1>6. d.h = e /\ d.r = x
  BY <1>1 DEF DeleteDetached
<1> HIDE DEF c, d, ls2
<1>7. e.at = Deleted(c.h.at, x) /\ Tidy(e, Without(ls2, x), (R \cup {x}) \ {x}, k)
  BY <1>1, <1>2, TidyDeletes
<1>8. Labelled(h.at, Deleted(c.h.at, x))
  BY <1>1 DEF Labelled, Deleted, SameLabels
<1>9. Labelled(h.at, d.h.at) /\ Tidy(d.h, Without(ls2, x), R, k)
  BY <1>5, <1>6, <1>7, <1>8
<1>10. Removed(d, ls, R, k, a, i, x)
  <2>1. \E g : Tidy(g, ls2, R \cup {x}, k)
    BY <1>1
  <2> QED
    BY <1>2, <1>3, <1>9, <2>1 DEF Removed, ls2
<1> QED
  BY <1>1, <1>6, <1>9, <1>10 DEF d, c

LEMMA DeletesNull ==
  ASSUME NEW h, NEW ls, NEW R, NEW k \in Int, Tidy(h, ls, R, k)
  PROVE  cJSON_Delete(h, NULL) = h
<1> DEFINE at == h.at
           strings == h.strings
           fuel == h.fuel
<1>1. h = Mem(at, strings, fuel) /\ strings \in Int /\ Sound(at, ls)
  BY TidyFacts
<1> HIDE DEF at, strings, fuel
<1>2. cJSON_Delete(Mem(at, strings, fuel), NULL) = Mem(at, strings, fuel)
  BY <1>1, DeletesNone
<1> QED
  BY <1>1, <1>2

LEMMA DeletesNothing ==
  ASSUME NEW h, NEW ls, NEW R, NEW k \in Int, Tidy(h, ls, R, k), NEW a
  PROVE  LET c == cJSON_DetachItemViaPointer(h, a, NULL)
             d == DeleteDetached(c)
         IN  c.r = NULL /\ c.h = h /\ d.r = NULL /\ d.h = h
<1> DEFINE c == cJSON_DetachItemViaPointer(h, a, NULL)
           d == DeleteDetached(c)
<1>1. c = [h |-> h, r |-> NULL]
  BY DEF cJSON_DetachItemViaPointer
<1> HIDE DEF c
<1>2. c.h = h /\ c.r = NULL
  BY <1>1
<1>3. cJSON_Delete(h, NULL) = h
  BY DeletesNull
<1>4. d = [h |-> h, r |-> NULL]
  BY <1>2, <1>3 DEF DeleteDetached
<1> QED
  BY <1>2, <1>4 DEF c

\* r, a new item that is x, is the last in the list of a.
NewChild(d, r, h, ls, R, k, a, x) ==
  /\ r \in Node \ DOMAIN ls
  /\ Tidy(d.h, Listing(Grown(ls, r, <<>>), a, Append(ls[a], r)), R, k)
  /\ SameLabels(Grown(h.at, r, x), d.h.at)
  /\ \E g : Tidy(g, Grown(ls, r, <<>>), R \cup {r}, k)

LEMMA GrownIs ==
  ASSUME NEW f, NEW n, n \notin DOMAIN f, NEW v
  PROVE  /\ DOMAIN Grown(f, n, v) = DOMAIN f \cup {n} /\ Grown(f, n, v)[n] = v
         /\ \A m \in DOMAIN f : m # n /\ Grown(f, n, v)[m] = f[m]
BY DEF Grown

\* r, just made, may be added to the list of a.
Ready(n, h, ls, R, k, x, r, a) ==
  LET ls2 == Grown(ls, r, <<>>)
  IN  /\ r \in Node \ DOMAIN ls /\ r \notin DOMAIN h.at
      /\ r \in DOMAIN ls2 /\ a \in DOMAIN ls2 /\ ls2[a] = ls[a]
      /\ n.h.at = Grown(h.at, r, x) /\ ~n.h.at[a].ref
      /\ Tidy(n.h, ls2, R \cup {r}, k) /\ Root(ls2, r) /\ a \notin Below(ls2, r)
      /\ (R \cup {r}) \ {r} = R

LEMMA NewRootIs ==
  ASSUME NEW h, NEW ls, NEW R, NEW k \in Int, Tidy(h, ls, R, k), NEW x, NEW n,
         NewRoot(n, h, ls, R, k, x), NEW r, r = n.r, r # NULL, NEW a \in DOMAIN ls, ~h.at[a].ref
  PROVE  Ready(n, h, ls, R, k, x, r, a)
<1> DEFINE ls2 == Grown(ls, r, <<>>)
<1>1. DOMAIN h.at = DOMAIN ls /\ Sound(h.at, ls) /\ NULL \notin DOMAIN h.at
  BY TidyFacts
<1>2. r \in Node \ DOMAIN ls /\ n.h.at = Grown(h.at, r, x) /\ Tidy(n.h, ls2, R \cup {r}, k)
  BY DEF NewRoot
<1>3. DOMAIN ls2 = DOMAIN ls \cup {r} /\ ls2[r] = <<>> /\ \A m \in DOMAIN ls : m # r /\ ls2[m] = ls[m]
  BY <1>2 DEF Grown
<1>4. n.h.at[a] = h.at[a]
  BY <1>1, <1>2 DEF Grown
<1>5. r \notin R
  BY <1>2 DEF Tidy
<1> HIDE DEF ls2
<1>6. Root(ls2, r) /\ Sound(n.h.at, ls2)
  BY <1>2 DEF Tidy
<1>7. Below(ls2, r) \subseteq {r}
  <2>1. ls2 \in [DOMAIN ls2 -> Seq(DOMAIN ls2)]
    BY <1>6, SoundFacts
  <2>2. ToSet(<<>>) = {}
    BY DEF ToSet
  <2>3. Closed(ls2, {r})
    BY <1>3, <2>2 DEF Closed
  <2> QED
    BY <1>3, <2>1, <2>3, BelowLeast
<1>8. a \notin Below(ls2, r)
  BY <1>2, <1>7
<1> QED
  BY <1>1, <1>2, <1>3, <1>4, <1>5, <1>6, <1>8 DEF Ready, ls2

LEMMA RootDeleted ==
  ASSUME NEW h, NEW ls, NEW R, NEW k \in Int, Tidy(h, ls, R, k), NEW x, NEW n,
         NewRoot(n, h, ls, R, k, x), NEW r, r = n.r, r # NULL, NEW g, g = n.h
  PROVE  LET h2 == cJSON_Delete(g, r) IN h2.at = h.at /\ Tidy(h2, ls, R, k)
<1> DEFINE ls2 == Grown(ls, r, <<>>)
<1>1. /\ r \in Node \ DOMAIN ls /\ g.at = Grown(h.at, r, x)
      /\ Tidy(g, ls2, R \cup {r}, k)
  BY DEF NewRoot
<1>2. r \notin DOMAIN h.at
  BY <1>1, TidyFacts
<1>3. g.at[r] = x /\ r \in DOMAIN ls2 /\ ls2[r] = <<>>
  BY <1>1, <1>2 DEF Grown
<1> HIDE DEF ls2
<1>4. Sound(g.at, ls2) /\ Root(ls2, r)
  BY <1>1 DEF Tidy
<1>5. x \in Item /\ (~x.ref => Linked(g.at, r, ls2[r]))
  BY <1>3, <1>4, SoundFacts
<1>6. x.next = NULL /\ x.prev = NULL
  BY <1>3, <1>4 DEF Sound, RootsLoose, LinkedToNothing
<1>7. ~x.ref => x.child = NULL
  BY <1>3, <1>5 DEF Linked
<1> QED
  BY <1>1, <1>5, <1>6, <1>7, NewDeleted DEF ls2

LEMMA GrownAgain ==
  ASSUME NEW f, NEW n, n \notin DOMAIN f, NEW v, NEW w
  PROVE  /\ AtWith(Grown(f, n, v), n, w) = Grown(f, n, w)
         /\ Grown(f, n, v)[n] = v
BY DEF AtWith, Grown

NewOrNot(d, n, r, h, ls, R, k, o, x) ==
  \/ d.r = FALSE /\ d.h = n.h
  \/ d.r = TRUE /\ NewChild(d, r, h, ls, R, k, o, x)

LEMMA AddsNewNamed ==
  ASSUME NEW h, NEW ls, NEW R, NEW k \in Int, Tidy(h, ls, R, k), NEW x, NEW n,
         NewRoot(n, h, ls, R, k, x), NEW r, r = n.r, r # NULL, NEW o \in DOMAIN ls, ~h.at[o].ref,
         NEW name \in Chars, name # NoString, NEW no \in BOOLEAN
  PROVE  NewOrNot(add_item_to_object(n.h, o, name, r, no), n, r, h, ls, R, k, o, Titled(x, name, no))
<1> DEFINE q == n.h
           d == add_item_to_object(q, o, name, r, no)
           ls2 == Grown(ls, r, <<>>)
           R2 == R \cup {r}
           y == Titled(x, name, no)
<1>1. /\ r \in Node \ DOMAIN ls /\ r \in DOMAIN ls2 /\ o \in DOMAIN ls2 /\ ls2[o] = ls[o]
      /\ q.at = Grown(h.at, r, x) /\ ~q.at[o].ref
      /\ Tidy(q, ls2, R2, k) /\ Root(ls2, r) /\ o \notin Below(ls2, r) /\ R2 \ {r} = R
  <2>1. Ready(n, h, ls, R, k, x, r, o)
    BY NewRootIs
  <2> QED
    BY <2>1 DEF Ready
<1>2. r \notin DOMAIN h.at
  <2>1. Ready(n, h, ls, R, k, x, r, o)
    BY NewRootIs
  <2> QED
    BY <2>1 DEF Ready
<1>3. q.at[r] = x /\ AtWith(q.at, r, y) = Grown(h.at, r, y)
  BY <1>1, <1>2, GrownAgain
<1> HIDE DEF q, ls2, R2, d
<1>5. \/ d.r = FALSE /\ d.h = q
      \/ d.r = TRUE /\ AddedNamed(d, q, ls2, R2, k, o, r, name, no)
  <2>1. /\ Tidy(q, ls2, R2, k) /\ o \in DOMAIN ls2 /\ r \in DOMAIN ls2 /\ ~q.at[o].ref
        /\ Root(ls2, r) /\ o \notin Below(ls2, r)
    BY <1>1
  <2>2. AddedOrNot(d, q, ls2, R2, k, o, r, name, no)
    BY <2>1, AddsNamed DEF d
  <2> QED
    BY <2>2 DEF AddedOrNot
<1>6. ASSUME AddedNamed(d, q, ls2, R2, k, o, r, name, no)
      PROVE  NewChild(d, r, h, ls, R, k, o, y)
  <2>0. /\ Tidy(d.h, Listing(ls2, o, Append(ls2[o], r)), R2 \ {r}, k)
        /\ SameLabels(AtWith(q.at, r, Titled(q.at[r], name, no)), d.h.at)
    BY <1>6 DEF AddedNamed
  <2>1. Tidy(d.h, Listing(ls2, o, Append(ls[o], r)), R, k)
    BY <1>1, <2>0
  <2>2. SameLabels(Grown(h.at, r, y), d.h.at)
    BY <1>3, <2>0
  <2>3. \E g : Tidy(g, ls2, R2, k)
    BY <1>1
  <2> QED
    BY <1>1, <2>1, <2>2, <2>3 DEF NewChild, ls2, R2
<1>7. \/ d.r = FALSE /\ d.h = q
      \/ d.r = TRUE /\ NewChild(d, r, h, ls, R, k, o, y)
  BY <1>5, <1>6
<1> QED
  BY <1>7 DEF d, q, NewOrNot

LEMMA AddsNew ==
  ASSUME NEW h, NEW ls, NEW R, NEW k \in Int, Tidy(h, ls, R, k), NEW o \in DOMAIN ls, ~h.at[o].ref,
         NEW name \in Chars, name # NoString, NEW type \in Type, NEW value \in Chars,
         type \in {"string", "raw"} => value # NoString
  PROVE  LET d == AddNewToObject(h, o, name, type, value)
         IN  \/ d.r = NULL /\ d.h.at = h.at /\ Tidy(d.h, ls, R, k)
             \/ d.r # NULL /\ NewChild(d, d.r, h, ls, R, k, o, Titled(Made(type, value), name, FALSE))
<1> DEFINE no == FALSE
           n == Create(h, type, value)
           r == n.r
           e == add_item_to_object(n.h, o, name, r, no)
           g == cJSON_Delete(e.h, r)
           d == AddNewToObject(h, o, name, type, value)
           x == Made(type, value)
           y == Titled(x, name, no)
<1>1. NewRoot(n, h, ls, R, k, x)
  <2> HIDE DEF e, g, d, y
  <2> QED
    BY CreatesItem
<1>2. d = IF e.r THEN [h |-> e.h, r |-> r] ELSE [h |-> g, r |-> NULL]
  BY DEF AddNewToObject
<1>0. no \in BOOLEAN
  OBVIOUS
<1> HIDE DEF n, d, g, y, no
<1>3. CASE r = NULL
  <2>1. n.h.at = h.at /\ Tidy(n.h, ls, R, k)
    BY <1>1, <1>3 DEF NewRoot, NULL, Node
  <2>2. e = [h |-> n.h, r |-> FALSE]
    BY <1>3 DEF add_item_to_object
  <2>3. e.h = n.h /\ e.r = FALSE
    BY <2>2
  <2> HIDE DEF e
  <2>4. d.h = g /\ d.r = NULL
    BY <1>2, <2>3
  <2>5. cJSON_Delete(n.h, NULL) = n.h
    BY <2>1, DeletesNull
  <2>6. g = n.h
    BY <1>3, <2>3, <2>5 DEF g
  <2> QED
    BY <2>1, <2>4, <2>6 DEF d
<1>4. CASE r # NULL
  <2>1. \/ e.r = FALSE /\ e.h = n.h
        \/ e.r = TRUE /\ NewChild(e, r, h, ls, R, k, o, y)
    <3> HIDE DEF r, x
    <3>1. NewOrNot(e, n, r, h, ls, R, k, o, y)
      BY <1>0, <1>1, <1>4, AddsNewNamed DEF y, r
    <3> HIDE DEF e
    <3> QED
      BY <3>1 DEF NewOrNot
  <2> HIDE DEF e, r
  <2>2. CASE e.r = FALSE /\ e.h = n.h
    <3>1. d.h = g /\ d.r = NULL
      BY <1>2, <2>2
    <3>2. g.at = h.at /\ Tidy(g, ls, R, k)
      BY <1>1, <1>4, <2>2, RootDeleted DEF g, r
    <3> QED
      BY <3>1, <3>2 DEF d
  <2>3. CASE e.r = TRUE /\ NewChild(e, r, h, ls, R, k, o, y)
    <3>1. d.h = e.h /\ d.r = r
      BY <1>2, <2>3
    <3>2. NewChild(d, d.r, h, ls, R, k, o, y)
      BY <2>3, <3>1 DEF NewChild
    <3> QED
      BY <1>4, <3>1, <3>2 DEF d, y, no
  <2> QED
    BY <2>1, <2>2, <2>3
<1> QED
  BY <1>3, <1>4

LEMMA AddsReference ==
  ASSUME NEW h, NEW ls, NEW R, NEW k \in Int, Tidy(h, ls, R, k), NEW a \in DOMAIN ls, ~h.at[a].ref,
         NEW item \in DOMAIN ls
  PROVE  LET d == cJSON_AddItemReferenceToArray(h, a, item)
             r == create_reference(h, item).r
         IN  \/ d.r = FALSE /\ d.h.at = h.at /\ Tidy(d.h, ls, R, k)
             \/ d.r = TRUE /\ NewChild(d, r, h, ls, R, k, a, Reference(h.at[item]))
<1> DEFINE n == create_reference(h, item)
           r == n.r
           d == cJSON_AddItemReferenceToArray(h, a, item)
           q == n.h
           ls2 == Grown(ls, r, <<>>)
           R2 == R \cup {r}
           x == Reference(h.at[item])
           e == add_item_to_array(q, a, r)
<1>1. NewRoot(n, h, ls, R, k, x)
  <2> HIDE DEF d, e
  <2> QED
    BY References
<1>2. d = e
  BY DEF cJSON_AddItemReferenceToArray
<1> HIDE DEF n, x, d
<1>3. CASE r = NULL
  <2>1. n.h.at = h.at /\ Tidy(n.h, ls, R, k)
    BY <1>1, <1>3 DEF NewRoot, NULL, Node
  <2>2. e = [h |-> q, r |-> FALSE]
    BY <1>3 DEF add_item_to_array
  <2>3. e.h = q /\ e.r = FALSE
    BY <2>2
  <2> QED
    BY <1>2, <2>1, <2>3 DEF d
<1>4. CASE r # NULL
  <2>1. /\ r \in Node \ DOMAIN ls /\ r \in DOMAIN ls2 /\ a \in DOMAIN ls2 /\ ls2[a] = ls[a]
        /\ q.at = Grown(h.at, r, x) /\ ~q.at[a].ref
        /\ Tidy(q, ls2, R2, k) /\ Root(ls2, r) /\ a \notin Below(ls2, r) /\ R2 \ {r} = R
    <3> HIDE DEF r, e
    <3>1. Ready(n, h, ls, R, k, x, r, a)
      BY <1>1, <1>4, NewRootIs DEF r
    <3> QED
      BY <3>1 DEF Ready, q, ls2, R2
  <2> HIDE DEF q, r, ls2, R2, e
  <2>2. /\ e.r = TRUE /\ SameLabels(q.at, e.h.at)
        /\ Tidy(e.h, Listing(ls2, a, Append(ls2[a], r)), R2 \ {r}, k)
    BY <2>1, AddsItem DEF e
  <2>3. NewChild(e, r, h, ls, R, k, a, x)
    <3>1. \E g : Tidy(g, ls2, R2, k)
      BY <2>1
    <3> QED
      BY <2>1, <2>2, <3>1 DEF NewChild, ls2, R2
  <2> QED
    BY <1>2, <2>2, <2>3 DEF d, n, x, r
<1> QED
  BY <1>3, <1>4

\* A reference that has no name and is in no list: the one item that is lost.
LEMMA AddsNamedReference ==
  ASSUME NEW h, NEW ls, NEW R, NEW k \in Int, Tidy(h, ls, R, k), NEW o \in DOMAIN ls, ~h.at[o].ref,
         NEW item \in DOMAIN ls, NEW name \in Chars, name # NoString
  PROVE  LET d == cJSON_AddItemReferenceToObject(h, o, name, item)
             r == create_reference(h, item).r
             x == Reference(h.at[item])
         IN  \/ d.r = FALSE /\ NewRoot([h |-> d.h, r |-> r], h, ls, R, k, x)
             \/ d.r = TRUE /\ NewChild(d, r, h, ls, R, k, o, Titled(x, name, FALSE))
<1> DEFINE n == create_reference(h, item)
           r == n.r
           d == cJSON_AddItemReferenceToObject(h, o, name, item)
           x == Reference(h.at[item])
           no == FALSE
           y == Titled(x, name, no)
           e == add_item_to_object(n.h, o, name, r, no)
<1>1. NewRoot(n, h, ls, R, k, x)
  <2> HIDE DEF d, e, y
  <2> QED
    BY References
<1>2. d = e
  BY Zenon DEF cJSON_AddItemReferenceToObject
<1>0. no \in BOOLEAN
  OBVIOUS
<1> HIDE DEF n, x, d, y, no
<1>3. d.r = FALSE /\ d.h = n.h => d.r = FALSE /\ NewRoot([h |-> d.h, r |-> r], h, ls, R, k, x)
  BY <1>1 DEF NewRoot
<1>4. CASE r = NULL
  <2>1. e = [h |-> n.h, r |-> FALSE]
    BY <1>4 DEF add_item_to_object
  <2>2. e.h = n.h /\ e.r = FALSE
    BY <2>1
  <2> HIDE DEF e
  <2> QED
    BY <1>2, <1>3, <2>2 DEF d, n, x
<1>5. CASE r # NULL
  <2>1. \/ e.r = FALSE /\ e.h = n.h
        \/ e.r = TRUE /\ NewChild(e, r, h, ls, R, k, o, y)
    <3> HIDE DEF r
    <3>1. NewOrNot(e, n, r, h, ls, R, k, o, y)
      BY <1>0, <1>1, <1>5, AddsNewNamed DEF y, r
    <3> HIDE DEF e
    <3> QED
      BY <3>1 DEF NewOrNot
  <2> HIDE DEF e
  <2>2. \/ d.r = FALSE /\ NewRoot([h |-> d.h, r |-> r], h, ls, R, k, x)
        \/ d.r = TRUE /\ NewChild(d, r, h, ls, R, k, o, y)
    BY <1>2, <1>3, <2>1
  <2> QED
    BY <2>2 DEF d, n, x, y, no
<1> QED
  BY <1>4, <1>5

-----------------------------------------------------------------------------
(* What the program can still free: the roots and all below them.          *)

Under(ls, R) == UNION {Below(ls, r) : r \in R}

\* W is closed and has nothing that no root of R leads to.
Owns(ls, R, W) ==
  /\ W \subseteq DOMAIN ls /\ R \subseteq W /\ Closed(ls, W)
  /\ \A w \in W : w \in R \/ \E c \in W : w \in ToSet(ls[c])

LEMMA BelowCause ==
  ASSUME NEW D, NEW ls \in [D -> Seq(D)], NEW n \in D, NEW m \in Below(ls, n), m # n
  PROVE  \E c \in Below(ls, n) : m \in ToSet(ls[c])
<1> DEFINE B == Below(ls, n)
           S == {x \in B : x = n \/ \E c \in B : x \in ToSet(ls[c])}
<1>1. B \subseteq D /\ n \in B /\ Closed(ls, B)
  BY BelowClosed
<1>2. S \in SUBSET D /\ n \in S
  BY <1>1
<1>3. Closed(ls, S)
  <2> SUFFICES ASSUME NEW c \in S, NEW x \in ToSet(ls[c]) PROVE x \in S
    BY DEF Closed
  <2>1. c \in B
    OBVIOUS
  <2>2. x \in B
    BY <1>1, <2>1 DEF Closed
  <2> QED
    BY <2>1, <2>2
<1>4. B \subseteq S
  <2> HIDE DEF S
  <2> QED
    BY <1>2, <1>3, BelowLeast
<1> QED
  BY <1>4

LEMMA UnderOwns ==
  ASSUME NEW at, NEW ls, Sound(at, ls), NEW R \in SUBSET DOMAIN ls
  PROVE  Owns(ls, R, Under(ls, R))
<1> DEFINE U == Under(ls, R)
<1>1. ls \in [DOMAIN ls -> Seq(DOMAIN ls)]
  BY SoundFacts
<1>2. \A r \in R : Below(ls, r) \subseteq DOMAIN ls /\ r \in Below(ls, r) /\ Closed(ls, Below(ls, r))
  BY <1>1, BelowClosed
<1>3. U \subseteq DOMAIN ls /\ R \subseteq U
  BY <1>2 DEF Under
<1>4. Closed(ls, U)
  <2> SUFFICES ASSUME NEW c \in U, NEW x \in ToSet(ls[c]) PROVE x \in U
    BY DEF Closed
  <2>1. PICK r \in R : c \in Below(ls, r)
    BY DEF Under
  <2>2. x \in Below(ls, r)
    BY <1>2, <2>1 DEF Closed
  <2> QED
    BY <2>2 DEF Under
<1>5. ASSUME NEW w \in U, w \notin R PROVE \E c \in U : w \in ToSet(ls[c])
  <2>1. PICK r \in R : w \in Below(ls, r)
    BY DEF Under
  <2>2. w # r
    BY <1>5
  <2>3. \E c \in Below(ls, r) : w \in ToSet(ls[c])
    BY <1>1, <2>1, <2>2, BelowCause
  <2> QED
    BY <2>3 DEF Under
<1> QED
  BY <1>3, <1>4, <1>5 DEF Owns

LEMMA OwnsUnder ==
  ASSUME NEW at, NEW ls, Sound(at, ls), NEW R \in SUBSET DOMAIN ls, NEW W, Owns(ls, R, W)
  PROVE  Under(ls, R) = W
<1> DEFINE D == DOMAIN ls
           U == Under(ls, R)
           size(n) == Cardinality(Below(ls, n))
<1>1. /\ ls \in [D -> Seq(D)] /\ Acyclic(ls) /\ IsFiniteSet(D)
      /\ Cardinality(D) \in Nat
  BY SoundFacts, SoundFinite DEF Sound
<1>2. W \in SUBSET D /\ R \subseteq W /\ Closed(ls, W)
      /\ \A w \in W : w \in R \/ \E c \in W : w \in ToSet(ls[c])
  BY DEF Owns
<1>3. U \subseteq W
  <2>1. \A r \in R : Below(ls, r) \subseteq W
    BY <1>1, <1>2, BelowLeast
  <2> QED
    BY <2>1 DEF Under
<1>4. Closed(ls, U) /\ R \subseteq U
  BY UnderOwns DEF Owns
<1>5. \A n \in D : size(n) \in Nat /\ size(n) <= Cardinality(D)
  <2> SUFFICES ASSUME NEW n \in D PROVE size(n) \in Nat /\ size(n) <= Cardinality(D)
    OBVIOUS
  <2>1. Below(ls, n) \subseteq D
    BY <1>1, BelowClosed
  <2>2. IsFiniteSet(Below(ls, n)) /\ Cardinality(Below(ls, n)) <= Cardinality(D)
    BY <1>1, <2>1, FS_Subset
  <2> QED
    BY <2>2, FS_CardinalityType
<1>6. ASSUME NEW c \in D, NEW m \in ToSet(ls[c]) PROVE m \in D /\ size(m) < size(c)
  <2>1. m \in D
    BY <1>1, InSet
  <2>2. /\ Below(ls, c) = {c} \cup UNION {Below(ls, d) : d \in ToSet(ls[c])}
        /\ c \notin UNION {Below(ls, d) : d \in ToSet(ls[c])}
    BY <1>1, BelowUnfolds
  <2>3. c \in Below(ls, c) /\ Below(ls, m) \in SUBSET (Below(ls, c) \ {c})
    BY <2>2
  <2>4. IsFiniteSet(Below(ls, c))
    <3>1. Below(ls, c) \subseteq D
      BY <1>1, BelowClosed
    <3> QED
      BY <1>1, <3>1, FS_Subset
  <2>5. size(m) <= size(c) - 1
    BY <1>5, <2>3, <2>4, PartIsLess
  <2> QED
    BY <1>5, <2>1, <2>5
<1>7. W \subseteq U
  <2> SUFFICES ASSUME W \ U # {} PROVE FALSE
    OBVIOUS
  <2> DEFINE room(n) == Cardinality(D) - size(n)
             S == {k \in Nat : \E w \in W \ U : room(w) = k}
  <2>1. \A w \in W \ U : room(w) \in Nat
    BY <1>1, <1>2, <1>5
  <2>2. S \in SUBSET Nat /\ S # {}
    BY <2>1
  <2>3. PICK k \in S : \A j \in S : k <= j
    <3> HIDE DEF S
    <3> QED
      BY <2>2, LeastNatural
  <2>4. PICK w \in W \ U : room(w) = k
    OBVIOUS
  <2>5. PICK c \in W : w \in ToSet(ls[c])
    BY <1>2, <1>4
  <2>6. c \notin U
    BY <1>4, <2>5 DEF Closed
  <2>7. c \in D /\ w \in D /\ size(w) < size(c)
    BY <1>2, <1>6, <2>5
  <2>8. room(c) \in S
    BY <2>1, <2>5, <2>6
  <2>9. k <= room(c) /\ room(w) = k
    BY <2>3, <2>4, <2>8
  <2> HIDE DEF size, S
  <2>10. size(w) \in Nat /\ size(c) \in Nat
    BY <1>5, <2>7
  <2> QED
    BY <1>1, <2>7, <2>9, <2>10
<1> QED
  BY <1>3, <1>7

\* Items move between the list of a and the roots: all are still led to.
LEMMA UnderListing ==
  ASSUME NEW at, NEW ls, Sound(at, ls), NEW R \in SUBSET DOMAIN ls, NEW a \in Under(ls, R),
         NEW t, NEW at2, Sound(at2, Listing(ls, a, t)), NEW R2 \in SUBSET Under(ls, R),
         ToSet(t) \subseteq Under(ls, R), R \cup ToSet(ls[a]) \subseteq R2 \cup ToSet(t)
  PROVE  Under(Listing(ls, a, t), R2) = Under(ls, R)
<1> DEFINE U == Under(ls, R)
           ls2 == Listing(ls, a, t)
<1>1. /\ U \subseteq DOMAIN ls /\ R \subseteq U /\ Closed(ls, U)
      /\ \A w \in U : w \in R \/ \E c \in U : w \in ToSet(ls[c])
  BY UnderOwns DEF Owns
<1>2. /\ DOMAIN ls2 = DOMAIN ls /\ ls2[a] = t /\ a \in DOMAIN ls
      /\ \A c \in DOMAIN ls : c # a => ls2[c] = ls[c]
  BY <1>1, ListingIs
<1> HIDE DEF ls2
<1>3. Closed(ls2, U)
  BY <1>1, <1>2 DEF Closed
<1>4. ASSUME NEW w \in U PROVE w \in R2 \/ \E c \in U : w \in ToSet(ls2[c])
  <2>1. CASE w \in R2 \cup ToSet(t)
    BY <1>2, <2>1
  <2>2. CASE w \notin R2 \cup ToSet(t)
    <3>1. PICK c \in U : w \in ToSet(ls[c])
      BY <1>1, <2>2
    <3>2. c # a
      BY <2>2, <3>1
    <3> QED
      BY <1>1, <1>2, <3>1, <3>2
  <2> QED
    BY <2>1, <2>2
<1>5. Owns(ls2, R2, U)
  BY <1>1, <1>2, <1>3, <1>4 DEF Owns
<1> QED
  <2>1. R2 \in SUBSET DOMAIN ls2
    BY <1>1, <1>2
  <2>2. Sound(at2, ls2)
    BY DEF ls2
  <2> HIDE DEF U
  <2>3. Under(ls2, R2) = U
    BY <1>5, <2>1, <2>2, OwnsUnder
  <2> QED
    BY <2>3 DEF U, ls2

LEMMA UnderGrown ==
  ASSUME NEW at, NEW ls, Sound(at, ls), NEW R \in SUBSET DOMAIN ls, NEW r, r \notin DOMAIN ls,
         NEW ls2, ls2 = Grown(ls, r, <<>>), NEW at2, Sound(at2, ls2)
  PROVE  Under(ls2, R \cup {r}) = Under(ls, R) \cup {r}
<1> DEFINE U == Under(ls, R)
           W == U \cup {r}
<1>1. /\ U \subseteq DOMAIN ls /\ R \subseteq U /\ Closed(ls, U)
      /\ \A w \in U : w \in R \/ \E c \in U : w \in ToSet(ls[c])
  BY UnderOwns DEF Owns
<1>2. /\ DOMAIN ls2 = DOMAIN ls \cup {r} /\ ls2[r] = <<>>
      /\ \A c \in DOMAIN ls : ls2[c] = ls[c]
  BY DEF Grown
<1>3. ToSet(<<>>) = {}
  BY DEF ToSet
<1>4. Closed(ls2, W)
  BY <1>1, <1>2, <1>3 DEF Closed
<1>5. \A w \in W : w \in R \cup {r} \/ \E c \in W : w \in ToSet(ls2[c])
  BY <1>1, <1>2
<1>6. Owns(ls2, R \cup {r}, W)
  BY <1>1, <1>2, <1>4, <1>5 DEF Owns
<1>7. R \cup {r} \in SUBSET DOMAIN ls2
  BY <1>2
<1> HIDE DEF U, W
<1>8. Under(ls2, R \cup {r}) = W
  BY <1>6, <1>7, OwnsUnder
<1> QED
  BY <1>8 DEF U, W

LEMMA UnderWithout ==
  ASSUME NEW at, NEW ls, Sound(at, ls), NEW R \in SUBSET DOMAIN ls, \A r \in R : Root(ls, r),
         NEW x \in R, NEW ls2, ls2 = Without(ls, x), NEW at2, Sound(at2, ls2)
  PROVE  Under(ls2, R \ {x}) = Under(ls, R) \ Below(ls, x)
<1> DEFINE U == Under(ls, R)
           B == Below(ls, x)
           W == U \ B
           R2 == R \ {x}
<1>1. /\ U \subseteq DOMAIN ls /\ R \subseteq U /\ Closed(ls, U)
      /\ \A w \in U : w \in R \/ \E c \in U : w \in ToSet(ls[c])
  BY UnderOwns DEF Owns
<1>2. ls \in [DOMAIN ls -> Seq(DOMAIN ls)] /\ Apart(ls)
  BY SoundFacts DEF Sound
<1>3. B \subseteq DOMAIN ls /\ x \in B /\ Closed(ls, B)
  BY <1>2, BelowClosed
<1>4. DOMAIN ls2 = DOMAIN ls \ B /\ \A c \in DOMAIN ls \ B : ls2[c] = ls[c]
  BY DEF Without
<1>5. ASSUME NEW m \in B, m # x PROVE \E c \in B : m \in ToSet(ls[c])
  BY <1>2, <1>5, BelowCause
<1>6. R2 \subseteq W
  <2> SUFFICES ASSUME NEW r \in R2, r \in B PROVE FALSE
    BY <1>1
  <2>1. PICK c \in B : r \in ToSet(ls[c])
    BY <1>5
  <2> QED
    BY <1>3, <2>1 DEF Root
<1>7. \A c, d \in DOMAIN ls : c # d => ToSet(ls[c]) \cap ToSet(ls[d]) = {}
  BY <1>2, ApartSets
<1>8. Closed(ls2, W)
  <2> SUFFICES ASSUME NEW c \in W, NEW m \in ToSet(ls2[c]) PROVE m \in W
    BY DEF Closed
  <2>1. c \in DOMAIN ls \ B /\ m \in ToSet(ls[c])
    BY <1>1, <1>4
  <2>2. m \in U
    BY <1>1, <2>1 DEF Closed
  <2>3. ASSUME m \in B PROVE FALSE
    <3>1. m # x
      BY <2>1 DEF Root
    <3>2. PICK d \in B : m \in ToSet(ls[d])
      BY <1>5, <2>3, <3>1
    <3> QED
      BY <1>3, <1>7, <2>1, <3>2
  <2> QED
    BY <2>2, <2>3
<1>9. ASSUME NEW w \in W, w \notin R2 PROVE \E c \in W : w \in ToSet(ls2[c])
  <2>1. w \notin R
    BY <1>3, <1>9
  <2>2. PICK c \in U : w \in ToSet(ls[c])
    BY <1>1, <2>1
  <2>3. c \notin B
    BY <1>3, <2>2 DEF Closed
  <2> QED
    BY <1>1, <1>4, <2>2, <2>3
<1>10. Owns(ls2, R2, W)
  BY <1>1, <1>4, <1>6, <1>8, <1>9 DEF Owns
<1>11. R2 \in SUBSET DOMAIN ls2
  BY <1>1, <1>4, <1>6
<1> HIDE DEF U, W, R2, B
<1>12. Under(ls2, R2) = W
  BY <1>10, <1>11, OwnsUnder
<1> QED
  BY <1>12 DEF U, W, R2, B

=============================================================================
