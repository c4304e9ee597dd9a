------------------------------ MODULE CJsonProofs ------------------------------
(***************************************************************************)
(* Proofs about CJsonLists, for memories and programs of any size: the     *)
(* pointers of cJSON.c always are the lists the calls promise.  And about  *)
(* CJsonBuffer: nothing is printed outside the buffer.                     *)
(***************************************************************************)
EXTENDS CJsonLists, CJsonBuffer, FiniteSetTheorems, WellFoundedInduction, TLAPS

-----------------------------------------------------------------------------
(* Numbers and sequences.                                                  *)

LEMMA LeastNatural ==
  ASSUME NEW S \in SUBSET Nat, S # {}
  PROVE  \E n \in S : \A m \in S : n <= m
<1> DEFINE R == OpToRel(<, Nat)
<1>1. IsWellFoundedOn(R, Nat)
  BY NatLessThanWellFounded
<1>2. \A x, y \in Nat : <<y, x>> \in R <=> y < x
  BY DEF OpToRel
<1> HIDE DEF R
<1>3. PICK n \in S : \A m \in S : ~(<<m, n>> \in R)
  BY <1>1, WFMin
<1> SUFFICES ASSUME NEW m \in S PROVE n <= m
  BY <1>3
<1>4. n \in Nat /\ m \in Nat /\ ~(<<m, n>> \in R)
  BY <1>3
<1>5. ~(m < n)
  BY <1>2, <1>4
<1> QED
  BY <1>4, <1>5

LEMMA MinIsLeast ==
  ASSUME NEW S \in SUBSET Nat, S # {}
  PROVE  Min(S) \in S
BY LeastNatural DEF Min

\* No element is in s twice.
Once(s) == \A i, j \in DOMAIN s : s[i] = s[j] => i = j

LEMMA OnceIsShort ==
  ASSUME NEW D, IsFiniteSet(D), NEW s \in Seq(D), Once(s)
  PROVE  Len(s) <= Cardinality(D)
<1>1. Len(s) \in Nat /\ DOMAIN s = 1 .. Len(s) /\ s \in [1 .. Len(s) -> D]
  OBVIOUS
<1>2. s \in Injection(1 .. Len(s), D)
  BY <1>1 DEF Once, Injection, IsInjective
<1>3. Cardinality(1 .. Len(s)) <= Cardinality(D)
  BY <1>2, FS_Injection
<1>4. Cardinality(1 .. Len(s)) = Len(s)
  BY <1>1, FS_Interval
<1> QED
  BY <1>3, <1>4

LEMMA JoinItems ==
  ASSUME NEW D, NEW a \in Seq(D), NEW b \in Seq(D)
  PROVE  /\ a \o b \in Seq(D) /\ Len(a \o b) = Len(a) + Len(b)
         /\ \A i \in 1 .. Len(a) + Len(b) : (a \o b)[i] = IF i <= Len(a) THEN a[i] ELSE b[i - Len(a)]
OBVIOUS

LEMMA AppendItems ==
  ASSUME NEW D, NEW s \in Seq(D), NEW x \in D
  PROVE  /\ Append(s, x) \in Seq(D) /\ Len(Append(s, x)) = Len(s) + 1
         /\ \A i \in 1 .. Len(s) + 1 : Append(s, x)[i] = IF i = Len(s) + 1 THEN x ELSE s[i]
OBVIOUS

LEMMA PrefixItems ==
  ASSUME NEW D, NEW s \in Seq(D), NEW k \in 0 .. Len(s)
  PROVE  /\ SubSeq(s, 1, k) \in Seq(D) /\ Len(SubSeq(s, 1, k)) = k
         /\ \A i \in 1 .. k : SubSeq(s, 1, k)[i] = s[i]
OBVIOUS

(* t is s with x put in at its place k. *)
Spliced(t, s, k, x) ==
  /\ Len(t) = Len(s) + 1
  /\ \A i \in 1 .. Len(s) + 1 : t[i] = IF i < k THEN s[i] ELSE IF i = k THEN x ELSE s[i - 1]

LEMMA InsertItems ==
  ASSUME NEW D, NEW s \in Seq(D), NEW x \in D, NEW k \in 1 .. Len(s) + 1
  PROVE  InsertAt(s, k, x) \in Seq(D) /\ Spliced(InsertAt(s, k, x), s, k, x)
<1> DEFINE a == SubSeq(s, 1, k - 1)
           b == SubSeq(s, k, Len(s))
<1>1. a \in Seq(D) /\ Len(a) = k - 1 /\ \A i \in 1 .. k - 1 : a[i] = s[i]
  OBVIOUS
<1>2. b \in Seq(D) /\ Len(b) = Len(s) - k + 1 /\ \A i \in 1 .. Len(s) - k + 1 : b[i] = s[i + k - 1]
  OBVIOUS
<1>3. InsertAt(s, k, x) = a \o <<x>> \o b
  BY DEF InsertAt
<1>4. <<x>> \in Seq(D) /\ Len(<<x>>) = 1 /\ <<x>>[1] = x
  OBVIOUS
<1> HIDE DEF a, b
<1>5. a \o <<x>> \in Seq(D) /\ Len(a \o <<x>>) = k
      /\ \A i \in 1 .. k : (a \o <<x>>)[i] = IF i < k THEN s[i] ELSE x
  BY <1>1, <1>4
<1> DEFINE c == a \o <<x>>
<1> HIDE DEF c
<1>6. c \in Seq(D) /\ Len(c) = k /\ \A i \in 1 .. k : c[i] = IF i < k THEN s[i] ELSE x
  BY <1>5 DEF c
<1>7. c \o b \in Seq(D) /\ Len(c \o b) = Len(s) + 1
      /\ \A i \in 1 .. Len(s) + 1 : (c \o b)[i] = IF i <= k THEN c[i] ELSE b[i - k]
  BY <1>2, <1>6, JoinItems
<1>8. \A i \in 1 .. Len(s) + 1 : i > k => b[i - k] = s[i - 1]
  BY <1>2
<1>9. InsertAt(s, k, x) = c \o b
  BY <1>3 DEF c
<1>10. InsertAt(s, k, x) \in Seq(D) /\ Len(InsertAt(s, k, x)) = Len(s) + 1
       /\ \A i \in 1 .. Len(s) + 1 :
            InsertAt(s, k, x)[i] = IF i < k THEN s[i] ELSE IF i = k THEN x ELSE s[i - 1]
  BY <1>6, <1>7, <1>8, <1>9
<1> QED
  BY <1>10 DEF Spliced

LEMMA InsertBefore ==
  ASSUME NEW D, NEW s \in Seq(D), NEW x \in D, NEW k \in 1 .. Len(s)
  PROVE  /\ InsertAt(s, k, x) \in Seq(D)
         /\ Len(InsertAt(s, k, x)) = Len(s) + 1
         /\ Len(s) + 1 \in Nat
         /\ \A i \in 1 .. Len(s) + 1 :
              InsertAt(s, k, x)[i] = IF i < k THEN s[i] ELSE IF i = k THEN x ELSE s[i - 1]
<1>1. k \in 1 .. Len(s) + 1 /\ Len(s) + 1 \in Nat
  OBVIOUS
<1>2. InsertAt(s, k, x) \in Seq(D) /\ Spliced(InsertAt(s, k, x), s, k, x)
  BY <1>1, InsertItems
<1> QED
  BY <1>1, <1>2 DEF Spliced

LEMMA InsertLast ==
  ASSUME NEW D, NEW s \in Seq(D), NEW x \in D
  PROVE  InsertAt(s, Len(s) + 1, x) = Append(s, x)
<1> DEFINE t == InsertAt(s, Len(s) + 1, x)
           u == Append(s, x)
<1>1. t \in Seq(D) /\ Len(t) = Len(s) + 1
      /\ \A i \in 1 .. Len(s) + 1 : t[i] = IF i < Len(s) + 1 THEN s[i]
                                          ELSE IF i = Len(s) + 1 THEN x ELSE s[i - 1]
  <2>1. Len(s) + 1 \in 1 .. Len(s) + 1
    OBVIOUS
  <2>2. t \in Seq(D) /\ Spliced(t, s, Len(s) + 1, x)
    BY <2>1, InsertItems
  <2> QED
    BY <2>2 DEF Spliced
<1>2. u \in Seq(D) /\ Len(u) = Len(s) + 1
      /\ \A i \in 1 .. Len(s) + 1 : u[i] = IF i = Len(s) + 1 THEN x ELSE s[i]
  BY AppendItems
<1> HIDE DEF t, u
<1>3. \A i \in 1 .. Len(s) + 1 : t[i] = u[i]
  BY <1>1, <1>2
<1>4. t = u
  BY <1>1, <1>2, <1>3
<1> QED
  BY <1>4 DEF t, u

LEMMA RemoveItems ==
  ASSUME NEW D, NEW s \in Seq(D), NEW k \in 1 .. Len(s)
  PROVE  /\ RemoveAt(s, k) \in Seq(D) /\ Len(RemoveAt(s, k)) = Len(s) - 1
         /\ \A i \in 1 .. Len(s) - 1 : RemoveAt(s, k)[i] = IF i < k THEN s[i] ELSE s[i + 1]
<1> DEFINE a == SubSeq(s, 1, k - 1)
           b == SubSeq(s, k + 1, Len(s))
<1>1. a \in Seq(D) /\ Len(a) = k - 1 /\ \A i \in 1 .. k - 1 : a[i] = s[i]
  OBVIOUS
<1>2. b \in Seq(D) /\ Len(b) = Len(s) - k /\ \A i \in 1 .. Len(s) - k : b[i] = s[i + k]
  OBVIOUS
<1>3. RemoveAt(s, k) = a \o b
  BY DEF RemoveAt
<1> HIDE DEF a, b
<1>4. a \o b \in Seq(D) /\ Len(a \o b) = Len(s) - 1
      /\ \A i \in 1 .. Len(s) - 1 : (a \o b)[i] = IF i < k THEN a[i] ELSE b[i - (k - 1)]
  <2>1. /\ a \o b \in Seq(D) /\ Len(a \o b) = Len(a) + Len(b)
        /\ \A i \in 1 .. Len(a) + Len(b) : (a \o b)[i] = IF i <= Len(a) THEN a[i] ELSE b[i - Len(a)]
    BY <1>1, <1>2, JoinItems
  <2>2. Len(a) = k - 1 /\ Len(a) + Len(b) = Len(s) - 1
    BY <1>1, <1>2
  <2> QED
    BY <2>1, <2>2
<1>5. \A i \in 1 .. Len(s) - 1 : i >= k => b[i - (k - 1)] = s[i + 1]
  BY <1>2
<1> QED
  BY <1>1, <1>3, <1>4, <1>5

LEMMA ReplaceItems ==
  ASSUME NEW D, NEW s \in Seq(D), NEW x \in D, NEW k \in 1 .. Len(s)
  PROVE  /\ ReplaceAt(s, k, x) \in Seq(D) /\ Len(ReplaceAt(s, k, x)) = Len(s)
         /\ \A i \in 1 .. Len(s) : ReplaceAt(s, k, x)[i] = IF i = k THEN x ELSE s[i]
BY DEF ReplaceAt

LEMMA InSet ==
  ASSUME NEW D, NEW s \in Seq(D)
  PROVE  /\ ToSet(s) \subseteq D
         /\ \A x : x \in ToSet(s) <=> \E i \in 1 .. Len(s) : s[i] = x
BY DEF ToSet

\* In t are x, where o is 0, and elements of s, none of them twice.
LEMMA PicksOnce ==
  ASSUME NEW D, NEW s \in Seq(D), Once(s), NEW x, x \notin ToSet(s), NEW t \in Seq(D),
         NEW o \in [1 .. Len(t) -> 0 .. Len(s)], \A i, j \in 1 .. Len(t) : o[i] = o[j] => i = j,
         \A i \in 1 .. Len(t) : t[i] = IF o[i] = 0 THEN x ELSE s[o[i]]
  PROVE  /\ Once(t) /\ ToSet(t) \subseteq ToSet(s) \cup {x}
         /\ (\A i \in 1 .. Len(t) : o[i] # 0) => ToSet(t) \subseteq ToSet(s)
<1>1. /\ DOMAIN t = 1 .. Len(t) /\ DOMAIN s = 1 .. Len(s)
      /\ \A m : m \in ToSet(s) <=> \E i \in 1 .. Len(s) : s[i] = m
      /\ \A m : m \in ToSet(t) <=> \E i \in 1 .. Len(t) : t[i] = m
  BY InSet
<1>2. \A i \in 1 .. Len(t) : o[i] # 0 => o[i] \in 1 .. Len(s)
  OBVIOUS
<1>3. \A i \in 1 .. Len(t) : o[i] # 0 => t[i] = s[o[i]] /\ t[i] \in ToSet(s)
  BY <1>1, <1>2
<1>4. \A i \in 1 .. Len(t) : o[i] = 0 => t[i] = x
  OBVIOUS
<1>5. \A i, j \in 1 .. Len(s) : s[i] = s[j] => i = j
  BY <1>1 DEF Once
<1>6. ASSUME NEW i \in 1 .. Len(t), NEW j \in 1 .. Len(t), t[i] = t[j] PROVE i = j
  <2>1. CASE o[i] = 0
    BY <1>3, <1>4, <1>6, <2>1
  <2>2. CASE o[i] # 0
    <3>1. o[j] # 0
      BY <1>3, <1>4, <1>6, <2>2
    <3>2. o[i] = o[j]
      BY <1>2, <1>3, <1>5, <1>6, <2>2, <3>1
    <3> QED
      BY <3>2
  <2> QED
    BY <2>1, <2>2
<1>7. Once(t)
  BY <1>1, <1>6 DEF Once
<1> QED
  BY <1>1, <1>3, <1>4, <1>7

LEMMA AppendOnce ==
  ASSUME NEW D, NEW s \in Seq(D), Once(s), NEW x \in D, x \notin ToSet(s)
  PROVE  LET t == Append(s, x)
         IN  t \in Seq(D) /\ Once(t) /\ ToSet(t) \subseteq ToSet(s) \cup {x}
<1> DEFINE n == Len(s)
           t == Append(s, x)
           o == [i \in 1 .. n + 1 |-> IF i = n + 1 THEN 0 ELSE i]
<1>1. n \in Nat /\ t \in Seq(D) /\ Len(t) = n + 1
      /\ \A i \in 1 .. n + 1 : t[i] = IF i = n + 1 THEN x ELSE s[i]
  BY AppendItems
<1> HIDE DEF t, n
<1>2. o \in [1 .. n + 1 -> 0 .. n] /\ \A i, j \in 1 .. n + 1 : o[i] = o[j] => i = j
  BY <1>1
<1>3. \A i \in 1 .. n + 1 : t[i] = IF o[i] = 0 THEN x ELSE s[o[i]]
  BY <1>1
<1> HIDE DEF o
<1>4. Once(t) /\ ToSet(t) \subseteq ToSet(s) \cup {x}
  BY <1>1, <1>2, <1>3, PicksOnce DEF n
<1> QED
  BY <1>1, <1>4 DEF t

LEMMA InsertOnce ==
  ASSUME NEW D, NEW s \in Seq(D), Once(s), NEW x \in D, x \notin ToSet(s), NEW k \in 1 .. Len(s) + 1
  PROVE  LET t == InsertAt(s, k, x)
         IN  t \in Seq(D) /\ Once(t) /\ ToSet(t) \subseteq ToSet(s) \cup {x}
<1> DEFINE n == Len(s)
           t == InsertAt(s, k, x)
           o == [i \in 1 .. n + 1 |-> IF i < k THEN i ELSE IF i = k THEN 0 ELSE i - 1]
<1>1. n \in Nat /\ k \in 1 .. n + 1 /\ t \in Seq(D) /\ Len(t) = n + 1
      /\ \A i \in 1 .. n + 1 : t[i] = IF i < k THEN s[i] ELSE IF i = k THEN x ELSE s[i - 1]
  <2>1. t \in Seq(D) /\ Spliced(t, s, k, x)
    BY InsertItems
  <2> QED
    BY <2>1 DEF Spliced
<1> HIDE DEF t, n
<1>2. o \in [1 .. n + 1 -> 0 .. n] /\ \A i, j \in 1 .. n + 1 : o[i] = o[j] => i = j
  BY <1>1
<1>3. \A i \in 1 .. n + 1 : t[i] = IF o[i] = 0 THEN x ELSE s[o[i]]
  BY <1>1
<1> HIDE DEF o
<1>4. Once(t) /\ ToSet(t) \subseteq ToSet(s) \cup {x}
  BY <1>1, <1>2, <1>3, PicksOnce DEF n
<1> QED
  BY <1>1, <1>4 DEF t

LEMMA RemoveOnce ==
  ASSUME NEW D, NEW s \in Seq(D), Once(s), NEW k \in 1 .. Len(s), NEW x, x \notin ToSet(s)
  PROVE  LET t == RemoveAt(s, k)
         IN  t \in Seq(D) /\ Once(t) /\ ToSet(t) \subseteq ToSet(s)
<1> DEFINE n == Len(s)
           t == RemoveAt(s, k)
           o == [i \in 1 .. n - 1 |-> IF i < k THEN i ELSE i + 1]
<1>1. n \in Nat /\ k \in 1 .. n /\ t \in Seq(D) /\ Len(t) = n - 1
      /\ \A i \in 1 .. n - 1 : t[i] = IF i < k THEN s[i] ELSE s[i + 1]
  BY RemoveItems
<1> HIDE DEF t, n
<1>2. o \in [1 .. n - 1 -> 0 .. n] /\ \A i, j \in 1 .. n - 1 : o[i] = o[j] => i = j
  BY <1>1
<1>3. \A i \in 1 .. n - 1 : o[i] # 0 /\ t[i] = IF o[i] = 0 THEN x ELSE s[o[i]]
  BY <1>1
<1> HIDE DEF o
<1>4. /\ o \in [1 .. Len(t) -> 0 .. Len(s)] /\ \A i, j \in 1 .. Len(t) : o[i] = o[j] => i = j
      /\ \A i \in 1 .. Len(t) : t[i] = IF o[i] = 0 THEN x ELSE s[o[i]]
      /\ t \in Seq(D)
  BY <1>1, <1>2, <1>3 DEF n
<1>5. Once(t) /\ ((\A i \in 1 .. Len(t) : o[i] # 0) => ToSet(t) \subseteq ToSet(s))
  BY <1>4, PicksOnce
<1>6. \A i \in 1 .. Len(t) : o[i] # 0
  BY <1>1, <1>3 DEF n
<1> QED
  BY <1>1, <1>5, <1>6 DEF t

LEMMA ReplaceOnce ==
  ASSUME NEW D, NEW s \in Seq(D), Once(s), NEW x \in D, x \notin ToSet(s), NEW k \in 1 .. Len(s)
  PROVE  LET t == ReplaceAt(s, k, x)
         IN  t \in Seq(D) /\ Once(t) /\ ToSet(t) \subseteq ToSet(s) \cup {x}
<1> DEFINE n == Len(s)
           t == ReplaceAt(s, k, x)
           o == [i \in 1 .. n |-> IF i = k THEN 0 ELSE i]
<1>1. n \in Nat /\ k \in 1 .. n /\ t \in Seq(D) /\ Len(t) = n
      /\ \A i \in 1 .. n : t[i] = IF i = k THEN x ELSE s[i]
  BY ReplaceItems
<1> HIDE DEF t, n
<1>2. o \in [1 .. n -> 0 .. n] /\ \A i, j \in 1 .. n : o[i] = o[j] => i = j
  BY <1>1
<1>3. \A i \in 1 .. n : t[i] = IF o[i] = 0 THEN x ELSE s[o[i]]
  BY <1>1
<1> HIDE DEF o
<1>4. /\ o \in [1 .. Len(t) -> 0 .. Len(s)] /\ \A i, j \in 1 .. Len(t) : o[i] = o[j] => i = j
      /\ \A i \in 1 .. Len(t) : t[i] = IF o[i] = 0 THEN x ELSE s[o[i]]
  BY <1>1, <1>2, <1>3 DEF n
<1>5. Once(t) /\ ToSet(t) \subseteq ToSet(s) \cup {x}
  BY <1>1, <1>4, PicksOnce, SMTT(30)
<1> QED
  BY <1>1, <1>5 DEF t

-----------------------------------------------------------------------------
(* Following a list.                                                       *)

USE CJsonAssumption DEF CJsonAssumption, NULL, Node

LEMMA NextPrefix ==
  ASSUME NEW h, NEW n, NEW s \in Seq(DOMAIN h.at), 0 \notin DOMAIN h.at, Linked(h.at, n, s),
         NEW j \in 0 .. Len(s)
  PROVE  Following(h, n, SubSeq(s, 1, j)) = IF j = Len(s) THEN NULL ELSE s[j + 1]
<1> DEFINE t == SubSeq(s, 1, j)
<1>1. t \in Seq(DOMAIN h.at) /\ Len(t) = j /\ \A i \in 1 .. j : t[i] = s[i]
  BY PrefixItems
<1>2. (t = <<>>) = (j = 0) /\ (s = <<>>) = (Len(s) = 0)
  BY <1>1
<1> HIDE DEF t
<1>3. CASE j = 0
  BY <1>2, <1>3 DEF Following, Linked, t
<1>4. CASE j # 0
  <2>1. j \in DOMAIN s /\ t[Len(t)] = s[j]
    BY <1>1, <1>4
  <2>2. h.at[s[j]].next = IF j = Len(s) THEN NULL ELSE s[j + 1]
    BY <2>1 DEF Linked
  <2>3. Following(h, n, t) = h.at[s[j]].next
    BY <1>2, <1>4, <2>1 DEF Following
  <2> QED
    BY <2>2, <2>3 DEF t
<1> QED
  BY <1>3, <1>4

\* The walk along next from the child of n, as every loop over the items does it
\* (cJSON_GetArraySize, cJSON.c:1828-1849), comes past the items of the list that
\* is linked there, once each, and ends.
THEOREM ItemsAre ==
  ASSUME NEW h, NEW n, NEW s \in Seq(DOMAIN h.at), Once(s), Linked(h.at, n, s),
         0 \notin DOMAIN h.at, IsFiniteSet(DOMAIN h.at)
  PROVE  Items(h, n) = s
<1> DEFINE N == Cardinality(Live(h))
           after(t) == LET item == Following(h, n, t) IN IF item = NULL THEN t ELSE Append(t, item)
           P(f) == f = [k \in 0 .. N |-> IF k = 0 THEN <<>> ELSE after(f[k - 1])]
           upto(k) == SubSeq(s, 1, IF k <= Len(s) THEN k ELSE Len(s))
           w == [k \in 0 .. N |-> upto(k)]
<1>1. N \in Nat /\ Len(s) \in 0 .. N
  BY OnceIsShort, FS_CardinalityType DEF Live
<1>2. \A k \in Nat \ {0} : after(upto(k - 1)) = upto(k)
  <2> SUFFICES ASSUME NEW k \in Nat \ {0} PROVE after(upto(k - 1)) = upto(k)
    OBVIOUS
  <2>1. CASE k <= Len(s)
    <3>1. Following(h, n, upto(k - 1)) = s[k] /\ s[k] \in DOMAIN h.at
      BY <2>1, NextPrefix
    <3>2. after(upto(k - 1)) = Append(upto(k - 1), s[k])
      BY <3>1
    <3>3. Append(SubSeq(s, 1, k - 1), s[k]) = SubSeq(s, 1, k)
      BY <2>1
    <3> QED
      BY <2>1, <3>2, <3>3
  <2>2. CASE k > Len(s)
    <3>1. upto(k - 1) = SubSeq(s, 1, Len(s)) /\ upto(k) = SubSeq(s, 1, Len(s))
      BY <2>2
    <3>2. Following(h, n, SubSeq(s, 1, Len(s))) = NULL
      BY NextPrefix
    <3> QED
      BY <3>1, <3>2
  <2> QED
    BY <2>1, <2>2
<1>3. upto(0) = <<>> /\ upto(N) = s
  BY <1>1
<1> HIDE DEF N, after, upto
<1>4. P(w)
  BY <1>1, <1>2, <1>3
<1>5. \E f : P(f)
  <2> HIDE DEF P, w
  <2> QED
    BY <1>4
<1>6. P(CHOOSE f : P(f))
  <2> HIDE DEF P, w
  <2> QED
    BY <1>5, Zenon
<1> DEFINE chain == CHOOSE f : P(f)
<1>7. Items(h, n) = chain[N]
  BY Zenon DEF Items, N, after
<1> HIDE DEF chain
<1>8. P(chain)
  <2> HIDE DEF P, w
  <2> QED
    BY <1>6 DEF chain
<1>9. chain[0] = <<>> /\ \A k \in 0 .. N : k # 0 => chain[k] = after(chain[k - 1])
  BY <1>1, <1>8
<1> HIDE DEF P, w
<1>10. \A k \in 0 .. N : chain[k] = upto(k)
  <2> DEFINE S == {k \in 0 .. N : chain[k] # upto(k)}
  <2> SUFFICES ASSUME S # {} PROVE FALSE
    OBVIOUS
  <2>1. S \in SUBSET Nat
    OBVIOUS
  <2>2. PICK k \in S : \A m \in S : k <= m
    <3> HIDE DEF S
    <3> QED
      BY <2>1, LeastNatural
  <2>3. k \in 0 .. N /\ chain[k] # upto(k)
    OBVIOUS
  <2>4. k # 0
    BY <1>3, <1>9, <2>3
  <2>5. k - 1 \in 0 .. N /\ k - 1 \notin S
    BY <1>1, <2>2, <2>3, <2>4
  <2>6. chain[k - 1] = upto(k - 1)
    BY <2>5
  <2> QED
    BY <1>2, <1>9, <2>3, <2>4, <2>6
<1> QED
  BY <1>1, <1>3, <1>7, <1>10

\* The loop of get_array_item comes to the item at the index, and to NULL past
\* the end, in a list of any length (cJSON.c:1851-1869).
THEOREM GetsItem ==
  ASSUME NEW h, NEW n, NEW s \in Seq(DOMAIN h.at), Linked(h.at, n, s), 0 \notin DOMAIN h.at,
         NEW index \in Nat
  PROVE  get_array_item(h, n, index) = IF index < Len(s) THEN s[index + 1] ELSE NULL
<1> DEFINE P(f) == f = [k \in 0 .. index |->
                          IF k = 0 THEN h.at[n].child
                          ELSE IF f[k - 1] = NULL THEN NULL ELSE h.at[f[k - 1]].next]
           item(k) == IF k < Len(s) THEN s[k + 1] ELSE NULL
           w == [k \in 0 .. index |-> item(k)]
<1>1. item(0) = h.at[n].child
  BY DEF Linked
<1>2. \A k \in Nat \ {0} : item(k) = IF item(k - 1) = NULL THEN NULL ELSE h.at[item(k - 1)].next
  <2> SUFFICES ASSUME NEW k \in Nat \ {0}
      PROVE item(k) = IF item(k - 1) = NULL THEN NULL ELSE h.at[item(k - 1)].next
    OBVIOUS
  <2>1. CASE k <= Len(s)
    <3>1. k \in DOMAIN s /\ s[k] \in DOMAIN h.at /\ s[k] # NULL
      BY <2>1
    <3>2. h.at[s[k]].next = IF k = Len(s) THEN NULL ELSE s[k + 1]
      BY <3>1 DEF Linked
    <3>3. item(k - 1) = s[k]
      BY <2>1
    <3> QED
      BY <2>1, <3>1, <3>2, <3>3
  <2>2. CASE k > Len(s)
    BY <2>2
  <2> QED
    BY <2>1, <2>2
<1> HIDE DEF item
<1>3. P(w)
  BY <1>1, <1>2
<1>4. \E f : P(f)
  <2> HIDE DEF P, w
  <2> QED
    BY <1>3
<1>5. P(CHOOSE f : P(f))
  <2> HIDE DEF P, w
  <2> QED
    BY <1>4, Zenon
<1> DEFINE current == CHOOSE f : P(f)
<1>6. get_array_item(h, n, index) = current[index]
  BY Zenon DEF get_array_item
<1> HIDE DEF current
<1>7. P(current)
  <2> HIDE DEF P, w
  <2> QED
    BY <1>5 DEF current
<1>8. /\ current[0] = h.at[n].child
      /\ \A k \in 0 .. index : k # 0 =>
           current[k] = IF current[k - 1] = NULL THEN NULL ELSE h.at[current[k - 1]].next
  BY <1>7
<1> HIDE DEF P, w
<1>9. \A k \in 0 .. index : current[k] = item(k)
  <2> DEFINE S == {k \in 0 .. index : current[k] # item(k)}
  <2> SUFFICES ASSUME S # {} PROVE FALSE
    OBVIOUS
  <2>1. S \in SUBSET Nat
    OBVIOUS
  <2>2. PICK k \in S : \A m \in S : k <= m
    <3> HIDE DEF S
    <3> QED
      BY <2>1, LeastNatural
  <2>3. k \in 0 .. index /\ current[k] # item(k)
    OBVIOUS
  <2>4. k # 0
    BY <1>1, <1>8, <2>3
  <2>5. k - 1 \in 0 .. index /\ k - 1 \notin S
    BY <2>2, <2>3, <2>4
  <2>6. current[k - 1] = item(k - 1)
    BY <2>5
  <2>7. current[k] = IF current[k - 1] = NULL THEN NULL ELSE h.at[current[k - 1]].next
    BY <1>8, <2>3, <2>4
  <2>8. item(k) = IF item(k - 1) = NULL THEN NULL ELSE h.at[item(k - 1)].next
    BY <1>2, <2>3, <2>4
  <2> HIDE DEF S
  <2> QED
    BY <2>3, <2>6, <2>7, <2>8
<1> QED
  BY <1>6, <1>9 DEF item

-----------------------------------------------------------------------------
(* What is below an item.                                                  *)

\* S holds the children of all its members.
Closed(ls, S) == \A c \in S : ToSet(ls[c]) \subseteq S

LEMMA BelowIs ==
  ASSUME NEW D, NEW ls \in [D -> Seq(D)], NEW n
  PROVE  Below(ls, n) = {m \in D : \A S \in SUBSET D : n \in S /\ Closed(ls, S) => m \in S}
<1> DEFINE holds == UNION {{c} \X ToSet(ls[c]) : c \in D}
           All(S) == \A e \in holds : e[1] \in S => e[2] \in S
<1>1. ASSUME NEW S \in SUBSET D PROVE All(S) <=> Closed(ls, S)
  <2>1. ASSUME All(S), NEW c \in S, NEW x \in ToSet(ls[c]) PROVE x \in S
    <3>1. <<c, x>> \in holds /\ <<c, x>>[1] = c /\ <<c, x>>[2] = x
      OBVIOUS
    <3> HIDE DEF holds
    <3> QED
      BY <2>1, <3>1
  <2>2. ASSUME Closed(ls, S), NEW e \in holds, e[1] \in S PROVE e[2] \in S
    <3>1. e[2] \in ToSet(ls[e[1]])
      OBVIOUS
    <3> QED
      BY <2>2, <3>1 DEF Closed
  <2> QED
    BY <2>1, <2>2 DEF Closed
<1>2. Below(ls, n) = {m \in D : \A S \in {T \in SUBSET D : n \in T /\ All(T)} : m \in S}
  BY Zenon DEF Below
<1> HIDE DEF All
<1> QED
  BY <1>1, <1>2

LEMMA BelowClosed ==
  ASSUME NEW D, NEW ls \in [D -> Seq(D)], NEW n \in D
  PROVE  Below(ls, n) \subseteq D /\ n \in Below(ls, n) /\ Closed(ls, Below(ls, n))
<1>1. DOMAIN ls = D /\ \A c \in D : ToSet(ls[c]) \subseteq D
  BY InSet
<1>2. Below(ls, n) \subseteq D /\ n \in Below(ls, n)
  BY <1>1, BelowIs
<1>3. ASSUME NEW c \in Below(ls, n), NEW m \in ToSet(ls[c]) PROVE m \in Below(ls, n)
  <2>1. m \in D
    BY <1>1, <1>2
  <2>2. ASSUME NEW S \in SUBSET D, n \in S, Closed(ls, S) PROVE m \in S
    <3>1. c \in S
      BY <2>2, BelowIs
    <3> QED
      BY <2>2, <3>1 DEF Closed
  <2> QED
    BY <2>1, <2>2, BelowIs
<1> QED
  BY <1>2, <1>3 DEF Closed

LEMMA BelowLeast ==
  ASSUME NEW D, NEW ls \in [D -> Seq(D)], NEW n, NEW S \in SUBSET D, n \in S, Closed(ls, S)
  PROVE  Below(ls, n) \subseteq S
BY BelowIs

LEMMA BelowBelow ==
  ASSUME NEW D, NEW ls \in [D -> Seq(D)], NEW n \in D, NEW m \in Below(ls, n)
  PROVE  Below(ls, m) \subseteq Below(ls, n)
BY BelowClosed, BelowLeast

\* What is below n, and not n, is the child of something below n.
LEMMA BelowParent ==
  ASSUME NEW D, NEW ls \in [D -> Seq(D)], NEW n \in D, NEW m \in Below(ls, n), m # n
  PROVE  \E c \in Below(ls, n) : m \in ToSet(ls[c])
<1> SUFFICES ASSUME \A c \in Below(ls, n) : m \notin ToSet(ls[c]) PROVE FALSE
  OBVIOUS
<1> DEFINE S == Below(ls, n) \ {m}
<1>1. S \in SUBSET D /\ n \in S
  BY BelowClosed
<1>2. Closed(ls, S)
  BY BelowClosed DEF Closed
<1>3. Below(ls, n) \subseteq S
  <2> HIDE DEF S
  <2> QED
    BY <1>1, <1>2, BelowLeast
<1> QED
  BY <1>3

-----------------------------------------------------------------------------
(* The invariant.                                                          *)

Ptr == Node \cup {NULL}

Type == {"invalid", "null", "true", "false", "number", "string", "raw", "array", "object"}

\* Names and texts.  (That the literal "NULL" is a string is beyond the provers.)
Chars == Seq(STRING \cup {"NULL"})

Item == [type : Type, ref : BOOLEAN, const : BOOLEAN, key : Chars, value : Chars,
         next : Ptr, prev : Ptr, child : Ptr]

LEMMA NoStringIsChars == NoString \in Chars
<1>1. ASSUME NEW S, NEW x \in S PROVE <<x>> \in Seq(S)
  OBVIOUS
<1> QED
  BY <1>1 DEF NoString, Chars

\* All of an item but its links.
Label(i) == <<i.type, i.ref, i.const, i.key, i.value>>

Typed(at, ls) ==
  /\ DOMAIN ls \subseteq Node
  /\ at \in [DOMAIN ls -> Item]
  /\ ls \in [DOMAIN ls -> Seq(DOMAIN ls)]

\* No item is in two places.
Apart(ls) ==
  \A c, d \in DOMAIN ls : \A i \in DOMAIN ls[c], j \in DOMAIN ls[d] :
    ls[c][i] = ls[d][j] => c = d /\ i = j

Acyclic(ls) == \A c \in DOMAIN ls : \A m \in ToSet(ls[c]) : c \notin Below(ls, m)

Chained(at, ls) ==
  \A c \in DOMAIN ls : IF at[c].ref THEN ls[c] = <<>> ELSE Linked(at, c, ls[c])

LinkedToNothing(at, n) == at[n].next = NULL /\ at[n].prev = NULL

RootsLoose(at, ls) == \A n \in DOMAIN ls : Root(ls, n) => LinkedToNothing(at, n)

Sound(at, ls) ==
  Typed(at, ls) /\ Apart(ls) /\ Acyclic(ls) /\ Chained(at, ls) /\ RootsLoose(at, ls)

LEMMA ApartSets ==
  ASSUME NEW D, NEW ls \in [D -> Seq(D)]
  PROVE  Apart(ls) <=>
           \A c \in D : /\ Once(ls[c])
                        /\ \A d \in D : c # d => ToSet(ls[c]) \cap ToSet(ls[d]) = {}
<1>1. DOMAIN ls = D
  OBVIOUS
<1>2. \A c \in D : DOMAIN ls[c] = 1 .. Len(ls[c])
  OBVIOUS
<1>3. \A c \in D : \A x : x \in ToSet(ls[c]) <=> \E i \in DOMAIN ls[c] : ls[c][i] = x
  BY <1>2, InSet
<1>4. ASSUME Apart(ls), NEW c \in D
      PROVE  Once(ls[c]) /\ \A d \in D : c # d => ToSet(ls[c]) \cap ToSet(ls[d]) = {}
  <2>1. Once(ls[c])
    BY <1>1, <1>4 DEF Apart, Once
  <2>2. ASSUME NEW d \in D, c # d, NEW x \in ToSet(ls[c]), x \in ToSet(ls[d]) PROVE FALSE
    <3>1. PICK i \in DOMAIN ls[c] : ls[c][i] = x
      BY <1>3
    <3>2. PICK j \in DOMAIN ls[d] : ls[d][j] = x
      BY <1>3, <2>2
    <3> QED
      BY <1>1, <1>4, <2>2, <3>1, <3>2 DEF Apart
  <2> QED
    BY <2>1, <2>2
<1>5. ASSUME \A c \in D : /\ Once(ls[c])
                          /\ \A d \in D : c # d => ToSet(ls[c]) \cap ToSet(ls[d]) = {}
      PROVE  Apart(ls)
  <2> SUFFICES ASSUME NEW c \in D, NEW d \in D, NEW i \in DOMAIN ls[c], NEW j \in DOMAIN ls[d],
                      ls[c][i] = ls[d][j]
      PROVE c = d /\ i = j
    BY <1>1 DEF Apart
  <2>1. ls[c][i] \in ToSet(ls[c]) /\ ls[c][i] \in ToSet(ls[d])
    BY <1>3
  <2>2. c = d
    BY <1>5, <2>1
  <2> QED
    BY <1>5, <2>2 DEF Once
<1> QED
  BY <1>4, <1>5

-----------------------------------------------------------------------------
(* Deleting.                                                               *)

\* In a list with a head in S and no way out of S along next, all is in S.
LEMMA WholeList ==
  ASSUME NEW D, NEW s \in Seq(D), NEW S, s # <<>> => s[1] \in S,
         \A i \in 1 .. Len(s) - 1 : s[i] \in S => s[i + 1] \in S
  PROVE  ToSet(s) \subseteq S
<1> DEFINE T == {i \in 1 .. Len(s) : s[i] \notin S}
<1>1. T = {}
  <2> SUFFICES ASSUME T # {} PROVE FALSE
    OBVIOUS
  <2>1. T \in SUBSET Nat
    OBVIOUS
  <2>2. PICK k \in T : \A m \in T : k <= m
    <3> HIDE DEF T
    <3> QED
      BY <2>1, LeastNatural
  <2>3. k \in 1 .. Len(s) /\ s[k] \notin S /\ k # 1
    OBVIOUS
  <2>4. k - 1 \in 1 .. Len(s) - 1 /\ k - 1 \notin T
    BY <2>2, <2>3
  <2>5. s[k - 1] \in S
    BY <2>4
  <2> QED
    BY <2>3, <2>4, <2>5
<1> QED
  BY <1>1, InSet

\* cJSON_Delete frees what is below the item it is given, in any number of
\* steps, and nothing else: not what a reference shows (cJSON.c:253-274).
THEOREM FreesBelow ==
  ASSUME NEW at, NEW ls, Sound(at, ls), NEW n \in DOMAIN ls, Root(ls, n)
  PROVE  Freed(at, n) = Below(ls, n)
<1> DEFINE D == DOMAIN ls
           B == Below(ls, n)
<1>1. ls \in [D -> Seq(D)] /\ DOMAIN at = D /\ D \subseteq Node /\ at \in [D -> Item]
  BY DEF Sound, Typed
<1>2. B \subseteq D /\ n \in B /\ \A c \in B : ToSet(ls[c]) \subseteq B
  BY <1>1, BelowClosed DEF Closed
<1>3. \A c \in D : ls[c] \in Seq(D) /\ DOMAIN ls[c] = 1 .. Len(ls[c])
  BY <1>1
<1>4. \A c \in D : ~at[c].ref =>
        /\ at[c].child = IF ls[c] = <<>> THEN NULL ELSE ls[c][1]
        /\ \A i \in 1 .. Len(ls[c]) : at[ls[c][i]].next = IF i = Len(ls[c]) THEN NULL ELSE ls[c][i + 1]
  <2> SUFFICES ASSUME NEW c \in D, ~at[c].ref
      PROVE  /\ at[c].child = IF ls[c] = <<>> THEN NULL ELSE ls[c][1]
             /\ \A i \in 1 .. Len(ls[c]) :
                  at[ls[c][i]].next = IF i = Len(ls[c]) THEN NULL ELSE ls[c][i + 1]
    OBVIOUS
  <2>1. Linked(at, c, ls[c])
    BY DEF Sound, Chained
  <2> QED
    BY <1>3, <2>1 DEF Linked
<1>5. ASSUME NEW c \in B PROVE Onward(at, c) \subseteq B
  <2>1. ~at[c].ref /\ at[c].child # NULL => at[c].child \in B
    <3> SUFFICES ASSUME ~at[c].ref, at[c].child # NULL PROVE at[c].child \in B
      OBVIOUS
    <3>1. ls[c] # <<>> /\ at[c].child = ls[c][1] /\ ls[c] \in Seq(D)
      BY <1>2, <1>3, <1>4
    <3>2. ls[c][1] \in ToSet(ls[c])
      BY <3>1, InSet
    <3> QED
      BY <1>2, <3>1, <3>2
  <2>2. at[c].next # NULL => at[c].next \in B
    <3> SUFFICES ASSUME at[c].next # NULL PROVE at[c].next \in B
      OBVIOUS
    <3>1. c # n
      BY DEF Sound, RootsLoose, LinkedToNothing
    <3>2. PICK p \in B : c \in ToSet(ls[p])
      BY <1>1, <3>1, BelowParent
    <3>3. p \in D /\ ls[p] \in Seq(D)
      BY <1>2, <1>3
    <3>4. PICK i \in 1 .. Len(ls[p]) : ls[p][i] = c
      BY <3>2, <3>3, InSet
    <3>5. ~at[p].ref
      <4>1. at[p].ref => ls[p] = <<>>
        BY <3>3 DEF Sound, Chained
      <4> QED
        BY <3>4, <4>1
    <3>6. i # Len(ls[p]) /\ at[c].next = ls[p][i + 1]
      BY <1>4, <3>3, <3>4, <3>5
    <3>7. ls[p][i + 1] \in ToSet(ls[p])
      BY <3>3, <3>4, <3>6, InSet
    <3> QED
      BY <1>2, <3>2, <3>6, <3>7
  <2> QED
    BY <2>1, <2>2 DEF Onward
<1>6. Freed(at, n) \subseteq B
  BY <1>1, <1>2, <1>5 DEF Freed
<1>7. ASSUME NEW S \in SUBSET D, n \in S, \A c \in S : Onward(at, c) \subseteq S PROVE B \subseteq S
  <2>1. ASSUME NEW c \in S PROVE ToSet(ls[c]) \subseteq S
    <3>1. CASE at[c].ref
      <4>1. ls[c] = <<>>
        BY <1>7, <3>1 DEF Sound, Chained
      <4> QED
        BY <4>1 DEF ToSet
    <3>2. CASE ~at[c].ref
      <4> DEFINE s == ls[c]
      <4>1. c \in D /\ s \in Seq(D)
        BY <1>3, <1>7
      <4>2. \A d \in D : d # NULL
        BY <1>1
      <4>3. s # <<>> => s[1] \in S
        <5> SUFFICES ASSUME s # <<>> PROVE s[1] \in S
          OBVIOUS
        <5>1. at[c].child = s[1] /\ s[1] \in D
          BY <1>4, <3>2, <4>1
        <5> QED
          BY <1>7, <3>2, <4>2, <5>1 DEF Onward
      <4>4. ASSUME NEW i \in 1 .. Len(s) - 1, s[i] \in S PROVE s[i + 1] \in S
        <5>1. i \in 1 .. Len(s) /\ i # Len(s) /\ s[i + 1] \in D
          BY <4>1
        <5>2. at[s[i]].next = s[i + 1]
          BY <1>4, <3>2, <4>1, <5>1
        <5> QED
          BY <1>7, <4>2, <4>4, <5>1, <5>2 DEF Onward
      <4> HIDE DEF s
      <4>5. ToSet(s) \subseteq S
        BY <4>1, <4>3, <4>4, WholeList
      <4> QED
        BY <4>5 DEF s
    <3> QED
      BY <3>1, <3>2
  <2> QED
    BY <1>1, <1>7, <2>1, BelowLeast DEF Closed
<1>8. B \subseteq Freed(at, n)
  BY <1>1, <1>2, <1>7 DEF Freed
<1> QED
  BY <1>6, <1>8

\* Deleting a root leaves the rest as it was.
LEMMA DeleteKeeps ==
  ASSUME NEW at, NEW ls, Sound(at, ls), NEW n \in DOMAIN ls, Root(ls, n)
  PROVE  Sound(Deleted(at, n), Without(ls, n))
<1> DEFINE D == DOMAIN ls
           B == Below(ls, n)
           E == D \ B
           at2 == Deleted(at, n)
           ls2 == Without(ls, n)
<1>1. ls \in [D -> Seq(D)] /\ DOMAIN at = D /\ D \subseteq Node /\ at \in [D -> Item]
  BY DEF Sound, Typed
<1>2. B \subseteq D /\ n \in B /\ \A c \in B : ToSet(ls[c]) \subseteq B
  BY <1>1, BelowClosed DEF Closed
<1>3. at2 = [m \in E |-> at[m]] /\ ls2 = [m \in E |-> ls[m]]
  BY <1>1, FreesBelow DEF Deleted, Without
<1>4. \A c, d \in D : c # d => ToSet(ls[c]) \cap ToSet(ls[d]) = {}
  BY <1>1, ApartSets DEF Sound
<1>5. ASSUME NEW c \in E PROVE ToSet(ls[c]) \subseteq E
  <2> SUFFICES ASSUME NEW m \in ToSet(ls[c]), m \in B PROVE FALSE
    BY <1>1, InSet
  <2>1. m # n
    BY DEF Root
  <2>2. PICK p \in B : m \in ToSet(ls[p])
    BY <1>1, <2>1, BelowParent
  <2> QED
    BY <1>2, <1>4, <2>2
<1>6. \A c \in E : ls[c] \in Seq(E)
  <2> SUFFICES ASSUME NEW c \in E PROVE ls[c] \in Seq(E)
    OBVIOUS
  <2>1. ls[c] \in Seq(D) /\ ToSet(ls[c]) \subseteq E
    BY <1>1, <1>5
  <2>2. \A i \in 1 .. Len(ls[c]) : ls[c][i] \in E
    BY <2>1, InSet
  <2> QED
    BY <2>1, <2>2
<1>7. DOMAIN ls2 = E /\ ls2 \in [E -> Seq(E)] /\ \A c \in E : ls2[c] = ls[c] /\ at2[c] = at[c]
  BY <1>3, <1>6
<1>8. Typed(at2, ls2)
  BY <1>1, <1>3, <1>7 DEF Typed
<1> HIDE DEF at2, ls2, B
<1>9. Apart(ls2)
  BY <1>7 DEF Sound, Apart
<1>10. Acyclic(ls2)
  <2> SUFFICES ASSUME NEW c \in E, NEW m \in ToSet(ls[c]), c \in Below(ls2, m) PROVE FALSE
    BY <1>7 DEF Acyclic
  <2> DEFINE S == Below(ls, m) \ B
  <2>1. m \in E /\ m \in D
    BY <1>5
  <2>2. Below(ls, m) \subseteq D /\ m \in Below(ls, m)
        /\ \A d \in Below(ls, m) : ToSet(ls[d]) \subseteq Below(ls, m)
    BY <1>1, <2>1, BelowClosed DEF Closed
  <2>3. S \in SUBSET E /\ m \in S
    BY <2>1, <2>2
  <2>4. \A d \in S : ToSet(ls2[d]) \subseteq S
    BY <1>5, <1>7, <2>2
  <2> HIDE DEF S
  <2>5. Below(ls2, m) \subseteq S
    BY <1>7, <2>3, <2>4, BelowLeast DEF Closed
  <2> QED
    BY <2>1, <2>5 DEF S, Sound, Acyclic
<1>11. Chained(at2, ls2)
  <2> SUFFICES ASSUME NEW c \in E PROVE IF at2[c].ref THEN ls2[c] = <<>> ELSE Linked(at2, c, ls2[c])
    BY <1>7 DEF Chained
  <2>1. IF at[c].ref THEN ls[c] = <<>> ELSE Linked(at, c, ls[c])
    BY DEF Sound, Chained
  <2>2. \A i \in DOMAIN ls[c] : at2[ls[c][i]] = at[ls[c][i]]
    BY <1>6, <1>7
  <2> QED
    BY <1>7, <2>1, <2>2, SMTT(30) DEF Linked
<1>12. RootsLoose(at2, ls2)
  <2> SUFFICES ASSUME NEW m \in E, Root(ls2, m) PROVE LinkedToNothing(at2, m)
    BY <1>7 DEF RootsLoose
  <2>1. Root(ls, m)
    BY <1>2, <1>7 DEF Root
  <2> QED
    BY <1>7, <2>1 DEF Sound, RootsLoose, LinkedToNothing
<1> QED
  BY <1>8, <1>9, <1>10, <1>11, <1>12 DEF Sound, at2, ls2

-----------------------------------------------------------------------------
(* A new item.                                                             *)

\* f, and v for one more.
Grown(f, n, v) == [m \in DOMAIN f \cup {n} |-> IF m = n THEN v ELSE f[m]]

LEMMA NewKeeps ==
  ASSUME NEW at, NEW ls, Sound(at, ls), NEW n \in Node \ DOMAIN ls, NEW x \in Item,
         x.next = NULL, x.prev = NULL, ~x.ref => x.child = NULL
  PROVE  /\ Sound(Grown(at, n, x), Grown(ls, n, <<>>))
         /\ Root(Grown(ls, n, <<>>), n) /\ Below(Grown(ls, n, <<>>), n) = {n}
<1> DEFINE D == DOMAIN ls
           E == D \cup {n}
           at2 == Grown(at, n, x)
           ls2 == Grown(ls, n, <<>>)
<1>1. ls \in [D -> Seq(D)] /\ DOMAIN at = D /\ D \subseteq Node /\ at \in [D -> Item] /\ n \notin D
  BY DEF Sound, Typed
<1>2. \A c \in D : ls2[c] = ls[c] /\ at2[c] = at[c] /\ ToSet(ls[c]) \subseteq D
  BY <1>1, InSet DEF Grown
<1>3. DOMAIN ls2 = E /\ DOMAIN at2 = E /\ ls2[n] = <<>> /\ at2[n] = x
  BY <1>1 DEF Grown
<1> HIDE DEF at2, ls2
<1>4. \A c \in E : ls2[c] \in Seq(E)
  <2> SUFFICES ASSUME NEW c \in E PROVE ls2[c] \in Seq(E)
    OBVIOUS
  <2>1. CASE c = n
    BY <1>3, <2>1
  <2>2. CASE c # n
    <3>1. ls[c] \in Seq(D) /\ D \subseteq E
      BY <1>1, <2>2
    <3>2. ls[c] \in Seq(E)
      BY <3>1
    <3> QED
      BY <1>2, <2>2, <3>2
  <2> QED
    BY <2>1, <2>2
<1>5. at2 \in [E -> Item] /\ ls2 \in [E -> Seq(E)] /\ E \subseteq Node
  <2>1. at2 \in [E -> Item]
    BY <1>1 DEF Grown, at2
  <2>2. ls2 \in [E -> Seq(E)]
    BY <1>3, <1>4 DEF Grown, ls2
  <2> QED
    BY <1>1, <2>1, <2>2
<1>6. Typed(at2, ls2)
  BY <1>3, <1>5 DEF Typed
<1>7. ToSet(<<>>) = {} /\ DOMAIN <<>> = {}
  BY DEF ToSet
<1>8. Apart(ls2)
  BY <1>2, <1>3, <1>7 DEF Sound, Apart
<1>9. Root(ls2, n)
  BY <1>1, <1>2, <1>3, <1>7 DEF Root
<1>10. Below(ls2, n) = {n}
  <2>1. Below(ls2, n) \subseteq {n}
    BY <1>3, <1>5, <1>7, BelowLeast DEF Closed
  <2> QED
    BY <1>5, <2>1, BelowClosed
<1>11. Acyclic(ls2)
  <2> SUFFICES ASSUME NEW c \in E, NEW m \in ToSet(ls2[c]), c \in Below(ls2, m) PROVE FALSE
    BY <1>3 DEF Acyclic
  <2>1. c \in D /\ m \in D /\ m \in ToSet(ls[c])
    BY <1>2, <1>3, <1>7
  <2>2. Below(ls, m) \subseteq D /\ m \in Below(ls, m) /\ Closed(ls, Below(ls, m))
    BY <1>1, <2>1, BelowClosed
  <2>3. Closed(ls2, Below(ls, m)) /\ Below(ls, m) \in SUBSET E
    BY <1>2, <2>2 DEF Closed
  <2>4. Below(ls2, m) \subseteq Below(ls, m)
    BY <1>5, <2>2, <2>3, BelowLeast
  <2> QED
    BY <2>1, <2>4 DEF Sound, Acyclic
<1>12. Chained(at2, ls2)
  <2> SUFFICES ASSUME NEW c \in E PROVE IF at2[c].ref THEN ls2[c] = <<>> ELSE Linked(at2, c, ls2[c])
    BY <1>3 DEF Chained
  <2>1. CASE c = n
    <3>1. at2[n].child = x.child /\ DOMAIN <<>> = {}
      BY <1>3, <1>7
    <3>2. ~x.ref => Linked(at2, n, <<>>)
      BY <3>1, Zenon DEF Linked
    <3>3. IF at2[n].ref THEN ls2[n] = <<>> ELSE Linked(at2, n, ls2[n])
      BY <1>3, <3>2, Zenon
    <3> QED
      BY <2>1, <3>3
  <2>2. CASE c # n
    <3>1. IF at[c].ref THEN ls[c] = <<>> ELSE Linked(at, c, ls[c])
      BY <2>2 DEF Sound, Chained
    <3>2. at2[c] = at[c] /\ ls2[c] = ls[c] /\ c \in D
      BY <1>2, <2>2
    <3>3. \A i \in DOMAIN ls[c] : at2[ls[c][i]] = at[ls[c][i]]
      BY <1>1, <1>2, <3>2
    <3>4. Linked(at, c, ls[c]) => Linked(at2, c, ls[c])
      BY <3>2, <3>3 DEF Linked
    <3> QED
      BY <3>1, <3>2, <3>4
  <2> QED
    BY <2>1, <2>2
<1>13. RootsLoose(at2, ls2)
  <2> SUFFICES ASSUME NEW m \in E, Root(ls2, m) PROVE LinkedToNothing(at2, m)
    BY <1>3 DEF RootsLoose
  <2>1. CASE m = n
    BY <1>3, <2>1 DEF LinkedToNothing
  <2>2. CASE m # n
    <3>1. Root(ls, m)
      BY <1>2, <1>3, <2>2 DEF Root
    <3> QED
      BY <1>2, <2>2, <3>1 DEF Sound, RootsLoose, LinkedToNothing
  <2> QED
    BY <2>1, <2>2
<1> QED
  BY <1>6, <1>8, <1>9, <1>10, <1>11, <1>12, <1>13 DEF Sound, at2, ls2

-----------------------------------------------------------------------------
(* Editing a list.                                                         *)

\* An edit makes t of the list s of array a: it links t, unlinks what is not in
\* t any more and leaves all other links.
Edit(at, at2, a, s, t) ==
  /\ at2 \in [DOMAIN at -> Item]
  /\ \A m \in DOMAIN at :
       /\ Label(at2[m]) = Label(at[m])
       /\ m # a => at2[m].child = at[m].child
       /\ m \notin ToSet(s) \cup ToSet(t) => at2[m].next = at[m].next /\ at2[m].prev = at[m].prev
       /\ m \in ToSet(s) \ ToSet(t) => LinkedToNothing(at2, m)
  /\ Linked(at2, a, t)

\* The items are the same but for their links.
SameLabels(at, at2) == DOMAIN at2 = DOMAIN at /\ \A m \in DOMAIN at : Label(at2[m]) = Label(at[m])

\* An edit that brings in roots only, and none that array a is below.
LEMMA EditKeeps ==
  ASSUME NEW at, NEW ls, Sound(at, ls), NEW a \in DOMAIN ls, ~at[a].ref,
         NEW t \in Seq(DOMAIN ls), Once(t),
         NEW X \in SUBSET DOMAIN ls, \A x \in X : Root(ls, x) /\ a \notin Below(ls, x),
         ToSet(t) \subseteq ToSet(ls[a]) \cup X,
         NEW at2, Edit(at, at2, a, ls[a], t)
  PROVE  Sound(at2, [ls EXCEPT ![a] = t])
<1> DEFINE D == DOMAIN ls
           ls2 == [ls EXCEPT ![a] = t]
<1>1. ls \in [D -> Seq(D)] /\ DOMAIN at = D /\ D \subseteq Node
  BY DEF Sound, Typed
<1>2. DOMAIN ls2 = D /\ ls2 \in [D -> Seq(D)] /\ ls2[a] = t /\ \A c \in D : c # a => ls2[c] = ls[c]
  BY <1>1
<1>3. Typed(at2, ls2)
  BY <1>1, <1>2 DEF Typed, Edit
<1>4. \A c \in D : ToSet(ls[c]) \subseteq D /\ \A x \in X : x \notin ToSet(ls[c])
  BY <1>1, InSet DEF Root
<1>5. \A c \in D : /\ Once(ls[c])
                   /\ \A d \in D : c # d => ToSet(ls[c]) \cap ToSet(ls[d]) = {}
  BY <1>1, ApartSets DEF Sound
<1> HIDE DEF ls2
<1>6. \A c \in D : c # a => ToSet(ls[c]) \cap ToSet(t) = {} /\ ToSet(ls[c]) \cap ToSet(ls[a]) = {}
  BY <1>4, <1>5
<1>7. Apart(ls2)
  <2>1. \A c \in D : /\ Once(ls2[c])
                     /\ \A d \in D : c # d => ToSet(ls2[c]) \cap ToSet(ls2[d]) = {}
    BY <1>2, <1>5, <1>6
  <2> QED
    BY <1>2, <2>1, ApartSets
<1>8. Acyclic(ls2)
  <2> SUFFICES ASSUME NEW c \in D, NEW m \in ToSet(ls2[c]), c \in Below(ls2, m) PROVE FALSE
    BY <1>2 DEF Acyclic
  <2> DEFINE Added == UNION {Below(ls, x) : x \in X}
             S == Below(ls, m) \cup (IF a \in Below(ls, m) THEN Added ELSE {})
  <2>1. m \in D
    BY <1>2, <1>4
  <2>2. \A x \in X \cup {m} : Below(ls, x) \subseteq D /\ x \in Below(ls, x)
                              /\ \A d \in Below(ls, x) : ToSet(ls[d]) \subseteq Below(ls, x)
    BY <1>1, <2>1, BelowClosed DEF Closed
  <2>3. X \subseteq Added /\ Added \subseteq D /\ a \notin Added
        /\ \A d \in Added : ToSet(ls[d]) \subseteq Added
    BY <2>2
  <2> HIDE DEF Added
  <2>4. S \in SUBSET D /\ m \in S
    BY <2>2, <2>3
  <2>5. \A d \in S : ToSet(ls2[d]) \subseteq S
    <3> SUFFICES ASSUME NEW d \in S PROVE ToSet(ls2[d]) \subseteq S
      OBVIOUS
    <3>1. ToSet(ls[d]) \subseteq S
      BY <2>2, <2>3
    <3>2. CASE d = a
      <4>1. a \in Below(ls, m)
        BY <2>3, <3>2
      <4>2. X \subseteq S
        BY <2>3, <4>1
      <4> QED
        BY <1>2, <3>1, <3>2, <4>2
    <3>3. CASE d # a
      BY <1>2, <2>4, <3>1, <3>3
    <3> QED
      BY <3>2, <3>3
  <2>6. c \in S
    <3> HIDE DEF S
    <3>1. Below(ls2, m) \subseteq S
      BY <1>2, <2>4, <2>5, BelowLeast DEF Closed
    <3> QED
      BY <3>1
  <2>7. CASE c = a
    <3>1. a \notin Below(ls, m)
      <4>1. m \in ToSet(ls[a]) \/ m \in X
        BY <1>2, <2>7
      <4> QED
        BY <4>1 DEF Sound, Acyclic
    <3> QED
      BY <2>6, <2>7, <3>1
  <2>8. CASE c # a
    <3>1. m \in ToSet(ls[c]) /\ c \notin Below(ls, m)
      BY <1>2, <2>8 DEF Sound, Acyclic
    <3>2. a \in Below(ls, m) /\ c \in Added
      BY <2>6, <3>1
    <3>3. PICK x \in X : c \in Below(ls, x)
      BY <3>2 DEF Added
    <3>4. m \in Below(ls, x)
      BY <2>2, <3>1, <3>3
    <3>5. a \in Below(ls, x)
      BY <1>1, <3>2, <3>4, BelowBelow
    <3> QED
      BY <3>5
  <2> QED
    BY <2>7, <2>8
<1>9. Chained(at2, ls2)
  <2> SUFFICES ASSUME NEW c \in D PROVE IF at2[c].ref THEN ls2[c] = <<>> ELSE Linked(at2, c, ls2[c])
    BY <1>2 DEF Chained
  <2>1. at2[c].ref = at[c].ref
    <3>1. Label(at2[c]) = Label(at[c])
      BY <1>1 DEF Edit
    <3> QED
      BY <3>1 DEF Label
  <2>2. CASE c = a
    BY <1>2, <2>1, <2>2 DEF Edit
  <2>3. CASE c # a
    <3>1. ls2[c] = ls[c] /\ at2[c].child = at[c].child
      BY <1>1, <1>2, <2>3 DEF Edit
    <3>2. IF at[c].ref THEN ls[c] = <<>> ELSE Linked(at, c, ls[c])
      BY DEF Sound, Chained
    <3>3. \A i \in DOMAIN ls[c] : ls[c][i] \in ToSet(ls[c])
      BY DEF ToSet
    <3>4. \A i \in DOMAIN ls[c] : /\ at2[ls[c][i]].next = at[ls[c][i]].next
                                  /\ at2[ls[c][i]].prev = at[ls[c][i]].prev
      BY <1>1, <1>4, <1>6, <2>3, <3>3 DEF Edit
    <3>5. Linked(at, c, ls[c]) => Linked(at2, c, ls[c])
      BY <3>1, <3>4 DEF Linked
    <3> QED
      BY <2>1, <3>1, <3>2, <3>5
  <2> QED
    BY <2>2, <2>3
<1>10. RootsLoose(at2, ls2)
  <2> SUFFICES ASSUME NEW m \in D, Root(ls2, m) PROVE LinkedToNothing(at2, m)
    BY <1>2 DEF RootsLoose
  <2>1. m \notin ToSet(t) /\ \A c \in D : c # a => m \notin ToSet(ls[c])
    BY <1>2 DEF Root
  <2>2. CASE m \in ToSet(ls[a])
    BY <1>1, <2>1, <2>2 DEF Edit
  <2>3. CASE m \notin ToSet(ls[a])
    <3>1. Root(ls, m)
      BY <2>1, <2>3 DEF Root
    <3>2. LinkedToNothing(at, m)
      BY <3>1 DEF Sound, RootsLoose
    <3> QED
      BY <1>1, <2>1, <2>3, <3>2 DEF Edit, LinkedToNothing
  <2> QED
    BY <2>2, <2>3
<1> QED
  BY <1>3, <1>7, <1>8, <1>9, <1>10 DEF Sound, ls2

-----------------------------------------------------------------------------
(* What the pointer assignments of cJSON.c come to.                        *)

HIDE DEF NULL, Node

NextIf(c, at, n, v)  == IF c THEN [at EXCEPT ![n].next = v] ELSE at
PrevIf(c, at, n, v)  == IF c THEN [at EXCEPT ![n].prev = v] ELSE at
ChildIf(c, at, n, v) == IF c THEN [at EXCEPT ![n].child = v] ELSE at

Mem(at, strings, fuel) == [at |-> at, strings |-> strings, fuel |-> fuel]

\* at2 is at with v in one field of n, if c.
NextSet(D, at, at2, c, n, v) ==
  at2 \in [D -> Item] /\ \A m \in D :
    /\ at2[m].next = IF c /\ m = n THEN v ELSE at[m].next
    /\ at2[m].prev = at[m].prev /\ at2[m].child = at[m].child /\ Label(at2[m]) = Label(at[m])

PrevSet(D, at, at2, c, n, v) ==
  at2 \in [D -> Item] /\ \A m \in D :
    /\ at2[m].prev = IF c /\ m = n THEN v ELSE at[m].prev
    /\ at2[m].next = at[m].next /\ at2[m].child = at[m].child /\ Label(at2[m]) = Label(at[m])

ChildSet(D, at, at2, c, n, v) ==
  at2 \in [D -> Item] /\ \A m \in D :
    /\ at2[m].child = IF c /\ m = n THEN v ELSE at[m].child
    /\ at2[m].next = at[m].next /\ at2[m].prev = at[m].prev /\ Label(at2[m]) = Label(at[m])

LEMMA SetsNext ==
  ASSUME NEW D, NEW at \in [D -> Item], NEW c \in BOOLEAN, NEW n, NEW v, c => n \in D /\ v \in Ptr
  PROVE  NextSet(D, at, NextIf(c, at, n, v), c, n, v)
<1>1. CASE c
  BY <1>1 DEF NextSet, NextIf, Item, Label
<1>2. CASE ~c
  BY <1>2 DEF NextSet, NextIf
<1> QED
  BY <1>1, <1>2

LEMMA SetsPrev ==
  ASSUME NEW D, NEW at \in [D -> Item], NEW c \in BOOLEAN, NEW n, NEW v, c => n \in D /\ v \in Ptr
  PROVE  PrevSet(D, at, PrevIf(c, at, n, v), c, n, v)
<1>1. CASE c
  BY <1>1 DEF PrevSet, PrevIf, Item, Label
<1>2. CASE ~c
  BY <1>2 DEF PrevSet, PrevIf
<1> QED
  BY <1>1, <1>2

LEMMA SetsChild ==
  ASSUME NEW D, NEW at \in [D -> Item], NEW c \in BOOLEAN, NEW n, NEW v, c => n \in D /\ v \in Ptr
  PROVE  ChildSet(D, at, ChildIf(c, at, n, v), c, n, v)
<1>1. CASE c
  BY <1>1 DEF ChildSet, ChildIf, Item, Label
<1>2. CASE ~c
  BY <1>2 DEF ChildSet, ChildIf
<1> QED
  BY <1>1, <1>2

\* The assignments of cJSON_DetachItemViaPointer.
DetachLinks(at, a, x, head, next, prev) ==
  LET at1 == ChildIf(x = head, at, a, next)
      at2 == NextIf(x # head, at1, prev, next)
      at3 == PrevIf(next # NULL, at2, next, prev)
      at4 == PrevIf(x # head /\ next = NULL, at3, head, prev)
      at5 == PrevIf(TRUE, at4, x, NULL)
      at6 == NextIf(TRUE, at5, x, NULL)
  IN  at6

Detached(D, at, at2, a, x, head, next, prev) ==
  /\ at2 \in [D -> Item]
  /\ \A m \in D :
       /\ at2[m].next = (IF m = x THEN NULL
                         ELSE IF x # head /\ m = prev THEN next ELSE at[m].next)
       /\ at2[m].prev = (IF m = x THEN NULL
                         ELSE IF x # head /\ next = NULL /\ m = head THEN prev
                         ELSE IF next # NULL /\ m = next THEN prev ELSE at[m].prev)
       /\ at2[m].child = (IF x = head /\ m = a THEN next ELSE at[m].child)
       /\ Label(at2[m]) = Label(at[m])

LEMMA DetachSets ==
  ASSUME NEW D, NEW at \in [D -> Item], NEW a \in D, NEW x \in D, NEW head \in D, NULL \in Ptr,
         NEW next \in Ptr, next # NULL => next \in D, NEW prev \in D, prev \in Ptr
  PROVE  Detached(D, at, DetachLinks(at, a, x, head, next, prev), a, x, head, next, prev)
<1> DEFINE at1 == ChildIf(x = head, at, a, next)
           at2 == NextIf(x # head, at1, prev, next)
           at3 == PrevIf(next # NULL, at2, next, prev)
           at4 == PrevIf(x # head /\ next = NULL, at3, head, prev)
           at5 == PrevIf(TRUE, at4, x, NULL)
           at6 == NextIf(TRUE, at5, x, NULL)
<1>1. ChildSet(D, at, at1, x = head, a, next)
  BY SetsChild
<1>2. at1 \in [D -> Item]
  BY <1>1 DEF ChildSet
<1> HIDE DEF at1
<1>3. NextSet(D, at1, at2, x # head, prev, next)
  BY <1>2, SetsNext
<1>4. at2 \in [D -> Item]
  BY <1>3 DEF NextSet
<1> HIDE DEF at2
<1>5. PrevSet(D, at2, at3, next # NULL, next, prev)
  BY <1>4, SetsPrev
<1>6. at3 \in [D -> Item]
  BY <1>5 DEF PrevSet
<1> HIDE DEF at3
<1>7. PrevSet(D, at3, at4, x # head /\ next = NULL, head, prev)
  BY <1>6, SetsPrev
<1>8. at4 \in [D -> Item]
  BY <1>7 DEF PrevSet
<1> HIDE DEF at4
<1>9. PrevSet(D, at4, at5, TRUE, x, NULL)
  BY <1>8, SetsPrev
<1>10. at5 \in [D -> Item]
  BY <1>9 DEF PrevSet
<1> HIDE DEF at5
<1>11. NextSet(D, at5, at6, TRUE, x, NULL)
  BY <1>10, SetsNext
<1> HIDE DEF at6
<1>12. Detached(D, at, at6, a, x, head, next, prev)
  BY <1>1, <1>3, <1>5, <1>7, <1>9, <1>11 DEF NextSet, PrevSet, ChildSet, Detached
<1> QED
  BY <1>12 DEF DetachLinks, at1, at2, at3, at4, at5, at6

\* The assignments of add_item_to_array.
AddLinks(e, at, a, x, head, tail) ==
  LET at1 == ChildIf(e, at, a, x)
      at2 == PrevIf(e, at1, x, x)
      at3 == NextIf(e, at2, x, NULL)
      at4 == NextIf(~e, at3, tail, x)
      at5 == PrevIf(~e, at4, x, tail)
      at6 == PrevIf(~e, at5, head, x)
  IN  at6

Added(D, at, at2, e, a, x, head, tail) ==
  /\ at2 \in [D -> Item]
  /\ \A m \in D :
       /\ at2[m].next = (IF e /\ m = x THEN NULL
                         ELSE IF ~e /\ m = tail THEN x
                         ELSE at[m].next)
       /\ at2[m].prev = (IF e /\ m = x THEN x
                         ELSE IF ~e /\ m = head THEN x
                         ELSE IF ~e /\ m = x THEN tail
                         ELSE at[m].prev)
       /\ at2[m].child = (IF e /\ m = a THEN x ELSE at[m].child)
       /\ Label(at2[m]) = Label(at[m])

LEMMA AddSets ==
  ASSUME NEW D, NEW at \in [D -> Item], NEW a \in D, NEW x \in D, x \in Ptr, NULL \in Ptr,
         NEW e \in BOOLEAN, NEW head, NEW tail, ~e => head \in D /\ tail \in D /\ tail \in Ptr
  PROVE  Added(D, at, AddLinks(e, at, a, x, head, tail), e, a, x, head, tail)
<1> DEFINE at1 == ChildIf(e, at, a, x)
           at2 == PrevIf(e, at1, x, x)
           at3 == NextIf(e, at2, x, NULL)
           at4 == NextIf(~e, at3, tail, x)
           at5 == PrevIf(~e, at4, x, tail)
           at6 == PrevIf(~e, at5, head, x)
<1>1. ChildSet(D, at, at1, e, a, x)
  BY SetsChild
<1>2. at1 \in [D -> Item]
  BY <1>1 DEF ChildSet
<1> HIDE DEF at1
<1>3. PrevSet(D, at1, at2, e, x, x)
  BY <1>2, SetsPrev
<1>4. at2 \in [D -> Item]
  BY <1>3 DEF PrevSet
<1> HIDE DEF at2
<1>5. NextSet(D, at2, at3, e, x, NULL)
  BY <1>4, SetsNext
<1>6. at3 \in [D -> Item]
  BY <1>5 DEF NextSet
<1> HIDE DEF at3
<1>7. NextSet(D, at3, at4, ~e, tail, x)
  BY <1>6, SetsNext
<1>8. at4 \in [D -> Item]
  BY <1>7 DEF NextSet
<1> HIDE DEF at4
<1>9. PrevSet(D, at4, at5, ~e, x, tail)
  BY <1>8, SetsPrev
<1>10. at5 \in [D -> Item]
  BY <1>9 DEF PrevSet
<1> HIDE DEF at5
<1>11. PrevSet(D, at5, at6, ~e, head, x)
  BY <1>10, SetsPrev
<1> HIDE DEF at6
<1>12. Added(D, at, at6, e, a, x, head, tail)
  BY <1>1, <1>3, <1>5, <1>7, <1>9, <1>11 DEF NextSet, PrevSet, ChildSet, Added
<1> QED
  BY <1>12 DEF AddLinks, at1, at2, at3, at4, at5, at6

\* The assignments of cJSON_InsertItemInArray.
InsertLinks(f, at, a, x, after, before) ==
  LET at1 == NextIf(TRUE, at, x, after)
      at2 == PrevIf(TRUE, at1, x, before)
      at3 == PrevIf(TRUE, at2, after, x)
      at4 == ChildIf(f, at3, a, x)
      at5 == NextIf(~f, at4, before, x)
  IN  at5

Inserted(D, at, at2, f, a, x, after, before) ==
  /\ at2 \in [D -> Item]
  /\ \A m \in D :
       /\ at2[m].next = (IF ~f /\ m = before THEN x
                         ELSE IF m = x THEN after
                         ELSE at[m].next)
       /\ at2[m].prev = (IF m = after THEN x
                         ELSE IF m = x THEN before
                         ELSE at[m].prev)
       /\ at2[m].child = (IF f /\ m = a THEN x ELSE at[m].child)
       /\ Label(at2[m]) = Label(at[m])

LEMMA InsertSets ==
  ASSUME NEW D, NEW at \in [D -> Item], NEW a \in D, NEW x \in D, x \in Ptr,
         NEW f \in BOOLEAN, NEW after \in D, after \in Ptr, NEW before \in D, before \in Ptr
  PROVE  Inserted(D, at, InsertLinks(f, at, a, x, after, before), f, a, x, after, before)
<1> DEFINE at1 == NextIf(TRUE, at, x, after)
           at2 == PrevIf(TRUE, at1, x, before)
           at3 == PrevIf(TRUE, at2, after, x)
           at4 == ChildIf(f, at3, a, x)
           at5 == NextIf(~f, at4, before, x)
<1>1. NextSet(D, at, at1, TRUE, x, after)
  BY SetsNext
<1>2. at1 \in [D -> Item]
  BY <1>1 DEF NextSet
<1> HIDE DEF at1
<1>3. PrevSet(D, at1, at2, TRUE, x, before)
  BY <1>2, SetsPrev
<1>4. at2 \in [D -> Item]
  BY <1>3 DEF PrevSet
<1> HIDE DEF at2
<1>5. PrevSet(D, at2, at3, TRUE, after, x)
  BY <1>4, SetsPrev
<1>6. at3 \in [D -> Item]
  BY <1>5 DEF PrevSet
<1> HIDE DEF at3
<1>7. ChildSet(D, at3, at4, f, a, x)
  BY <1>6, SetsChild
<1>8. at4 \in [D -> Item]
  BY <1>7 DEF ChildSet
<1> HIDE DEF at4
<1>9. NextSet(D, at4, at5, ~f, before, x)
  BY <1>8, SetsNext
<1> HIDE DEF at5
<1>10. Inserted(D, at, at5, f, a, x, after, before)
  BY <1>1, <1>3, <1>5, <1>7, <1>9 DEF NextSet, PrevSet, ChildSet, Inserted
<1> QED
  BY <1>10 DEF InsertLinks, at1, at2, at3, at4, at5

\* The assignments of cJSON_ReplaceItemViaPointer.
PutLinks(at, a, x, old, head, next, prev, only) ==
  LET at1 == NextIf(TRUE, at, x, next)
      at2 == PrevIf(TRUE, at1, x, prev)
      at3 == PrevIf(next # NULL, at2, next, x)
      at4 == ChildIf(head = old, at3, a, x)
      at5 == PrevIf(head = old /\ only, at4, x, x)
      at6 == NextIf(head # old, at5, prev, x)
      at7 == PrevIf(head # old /\ next = NULL, at6, head, x)
      at8 == NextIf(TRUE, at7, old, NULL)
      at9 == PrevIf(TRUE, at8, old, NULL)
  IN  at9

Put(D, at, at2, a, x, old, head, next, prev, only) ==
  /\ at2 \in [D -> Item]
  /\ \A m \in D :
       /\ at2[m].next = (IF m = old THEN NULL
                         ELSE IF head # old /\ m = prev THEN x
                         ELSE IF m = x THEN next
                         ELSE at[m].next)
       /\ at2[m].prev = (IF m = old THEN NULL
                         ELSE IF head # old /\ next = NULL /\ m = head THEN x
                         ELSE IF head = old /\ only /\ m = x THEN x
                         ELSE IF next # NULL /\ m = next THEN x
                         ELSE IF m = x THEN prev
                         ELSE at[m].prev)
       /\ at2[m].child = (IF head = old /\ m = a THEN x ELSE at[m].child)
       /\ Label(at2[m]) = Label(at[m])

LEMMA PutSets ==
  ASSUME NEW D, NEW at \in [D -> Item], NEW a \in D, NEW x \in D, x \in Ptr, NULL \in Ptr,
         NEW old \in D, NEW head \in D, NEW only \in BOOLEAN,
         NEW next \in Ptr, next # NULL => next \in D, NEW prev \in D, prev \in Ptr
  PROVE  Put(D, at, PutLinks(at, a, x, old, head, next, prev, only), a, x, old, head, next, prev, only)
<1> DEFINE at1 == NextIf(TRUE, at, x, next)
           at2 == PrevIf(TRUE, at1, x, prev)
           at3 == PrevIf(next # NULL, at2, next, x)
           at4 == ChildIf(head = old, at3, a, x)
           at5 == PrevIf(head = old /\ only, at4, x, x)
           at6 == NextIf(head # old, at5, prev, x)
           at7 == PrevIf(head # old /\ next = NULL, at6, head, x)
           at8 == NextIf(TRUE, at7, old, NULL)
           at9 == PrevIf(TRUE, at8, old, NULL)
<1>1. NextSet(D, at, at1, TRUE, x, next)
  BY SetsNext
<1>2. at1 \in [D -> Item]
  BY <1>1 DEF NextSet
<1> HIDE DEF at1
<1>3. PrevSet(D, at1, at2, TRUE, x, prev)
  BY <1>2, SetsPrev
<1>4. at2 \in [D -> Item]
  BY <1>3 DEF PrevSet
<1> HIDE DEF at2
<1>5. PrevSet(D, at2, at3, next # NULL, next, x)
  BY <1>4, SetsPrev
<1>6. at3 \in [D -> Item]
  BY <1>5 DEF PrevSet
<1> HIDE DEF at3
<1>7. ChildSet(D, at3, at4, head = old, a, x)
  BY <1>6, SetsChild
<1>8. at4 \in [D -> Item]
  BY <1>7 DEF ChildSet
<1> HIDE DEF at4
<1>9. PrevSet(D, at4, at5, head = old /\ only, x, x)
  BY <1>8, SetsPrev
<1>10. at5 \in [D -> Item]
  BY <1>9 DEF PrevSet
<1> HIDE DEF at5
<1>11. NextSet(D, at5, at6, head # old, prev, x)
  BY <1>10, SetsNext
<1>12. at6 \in [D -> Item]
  BY <1>11 DEF NextSet
<1> HIDE DEF at6
<1>13. PrevSet(D, at6, at7, head # old /\ next = NULL, head, x)
  BY <1>12, SetsPrev
<1>14. at7 \in [D -> Item]
  BY <1>13 DEF PrevSet
<1> HIDE DEF at7
<1>15. NextSet(D, at7, at8, TRUE, old, NULL)
  BY <1>14, SetsNext
<1>16. at8 \in [D -> Item]
  BY <1>15 DEF NextSet
<1> HIDE DEF at8
<1>17. PrevSet(D, at8, at9, TRUE, old, NULL)
  BY <1>16, SetsPrev
<1> HIDE DEF at9
<1>18. Put(D, at, at9, a, x, old, head, next, prev, only)
  BY <1>1, <1>3, <1>5, <1>7, <1>9, <1>11, <1>13, <1>15, <1>17 DEF NextSet, PrevSet, ChildSet, Put
<1> QED
  BY <1>18 DEF PutLinks, at1, at2, at3, at4, at5, at6, at7, at8, at9

\* What is linked, item by item.
LEMMA LinkedItems ==
  ASSUME NEW D, NEW at, NEW a, NEW s \in Seq(D)
  PROVE  Linked(at, a, s) <=>
           /\ at[a].child = IF Len(s) = 0 THEN NULL ELSE s[1]
           /\ \A i \in 1 .. Len(s) : /\ at[s[i]].next = IF i = Len(s) THEN NULL ELSE s[i + 1]
                                     /\ at[s[i]].prev = IF i = 1 THEN s[Len(s)] ELSE s[i - 1]
<1>1. DOMAIN s = 1 .. Len(s) /\ ((s = <<>>) <=> (Len(s) = 0))
  OBVIOUS
<1> QED
  BY <1>1 DEF Linked

LEMMA LinkItems ==
  ASSUME NEW D, NEW at \in [D -> Item], NEW a \in D, NEW s \in Seq(D), NEW n \in Nat, Len(s) = n,
         at[a].child = IF n = 0 THEN NULL ELSE s[1],
         \A i \in 1 .. n : /\ at[s[i]].next = IF i = n THEN NULL ELSE s[i + 1]
                           /\ at[s[i]].prev = IF i = 1 THEN s[n] ELSE s[i - 1]
  PROVE  Linked(at, a, s)
BY LinkedItems

\* The same about Edit.
LEMMA EditItems ==
  ASSUME NEW D, NEW at \in [D -> Item], NEW at2 \in [D -> Item], NEW a \in D,
         NEW s \in Seq(D), NEW t \in Seq(D), Linked(at2, a, t),
         \A m \in D : /\ Label(at2[m]) = Label(at[m])
                      /\ m # a => at2[m].child = at[m].child,
         \A m \in D : (\A i \in 1 .. Len(s) : s[i] # m) /\ (\A i \in 1 .. Len(t) : t[i] # m) =>
           at2[m].next = at[m].next /\ at2[m].prev = at[m].prev,
         \A i \in 1 .. Len(s) : (\A j \in 1 .. Len(t) : t[j] # s[i]) => LinkedToNothing(at2, s[i])
  PROVE  Edit(at, at2, a, s, t)
<1>1. \A m : m \in ToSet(s) <=> \E i \in 1 .. Len(s) : s[i] = m
  BY InSet
<1>2. \A m : m \in ToSet(t) <=> \E i \in 1 .. Len(t) : t[i] = m
  BY InSet
<1>3. DOMAIN at = D
  OBVIOUS
<1> QED
  BY <1>1, <1>2, <1>3 DEF Edit

-----------------------------------------------------------------------------
(* What the calls do to a list.                                            *)

\* What the links of a list say about the item at k.
LEMMA ItemLinks ==
  ASSUME NEW D, D \subseteq Ptr, NULL \notin D, NEW at, NEW a,
         NEW s \in Seq(D), Once(s), Linked(at, a, s), NEW k \in 1 .. Len(s)
  PROVE  /\ Len(s) \in Nat /\ 1 \in 1 .. Len(s) /\ Len(s) \in 1 .. Len(s)
         /\ \A i \in 1 .. Len(s) : s[i] \in D /\ s[i] \in Ptr /\ s[i] # NULL
         /\ \A i, j \in 1 .. Len(s) : s[i] = s[j] => i = j
         /\ at[a].child = s[1]
         /\ \A i \in 1 .. Len(s) : /\ at[s[i]].next = IF i = Len(s) THEN NULL ELSE s[i + 1]
                                   /\ at[s[i]].prev = IF i = 1 THEN s[Len(s)] ELSE s[i - 1]
         /\ (at[s[k]].next = NULL) <=> (k = Len(s))
         /\ at[s[k]].next # NULL => at[s[k]].next \in D /\ at[s[k]].next \in Ptr
         /\ at[s[k]].prev \in D /\ at[s[k]].prev \in Ptr /\ at[s[k]].prev # NULL
<1>1. Len(s) \in Nat /\ 1 \in 1 .. Len(s) /\ Len(s) \in 1 .. Len(s) /\ DOMAIN s = 1 .. Len(s)
  OBVIOUS
<1>2. \A i \in 1 .. Len(s) : s[i] \in D
  BY <1>1
<1>3. \A i \in 1 .. Len(s) : s[i] \in D /\ s[i] \in Ptr /\ s[i] # NULL
  BY <1>2
<1>4. \A i, j \in 1 .. Len(s) : s[i] = s[j] => i = j
  BY <1>1 DEF Once
<1>5. /\ at[a].child = s[1]
      /\ \A i \in 1 .. Len(s) : /\ at[s[i]].next = IF i = Len(s) THEN NULL ELSE s[i + 1]
                                /\ at[s[i]].prev = IF i = 1 THEN s[Len(s)] ELSE s[i - 1]
  <2>1. s # <<>>
    BY <1>1
  <2> QED
    BY <1>1, <2>1 DEF Linked
<1>6. (k # Len(s) => k + 1 \in 1 .. Len(s)) /\ (k # 1 => k - 1 \in 1 .. Len(s))
  <2> DEFINE n == Len(s)
  <2>1. n \in Nat /\ k \in 1 .. n
    BY <1>1
  <2> HIDE DEF n
  <2>2. (k # n => k + 1 \in 1 .. n) /\ (k # 1 => k - 1 \in 1 .. n)
    BY <2>1
  <2> QED
    BY <2>2 DEF n
<1>7. /\ at[s[k]].next = (IF k = Len(s) THEN NULL ELSE s[k + 1])
      /\ at[s[k]].prev = (IF k = 1 THEN s[Len(s)] ELSE s[k - 1])
  BY <1>5
<1>8. /\ (at[s[k]].next = NULL) <=> (k = Len(s))
      /\ at[s[k]].next # NULL => at[s[k]].next \in D /\ at[s[k]].next \in Ptr
  BY <1>3, <1>6, <1>7
<1>9. at[s[k]].prev \in D /\ at[s[k]].prev \in Ptr /\ at[s[k]].prev # NULL
  BY <1>1, <1>3, <1>6, <1>7
<1> QED
  BY <1>1, <1>3, <1>4, <1>5, <1>8, <1>9

LEMMA Detaches ==
  ASSUME NEW D, D \subseteq Ptr, NULL \notin D, NULL \in Ptr, NEW at \in [D -> Item], NEW a \in D,
         NEW s \in Seq(D), Once(s), Linked(at, a, s), NEW k \in 1 .. Len(s), NEW strings, NEW fuel
  PROVE  Edit(at, cJSON_DetachItemViaPointer(Mem(at, strings, fuel), a, s[k]).h.at, a, s, RemoveAt(s, k))
<1> DEFINE n    == Len(s)
           x    == s[k]
           head == s[1]
           next == at[x].next
           prev == at[x].prev
           t    == RemoveAt(s, k)
           at2  == DetachLinks(at, a, x, head, next, prev)
<1>1. /\ n \in Nat /\ k \in 1 .. n /\ 1 \in 1 .. n /\ n \in 1 .. n
      /\ \A i \in 1 .. n : s[i] \in D /\ s[i] \in Ptr /\ s[i] # NULL
      /\ \A i, j \in 1 .. n : s[i] = s[j] => i = j
      /\ at[a].child = head
      /\ \A i \in 1 .. n : /\ at[s[i]].next = IF i = n THEN NULL ELSE s[i + 1]
                           /\ at[s[i]].prev = IF i = 1 THEN s[n] ELSE s[i - 1]
  BY ItemLinks
<1>2. /\ (next = NULL) <=> (k = n)
      /\ next # NULL => next \in D /\ next \in Ptr
      /\ prev \in D /\ prev \in Ptr /\ prev # NULL
  BY ItemLinks
<1>3. ((x = head) <=> (k = 1)) /\ x \in D /\ x # NULL /\ head \in D /\ a # NULL
  BY <1>1
<1>4. cJSON_DetachItemViaPointer(Mem(at, strings, fuel), a, x).h.at = at2
  <2> DEFINE h  == Mem(at, strings, fuel)
             nx == h.at[x].next
             pv == h.at[x].prev
             hd == h.at[a].child
             h1 == IF x = hd THEN [h EXCEPT !.at[a].child = nx]
                   ELSE [h EXCEPT !.at[pv].next = nx]
             h2 == IF nx = NULL THEN h1 ELSE [h1 EXCEPT !.at[nx].prev = pv]
             h3 == IF x # hd /\ nx = NULL THEN [h2 EXCEPT !.at[hd].prev = pv] ELSE h2
             h4 == [h3 EXCEPT !.at[x].prev = NULL, !.at[x].next = NULL]
             at3 == ChildIf(x = head, at, a, next)
             at4 == NextIf(x # head, at3, prev, next)
             at5 == PrevIf(next # NULL, at4, next, prev)
             at6 == PrevIf(x # head /\ next = NULL, at5, head, prev)
  <2>1. cJSON_DetachItemViaPointer(h, a, x).h = h4
    BY <1>3 DEF cJSON_DetachItemViaPointer
  <2>2. nx = next /\ pv = prev /\ hd = head
    BY <1>1 DEF Mem
  <2> HIDE DEF x, head, next, prev, nx, pv, hd
  <2>3. h1 = Mem(at4, strings, fuel)
    BY <2>2 DEF Mem, ChildIf, NextIf
  <2> HIDE DEF h1, at4
  <2>4. h2 = Mem(at5, strings, fuel)
    BY <2>2, <2>3 DEF Mem, PrevIf
  <2> HIDE DEF h2, at5
  <2>5. h3 = Mem(at6, strings, fuel)
    BY <2>2, <2>4 DEF Mem, PrevIf
  <2> HIDE DEF h3, at6
  <2>6. h4.at = NextIf(TRUE, PrevIf(TRUE, at6, x, NULL), x, NULL)
    BY <2>5 DEF Mem, PrevIf, NextIf
  <2>7. DetachLinks(at, a, x, head, next, prev) = NextIf(TRUE, PrevIf(TRUE, at6, x, NULL), x, NULL)
    BY DEF DetachLinks, at4, at5, at6
  <2> QED
    BY <2>1, <2>6, <2>7
<1>5. Detached(D, at, at2, a, x, head, next, prev)
  <2> HIDE DEF x, head, next, prev
  <2>1. /\ x \in D /\ head \in D /\ next \in Ptr /\ (next # NULL => next \in D)
        /\ prev \in D /\ prev \in Ptr
    BY <1>2, <1>3
  <2> QED
    BY <2>1, DetachSets
<1> HIDE DEF at2
<1>6. /\ t \in Seq(D) /\ Len(t) = n - 1
      /\ \A i \in 1 .. n - 1 : t[i] = IF i < k THEN s[i] ELSE s[i + 1]
  BY RemoveItems
<1>7. /\ next = IF k = n THEN NULL ELSE s[k + 1]
      /\ prev = IF k = 1 THEN s[n] ELSE s[k - 1]
  BY <1>1
<1> HIDE DEF t, n
<1>8. ASSUME NEW j \in 1 .. n, j # k
      PROVE  /\ s[j] \in D /\ s[j] # x
             /\ at2[s[j]].next = (IF j = k - 1 THEN next ELSE IF j = n THEN NULL ELSE s[j + 1])
             /\ at2[s[j]].prev = (IF k = n /\ j = 1 THEN prev ELSE IF j = k + 1 THEN prev
                                  ELSE IF j = 1 THEN s[n] ELSE s[j - 1])
  <2>1. s[j] \in D /\ s[j] # x
    BY <1>1, <1>8
  <2>2. (s[j] = head) <=> (j = 1)
    BY <1>1
  <2>3. x # head => ((s[j] = prev) <=> (j = k - 1))
    BY <1>1, <1>3, <1>7
  <2>4. next # NULL => ((s[j] = next) <=> (j = k + 1))
    BY <1>1, <1>2, <1>7
  <2>5. /\ at2[s[j]].next = (IF x # head /\ s[j] = prev THEN next ELSE at[s[j]].next)
        /\ at2[s[j]].prev = (IF x # head /\ next = NULL /\ s[j] = head THEN prev
                             ELSE IF next # NULL /\ s[j] = next THEN prev ELSE at[s[j]].prev)
    BY <1>5, <2>1 DEF Detached
  <2>6. /\ at[s[j]].next = IF j = n THEN NULL ELSE s[j + 1]
        /\ at[s[j]].prev = IF j = 1 THEN s[n] ELSE s[j - 1]
    BY <1>1
  <2> HIDE DEF x, head, next, prev
  <2>7. at2[s[j]].next = (IF j = k - 1 THEN next ELSE IF j = n THEN NULL ELSE s[j + 1])
    BY <1>1, <1>3, <2>3, <2>5, <2>6
  <2>8. at2[s[j]].prev = (IF k = n /\ j = 1 THEN prev ELSE IF j = k + 1 THEN prev
                          ELSE IF j = 1 THEN s[n] ELSE s[j - 1])
    BY <1>1, <1>2, <1>3, <1>8, <2>2, <2>4, <2>5, <2>6
  <2> QED
    BY <2>1, <2>7, <2>8
<1> HIDE DEF x, head, next, prev
<1>9. at2[a].child = IF n - 1 = 0 THEN NULL ELSE t[1]
  BY <1>1, <1>2, <1>3, <1>5, <1>6, <1>7 DEF head, Detached
<1>10. ASSUME NEW i \in 1 .. n - 1
       PROVE  /\ at2[t[i]].next = IF i = n - 1 THEN NULL ELSE t[i + 1]
              /\ at2[t[i]].prev = IF i = 1 THEN t[n - 1] ELSE t[i - 1]
  <2>1. CASE i < k
    <3>1. i \in 1 .. n /\ i # k /\ t[i] = s[i]
      BY <1>1, <1>6, <2>1
    <3>2. i # n - 1 => t[i + 1] = IF i + 1 < k THEN s[i + 1] ELSE s[i + 2]
      BY <1>1, <1>6
    <3>3. i # 1 => t[i - 1] = s[i - 1]
      BY <1>1, <1>6, <2>1
    <3>4. t[n - 1] = IF k = n THEN s[n - 1] ELSE s[n]
      BY <1>1, <1>6
    <3>5. at2[s[i]].next = IF i = n - 1 THEN NULL ELSE t[i + 1]
      BY <1>1, <1>7, <1>8, <2>1, <3>1, <3>2
    <3>6. at2[s[i]].prev = IF i = 1 THEN t[n - 1] ELSE t[i - 1]
      BY <1>1, <1>7, <1>8, <2>1, <3>1, <3>3, <3>4
    <3> QED
      BY <3>1, <3>5, <3>6
  <2>2. CASE i >= k
    <3>1. i + 1 \in 1 .. n /\ i + 1 # k /\ t[i] = s[i + 1] /\ k # n
      BY <1>1, <1>6, <2>2
    <3>2. i # n - 1 => t[i + 1] = s[i + 2]
      BY <1>1, <1>6, <2>2
    <3>3. i # 1 => t[i - 1] = IF i = k THEN s[i - 1] ELSE s[i]
      BY <1>1, <1>6, <2>2
    <3>4. t[n - 1] = s[n]
      BY <1>1, <1>6, <3>1
    <3>5. at2[s[i + 1]].next = IF i = n - 1 THEN NULL ELSE t[i + 1]
      BY <1>1, <1>8, <2>2, <3>1, <3>2, SMTT(30)
    <3>6. at2[s[i + 1]].prev = IF i = 1 THEN t[n - 1] ELSE t[i - 1]
      BY <1>1, <1>7, <1>8, <2>2, <3>1, <3>3, <3>4
    <3> QED
      BY <3>1, <3>5, <3>6
  <2> QED
    BY <1>1, <2>1, <2>2
<1>11. Linked(at2, a, t)
  <2>1. n - 1 \in Nat
    BY <1>1
  <2> QED
    BY <1>5, <1>6, <1>9, <1>10, <2>1, LinkItems DEF Detached
<1>12. ASSUME NEW m \in D, \A i \in 1 .. n : s[i] # m
       PROVE  at2[m].next = at[m].next /\ at2[m].prev = at[m].prev
  <2>1. m # x /\ m # head
    <3>1. n \in Nat /\ k \in 1 .. n /\ 1 \in 1 .. n
      BY <1>1
    <3>2. s[k] # m /\ s[1] # m
      BY <1>12, <3>1
    <3> QED
      BY <3>2 DEF x, head
  <2>2. k # 1 => k - 1 \in 1 .. n
    BY <1>1
  <2>3. k # n => k + 1 \in 1 .. n
    BY <1>1
  <2> HIDE DEF x, head, next, prev
  <2>4. m # prev
    BY <1>1, <1>7, <1>12, <2>2
  <2>5. next # NULL => m # next
    BY <1>7, <1>12, <2>3
  <2> QED
    BY <1>5, <2>1, <2>4, <2>5 DEF Detached
<1>13. ASSUME NEW i \in 1 .. n, \A j \in 1 .. n - 1 : t[j] # s[i]
       PROVE  LinkedToNothing(at2, s[i])
  <2>1. i = k
    <3>1. CASE i < k
      BY <1>1, <1>6, <1>13, <3>1
    <3>2. CASE i > k
      <4>1. i - 1 \in 1 .. n - 1 /\ t[i - 1] = s[i]
        BY <1>1, <1>6, <3>2
      <4> QED
        BY <1>13, <4>1
    <3> QED
      BY <1>1, <3>1, <3>2
  <2> QED
    BY <1>3, <1>5, <2>1 DEF LinkedToNothing, x, Detached
<1>14. ASSUME NEW m \in D PROVE Label(at2[m]) = Label(at[m]) /\ (m # a => at2[m].child = at[m].child)
  BY <1>5 DEF Detached
<1>15. Edit(at, at2, a, s, t)
  BY <1>5, <1>6, <1>11, <1>12, <1>13, <1>14, EditItems DEF n, Detached
<1> QED
  BY <1>4, <1>15 DEF t, x

LEMMA Adds ==
  ASSUME NEW D, D \subseteq Ptr, NULL \notin D, NULL \in Ptr, NEW at \in [D -> Item], NEW a \in D,
         NEW s \in Seq(D), Once(s), Linked(at, a, s), NEW x \in D, x # a, x \notin ToSet(s),
         LinkedToNothing(at, x), NEW strings, NEW fuel
  PROVE  Edit(at, add_item_to_array(Mem(at, strings, fuel), a, x).h.at, a, s, Append(s, x))
<1> DEFINE n    == Len(s)
           e    == n = 0
           head == at[a].child
           tail == at[head].prev
           t    == Append(s, x)
           at2  == AddLinks(e, at, a, x, head, tail)
<1>1. n \in Nat /\ e \in BOOLEAN /\ a # NULL /\ x # NULL /\ x \in Ptr
  OBVIOUS
<1>2. /\ head = IF e THEN NULL ELSE s[1]
      /\ \A i \in 1 .. n : /\ at[s[i]].next = IF i = n THEN NULL ELSE s[i + 1]
                           /\ at[s[i]].prev = IF i = 1 THEN s[n] ELSE s[i - 1]
  BY LinkedItems
<1>3. /\ \A i \in 1 .. n : s[i] \in D /\ s[i] \in Ptr /\ s[i] # NULL /\ s[i] # x
      /\ \A i, j \in 1 .. n : s[i] = s[j] => i = j
  <2>1. \A i \in 1 .. n : s[i] \in D /\ s[i] # x
    BY InSet
  <2>2. DOMAIN s = 1 .. n
    OBVIOUS
  <2> QED
    BY <2>1, <2>2 DEF Once
<1>4. ~e => /\ 1 \in 1 .. n /\ n \in 1 .. n /\ head = s[1] /\ tail = s[n]
            /\ head \in D /\ tail \in D /\ tail \in Ptr /\ head # NULL /\ tail # NULL
            /\ head # x /\ tail # x
  <2> SUFFICES ASSUME ~e
      PROVE  /\ 1 \in 1 .. n /\ n \in 1 .. n /\ head = s[1] /\ tail = s[n]
             /\ head \in D /\ tail \in D /\ tail \in Ptr /\ head # NULL /\ tail # NULL
             /\ head # x /\ tail # x
    OBVIOUS
  <2> HIDE DEF head, tail
  <2>1. 1 \in 1 .. n /\ n \in 1 .. n
    BY <1>1
  <2>2. head = s[1] /\ tail = s[n]
    BY <1>2, <2>1 DEF tail
  <2> QED
    BY <1>3, <2>1, <2>2
<1>5. add_item_to_array(Mem(at, strings, fuel), a, x).h.at = at2
  <2> DEFINE h == Mem(at, strings, fuel)
  <2>1. h.at = at
    BY DEF Mem
  <2>2. CASE e
    <3>1. add_item_to_array(h, a, x).h =
            [h EXCEPT !.at[a].child = x, !.at[x].prev = x, !.at[x].next = NULL]
      BY <1>1, <1>2, <2>1, <2>2 DEF add_item_to_array
    <3> QED
      BY <2>2, <3>1 DEF Mem, AddLinks, ChildIf, PrevIf, NextIf
  <2>3. CASE ~e
    <3>1. h.at[a].child # NULL /\ h.at[h.at[a].child].prev # NULL
      BY <1>4, <2>1, <2>3
    <3>2. add_item_to_array(h, a, x).h =
            [suffix_object(h, h.at[h.at[a].child].prev, x) EXCEPT !.at[h.at[a].child].prev = x]
      BY <1>1, <3>1 DEF add_item_to_array
    <3>3. add_item_to_array(h, a, x).h = [suffix_object(h, tail, x) EXCEPT !.at[head].prev = x]
      BY <2>1, <3>2
    <3> DEFINE h1  == [h EXCEPT !.at[tail].next = x]
               at3 == NextIf(TRUE, at, tail, x)
               at4 == PrevIf(TRUE, at3, x, tail)
    <3> HIDE DEF head, tail
    <3>4. suffix_object(h, tail, x) = Mem(at4, strings, fuel)
      <4>1. suffix_object(h, tail, x) = [h1 EXCEPT !.at[x].prev = tail]
        BY DEF suffix_object
      <4>2. h1 = Mem(at3, strings, fuel)
        BY DEF Mem, NextIf
      <4> HIDE DEF h1, at3
      <4>3. [h1 EXCEPT !.at[x].prev = tail] = Mem(at4, strings, fuel)
        BY <4>2 DEF Mem, PrevIf
      <4> QED
        BY <4>1, <4>3
    <3> HIDE DEF h, at4
    <3>5. [Mem(at4, strings, fuel) EXCEPT !.at[head].prev = x].at = PrevIf(TRUE, at4, head, x)
      BY DEF Mem, PrevIf
    <3>6. AddLinks(e, at, a, x, head, tail) = PrevIf(TRUE, at4, head, x)
      BY <2>3 DEF AddLinks, at4, NextIf, PrevIf, ChildIf
    <3> QED
      BY <3>3, <3>4, <3>5, <3>6 DEF h
  <2> QED
    BY <2>2, <2>3
<1>6. Added(D, at, at2, e, a, x, head, tail)
  <2> HIDE DEF head, tail, e
  <2> QED
    BY <1>1, <1>4, AddSets
<1> HIDE DEF at2, head, tail
<1>7. /\ t \in Seq(D) /\ Len(t) = n + 1 /\ n + 1 \in Nat
      /\ \A i \in 1 .. n + 1 : t[i] = IF i = n + 1 THEN x ELSE s[i]
  BY <1>1, AppendItems
<1>8. t[n + 1] = x /\ \A i \in 1 .. n : t[i] = s[i]
  BY <1>1, <1>7
<1> HIDE DEF t, n
<1>9. ASSUME NEW i \in 1 .. n
      PROVE  /\ at2[s[i]].next = (IF i = n THEN x ELSE s[i + 1])
             /\ at2[s[i]].prev = (IF i = 1 THEN x ELSE s[i - 1])
  <2>1. ~e /\ s[i] \in D /\ s[i] # x
    BY <1>1, <1>3
  <2>2. (s[i] = tail <=> i = n) /\ (s[i] = head <=> i = 1)
    BY <1>3, <1>4, <2>1
  <2>3. /\ at2[s[i]].next = (IF s[i] = tail THEN x ELSE at[s[i]].next)
        /\ at2[s[i]].prev = (IF s[i] = head THEN x ELSE at[s[i]].prev)
    BY <1>6, <2>1 DEF Added
  <2> QED
    BY <1>2, <2>2, <2>3
<1>10. at2[x].next = NULL /\ at2[x].prev = (IF e THEN x ELSE s[n])
  BY <1>4, <1>6 DEF Added, LinkedToNothing
<1>11. at2[a].child = t[1]
  <2>1. at2[a].child = IF e THEN x ELSE head
    BY <1>6 DEF Added, head
  <2> QED
    BY <1>1, <1>4, <1>8, <2>1
<1>12. ASSUME NEW i \in 1 .. n + 1
       PROVE  /\ at2[t[i]].next = IF i = n + 1 THEN NULL ELSE t[i + 1]
              /\ at2[t[i]].prev = IF i = 1 THEN t[n + 1] ELSE t[i - 1]
  <2>1. CASE i = n + 1
    <3>1. t[i] = x /\ (i = 1 <=> e) /\ (i # 1 => t[i - 1] = s[n])
      BY <1>1, <1>4, <1>8, <2>1
    <3> QED
      BY <1>8, <1>10, <2>1, <3>1
  <2>2. CASE i # n + 1
    <3>1. i \in 1 .. n /\ t[i] = s[i] /\ (i # 1 => t[i - 1] = s[i - 1])
      BY <1>1, <1>8, <2>2
    <3>2. t[i + 1] = IF i = n THEN x ELSE s[i + 1]
      BY <1>1, <1>8, <3>1
    <3>3. /\ at2[s[i]].next = (IF i = n THEN x ELSE s[i + 1])
          /\ at2[s[i]].prev = (IF i = 1 THEN x ELSE s[i - 1])
      BY <1>9, <3>1
    <3> QED
      BY <1>8, <2>2, <3>1, <3>2, <3>3
  <2> QED
    BY <2>1, <2>2
<1>13. at2 \in [D -> Item] /\ Linked(at2, a, t)
  <2>1. at2 \in [D -> Item]
    BY <1>6 DEF Added
  <2>2. at2[a].child = IF n + 1 = 0 THEN NULL ELSE t[1]
    BY <1>1, <1>11
  <2> QED
    BY <1>7, <1>12, <2>1, <2>2, LinkItems
<1>14. ASSUME NEW m \in D, \A i \in 1 .. n : s[i] # m, \A i \in 1 .. n + 1 : t[i] # m
       PROVE  at2[m].next = at[m].next /\ at2[m].prev = at[m].prev
  <2>1. m # x /\ (~e => m # head /\ m # tail)
    BY <1>1, <1>4, <1>8, <1>14
  <2> QED
    BY <1>6, <2>1 DEF Added
<1>15. ASSUME NEW i \in 1 .. n, \A j \in 1 .. n + 1 : t[j] # s[i] PROVE LinkedToNothing(at2, s[i])
  BY <1>1, <1>8, <1>15
<1>16. ASSUME NEW m \in D PROVE Label(at2[m]) = Label(at[m]) /\ (m # a => at2[m].child = at[m].child)
  BY <1>6 DEF Added
<1>17. Edit(at, at2, a, s, t)
  <2>1. Len(s) = n /\ Len(t) = n + 1
    BY <1>7 DEF n
  <2>2. \A m \in D : (\A i \in 1 .. Len(s) : s[i] # m) /\ (\A i \in 1 .. Len(t) : t[i] # m) =>
          at2[m].next = at[m].next /\ at2[m].prev = at[m].prev
    BY <1>14, <2>1
  <2>3. \A i \in 1 .. Len(s) : (\A j \in 1 .. Len(t) : t[j] # s[i]) => LinkedToNothing(at2, s[i])
    BY <1>15, <2>1
  <2> QED
    BY <1>7, <1>13, <1>16, <2>2, <2>3, EditItems
<1> QED
  BY <1>5, <1>17 DEF t

LEMMA Inserts ==
  ASSUME NEW D, D \subseteq Ptr, NULL \notin D, NULL \in Ptr, NEW at \in [D -> Item], NEW a \in D,
         NEW s \in Seq(D), Once(s), Linked(at, a, s), NEW x \in D, x # a, x \notin ToSet(s),
         NEW k \in 1 .. Len(s), NEW strings, NEW fuel
  PROVE  Edit(at, cJSON_InsertItemInArray(Mem(at, strings, fuel), a, k - 1, x).h.at, a, s, InsertAt(s, k, x))
<1> DEFINE n      == Len(s)
           after  == s[k]
           before == at[after].prev
           f      == k = 1
           t      == InsertAt(s, k, x)
           at2    == InsertLinks(f, at, a, x, after, before)
<1>1. /\ n \in Nat /\ k \in 1 .. n /\ 1 \in 1 .. n /\ n \in 1 .. n
      /\ \A i \in 1 .. n : s[i] \in D /\ s[i] \in Ptr /\ s[i] # NULL
      /\ \A i, j \in 1 .. n : s[i] = s[j] => i = j
      /\ at[a].child = s[1]
      /\ \A i \in 1 .. n : /\ at[s[i]].next = IF i = n THEN NULL ELSE s[i + 1]
                           /\ at[s[i]].prev = IF i = 1 THEN s[n] ELSE s[i - 1]
  BY ItemLinks
<1>2. \A i \in 1 .. n : s[i] # x
  BY InSet
<1>3. /\ after \in D /\ after \in Ptr /\ after # NULL /\ (after = s[1] <=> f)
      /\ before \in D /\ before \in Ptr /\ before = (IF f THEN s[n] ELSE s[k - 1])
      /\ f \in BOOLEAN /\ x \in Ptr /\ x # before /\ x # after
  <2>1. after \in D /\ after \in Ptr /\ after # NULL /\ (after = s[1] <=> f) /\ x # after
    BY <1>1, <1>2
  <2>2. before = (IF f THEN s[n] ELSE s[k - 1]) /\ (~f => k - 1 \in 1 .. n)
    BY <1>1
  <2> HIDE DEF before, after
  <2>3. before \in D /\ before \in Ptr /\ x # before
    BY <1>1, <1>2, <2>2
  <2> QED
    BY <2>1, <2>2, <2>3
<1>4. get_array_item(Mem(at, strings, fuel), a, k - 1) = after
  <2>1. Mem(at, strings, fuel).at = at /\ DOMAIN at = D
    BY DEF Mem
  <2>2. k - 1 \in Nat /\ k - 1 < n /\ s[k - 1 + 1] = after
    BY <1>1
  <2> HIDE DEF after
  <2>3. /\ s \in Seq(DOMAIN Mem(at, strings, fuel).at) /\ Linked(Mem(at, strings, fuel).at, a, s)
        /\ 0 \notin DOMAIN Mem(at, strings, fuel).at
    BY <2>1 DEF NULL
  <2> QED
    BY <2>2, <2>3, GetsItem
<1>5. cJSON_InsertItemInArray(Mem(at, strings, fuel), a, k - 1, x).h.at = at2
  <2> DEFINE h  == Mem(at, strings, fuel)
             bf == h.at[after].prev
             hd == h.at[a].child
             h1 == [h EXCEPT !.at[x].next = after, !.at[x].prev = bf, !.at[after].prev = x]
             at3 == NextIf(TRUE, at, x, after)
             at4 == PrevIf(TRUE, at3, x, before)
             at5 == PrevIf(TRUE, at4, after, x)
  <2>1. ~(k - 1 < 0)
    BY <1>1
  <2>2. cJSON_InsertItemInArray(h, a, k - 1, x).h =
          IF after = hd THEN [h1 EXCEPT !.at[a].child = x] ELSE [h1 EXCEPT !.at[bf].next = x]
    <3> DEFINE g  == get_array_item(h, a, k - 1)
               g1 == [h EXCEPT !.at[x].next = g, !.at[x].prev = h.at[g].prev, !.at[g].prev = x]
    <3> HIDE DEF h, after, hd
    <3>1. g = after /\ g # NULL
      BY <1>3, <1>4 DEF h
    <3>2. cJSON_InsertItemInArray(h, a, k - 1, x).h =
            IF g = h.at[a].child THEN [g1 EXCEPT !.at[a].child = x]
            ELSE [g1 EXCEPT !.at[h.at[g].prev].next = x]
      <4> DEFINE v == IF g = h.at[a].child THEN [g1 EXCEPT !.at[a].child = x]
                      ELSE [g1 EXCEPT !.at[h.at[g].prev].next = x]
      <4>1. cJSON_InsertItemInArray(h, a, k - 1, x) = [h |-> v, r |-> TRUE]
        BY <2>1, <3>1, Zenon DEF cJSON_InsertItemInArray
      <4>2. v = IF g = h.at[a].child THEN [g1 EXCEPT !.at[a].child = x]
                ELSE [g1 EXCEPT !.at[h.at[g].prev].next = x]
        OBVIOUS
      <4> HIDE DEF v
      <4>3. cJSON_InsertItemInArray(h, a, k - 1, x).h = v
        BY <4>1
      <4> HIDE DEF g1, g
      <4> QED
        BY <4>2, <4>3, Zenon
    <3>3. g1 = h1
      BY <3>1
    <3> HIDE DEF g1, h1, g
    <3> QED
      BY <3>1, <3>2, <3>3 DEF hd
  <2>3. bf = before /\ (after = hd <=> f)
    BY <1>1, <1>3 DEF Mem
  <2> HIDE DEF after, before, bf, hd, f
  <2>4. h1 = Mem(at5, strings, fuel)
    <3> DEFINE g1 == [h EXCEPT !.at[x].next = after]
               g2 == [g1 EXCEPT !.at[x].prev = bf]
    <3>1. g1 = Mem(at3, strings, fuel)
      BY DEF Mem, NextIf
    <3> HIDE DEF at3
    <3>2. h1 = [g2 EXCEPT !.at[after].prev = x]
      BY DEF h1
    <3> HIDE DEF g1
    <3>3. g2 = Mem(at4, strings, fuel)
      BY <2>3, <3>1 DEF Mem, PrevIf
    <3> HIDE DEF g2, at4
    <3> QED
      BY <3>2, <3>3, SMTT(30) DEF Mem, PrevIf
  <2> HIDE DEF h1, at5
  <2>5. InsertLinks(f, at, a, x, after, before) = NextIf(~f, ChildIf(f, at5, a, x), before, x)
    BY DEF InsertLinks, at5
  <2>6. CASE f
    BY <2>2, <2>3, <2>4, <2>5, <2>6 DEF Mem, NextIf, ChildIf
  <2>7. CASE ~f
    BY <2>2, <2>3, <2>4, <2>5, <2>7 DEF Mem, NextIf, ChildIf
  <2> QED
    BY <2>6, <2>7
<1>6. Inserted(D, at, at2, f, a, x, after, before)
  <2> HIDE DEF after, before, f
  <2> QED
    BY <1>3, InsertSets
<1> HIDE DEF at2
<1>7. /\ t \in Seq(D) /\ Len(t) = n + 1 /\ n + 1 \in Nat
      /\ \A i \in 1 .. n + 1 : t[i] = IF i < k THEN s[i] ELSE IF i = k THEN x ELSE s[i - 1]
  BY InsertBefore
<1> HIDE DEF t, n
<1>8. ASSUME NEW j \in 1 .. n
      PROVE  /\ at2[s[j]].next = (IF j = k - 1 THEN x ELSE IF j = n THEN NULL ELSE s[j + 1])
             /\ at2[s[j]].prev = (IF j = k THEN x ELSE IF j = 1 THEN s[n] ELSE s[j - 1])
  <2>1. s[j] \in D /\ s[j] # x
    BY <1>1, <1>2
  <2>2. s[j] = after <=> j = k
    BY <1>1
  <2>3. ~f => (s[j] = before <=> j = k - 1)
    BY <1>1, <1>3
  <2>4. f => j # k - 1
    OBVIOUS
  <2>5. /\ at2[s[j]].next = (IF ~f /\ s[j] = before THEN x ELSE at[s[j]].next)
        /\ at2[s[j]].prev = (IF s[j] = after THEN x ELSE at[s[j]].prev)
    BY <1>6, <2>1 DEF Inserted
  <2>6. /\ at[s[j]].next = IF j = n THEN NULL ELSE s[j + 1]
        /\ at[s[j]].prev = IF j = 1 THEN s[n] ELSE s[j - 1]
    BY <1>1
  <2> HIDE DEF after, before, f
  <2> QED
    BY <2>2, <2>3, <2>4, <2>5, <2>6
<1>9. at2[x].next = s[k] /\ at2[x].prev = IF k = 1 THEN s[n] ELSE s[k - 1]
  <2>1. at2[x].next = after /\ at2[x].prev = before
    BY <1>3, <1>6 DEF Inserted
  <2> QED
    BY <1>3, <2>1
<1>10. at2[a].child = t[1]
  <2>1. at2[a].child = (IF f THEN x ELSE s[1])
    BY <1>1, <1>6 DEF Inserted
  <2>2. 1 \in 1 .. n + 1
    BY <1>1
  <2>3. t[1] = (IF 1 < k THEN s[1] ELSE IF 1 = k THEN x ELSE s[1 - 1])
    BY <1>7, <2>2
  <2>4. t[1] = (IF f THEN x ELSE s[1])
    BY <1>1, <2>3
  <2> QED
    BY <2>1, <2>4
<1>11. ASSUME NEW i \in 1 .. n + 1
       PROVE  /\ at2[t[i]].next = IF i = n + 1 THEN NULL ELSE t[i + 1]
              /\ at2[t[i]].prev = IF i = 1 THEN t[n + 1] ELSE t[i - 1]
  <2>1. t[n + 1] = s[n]
    <3>1. PICK q \in Nat : q = n + 1
      BY <1>7
    <3> HIDE DEF after, before, f
    <3>2. n \in Nat /\ k \in 1 .. n
      BY <1>1
    <3>3. q \in 1 .. n + 1 /\ ~(q < k) /\ q # k /\ q - 1 = n
      BY <3>1, <3>2
    <3>4. t[q] = s[q - 1]
      BY <1>7, <3>3
    <3>5. t[q] = s[n]
      BY <3>4, <3>3
    <3> QED
      BY <3>1, <3>5, Zenon
  <2>2. CASE i < k
    <3>1. i \in 1 .. n /\ i # n + 1 /\ t[i] = s[i] /\ (i # 1 => t[i - 1] = s[i - 1])
      BY <1>1, <1>7, <2>2
    <3>2. t[i + 1] = IF i = k - 1 THEN x ELSE s[i + 1]
      BY <1>1, <1>7, <2>2
    <3>3. (i = k - 1 \/ i # n) /\ i # k
      BY <1>1, <2>2
    <3> QED
      BY <1>8, <2>1, <3>1, <3>2, <3>3
  <2>3. CASE i = k
    <3>1. t[i] = x /\ t[i + 1] = s[k] /\ i # n + 1 /\ (i # 1 => t[i - 1] = s[k - 1])
      BY <1>1, <1>7, <2>3
    <3> QED
      BY <1>9, <2>1, <2>3, <3>1
  <2>4. CASE i > k
    <3>1. i - 1 \in 1 .. n /\ i # 1 /\ t[i] = s[i - 1] /\ (i # n + 1 => t[i + 1] = s[i])
      BY <1>1, <1>7, <2>4
    <3>2. t[i - 1] = IF i - 1 = k THEN x ELSE s[i - 2]
      BY <1>1, <1>7, <2>4
    <3>3. i - 1 # k - 1 /\ (i - 1 = n <=> i = n + 1) /\ i - 1 + 1 = i /\ i - 1 - 1 = i - 2
          /\ (i - 1 = 1 => i - 1 = k)
      BY <1>1, <2>4
    <3> QED
      BY <1>8, <3>1, <3>2, <3>3
  <2> QED
    BY <1>1, <2>2, <2>3, <2>4
<1>12. at2 \in [D -> Item] /\ Linked(at2, a, t)
  <2>1. at2 \in [D -> Item]
    BY <1>6 DEF Inserted
  <2>2. at2[a].child = IF n + 1 = 0 THEN NULL ELSE t[1]
    BY <1>1, <1>10
  <2> QED
    BY <1>7, <1>11, <2>1, <2>2, LinkItems
<1>13. ASSUME NEW m \in D, \A i \in 1 .. n : s[i] # m, \A i \in 1 .. n + 1 : t[i] # m
       PROVE  at2[m].next = at[m].next /\ at2[m].prev = at[m].prev
  <2>1. m # after /\ (~f => m # before)
    <3>1. ~f => k - 1 \in 1 .. n
      BY <1>1
    <3> QED
      BY <1>1, <1>3, <1>13, <3>1
  <2>2. m # x
    <3>1. k \in 1 .. n + 1 /\ t[k] = x
      BY <1>1, <1>7
    <3> QED
      BY <1>13, <3>1
  <2> QED
    BY <1>6, <2>1, <2>2 DEF Inserted
<1>14. ASSUME NEW i \in 1 .. n, \A j \in 1 .. n + 1 : t[j] # s[i] PROVE LinkedToNothing(at2, s[i])
  <2>1. (i < k => t[i] = s[i]) /\ (i >= k => t[i + 1] = s[i]) /\ i \in 1 .. n + 1 /\ i + 1 \in 1 .. n + 1
    BY <1>1, <1>7
  <2> QED
    BY <1>1, <1>14, <2>1
<1>15. ASSUME NEW m \in D PROVE Label(at2[m]) = Label(at[m]) /\ (m # a => at2[m].child = at[m].child)
  BY <1>6 DEF Inserted
<1>16. Edit(at, at2, a, s, t)
  <2>1. Len(s) = n /\ Len(t) = n + 1
    BY <1>7 DEF n
  <2>2. \A m \in D : (\A i \in 1 .. Len(s) : s[i] # m) /\ (\A i \in 1 .. Len(t) : t[i] # m) =>
          at2[m].next = at[m].next /\ at2[m].prev = at[m].prev
    BY <1>13, <2>1
  <2>3. \A i \in 1 .. Len(s) : (\A j \in 1 .. Len(t) : t[j] # s[i]) => LinkedToNothing(at2, s[i])
    BY <1>14, <2>1
  <2> QED
    BY <1>7, <1>12, <1>15, <2>2, <2>3, EditItems
<1> QED
  BY <1>5, <1>16 DEF t

\* A field may be set to what it is.
LEMMA SetsPrevOrNot ==
  ASSUME NEW D, NEW at \in [D -> Item], NEW n \in D, NEW c \in BOOLEAN, NEW v, NEW strings, NEW fuel
  PROVE  [Mem(at, strings, fuel) EXCEPT !.at[n].prev = IF c THEN v ELSE @] =
           Mem(PrevIf(c, at, n, v), strings, fuel)
<1> DEFINE w == IF c THEN v ELSE at[n].prev
<1>1. [Mem(at, strings, fuel) EXCEPT !.at[n].prev = IF c THEN v ELSE @] =
        Mem([at EXCEPT ![n].prev = w], strings, fuel)
  BY DEF Mem
<1>2. [at EXCEPT ![n].prev = w] = PrevIf(c, at, n, v)
  <2>1. CASE c
    BY <2>1 DEF PrevIf
  <2>2. CASE ~c
    <3>1. [at[n] EXCEPT !.prev = at[n].prev] = at[n]
      BY DEF Item
    <3>2. [at EXCEPT ![n].prev = w] = [at EXCEPT ![n] = [at[n] EXCEPT !.prev = at[n].prev]]
      BY <2>2
    <3>3. [at EXCEPT ![n] = at[n]] = at
      OBVIOUS
    <3> QED
      BY <2>2, <3>1, <3>2, <3>3 DEF PrevIf
  <2> QED
    BY <2>1, <2>2
<1> QED
  BY <1>1, <1>2

LEMMA PutMoves ==
  ASSUME NEW D, NEW at \in [D -> Item], NEW a \in D, NEW x \in D, x \in Ptr, NULL \in Ptr, NULL \notin D,
         NEW old \in D, at[a].child \in D, at[old].next # NULL => at[old].next \in D, at[old].prev \in D,
         x # at[a].child, at[a].child = old => at[old].next # old, NEW strings, NEW fuel
  PROVE  PutInPlace(Mem(at, strings, fuel), a, old, x).at =
           PutLinks(at, a, x, old, at[a].child, at[old].next, at[old].prev,
                    at[at[a].child].prev = at[a].child)
<1> DEFINE h     == Mem(at, strings, fuel)
           i     == h.at[old]
           head  == h.at[a].child
           h1    == [h EXCEPT !.at[x].next = i.next, !.at[x].prev = i.prev]
           h2    == IF i.next = NULL THEN h1 ELSE [h1 EXCEPT !.at[i.next].prev = x]
           first == [h2 EXCEPT !.at[a].child = x,
                               !.at[x].prev = IF h2.at[head].prev = head THEN x ELSE @]
           inner == IF i.prev = NULL THEN h2 ELSE [h2 EXCEPT !.at[i.prev].next = x]
           h3    == IF head = old THEN first
                    ELSE IF i.next = NULL THEN [inner EXCEPT !.at[head].prev = x]
                    ELSE inner
           h4    == [h3 EXCEPT !.at[old].next = NULL]
           next  == at[old].next
           prev  == at[old].prev
           only  == at[head].prev = head
           at1   == NextIf(TRUE, at, x, next)
           at2   == PrevIf(TRUE, at1, x, prev)
           at3   == PrevIf(next # NULL, at2, next, x)
           at4   == ChildIf(head = old, at3, a, x)
           at5   == PrevIf(head = old /\ only, at4, x, x)
           at6   == NextIf(head # old, at5, prev, x)
           at7   == PrevIf(head # old /\ next = NULL, at6, head, x)
           at8   == NextIf(TRUE, at7, old, NULL)
           at9   == PrevIf(TRUE, at8, old, NULL)
<1>1. h.at = at /\ head = at[a].child /\ i.next = next /\ i.prev = prev
  BY DEF Mem
<1>2. head \in D /\ (next # NULL => next \in D) /\ prev \in D /\ prev # NULL
      /\ x # head /\ (head = old => next # old)
  BY <1>1
<1>3. PutInPlace(h, a, old, x) = [h4 EXCEPT !.at[old].prev = NULL]
  BY DEF PutInPlace
<1>4. h1 = Mem(at2, strings, fuel)
  <2> DEFINE g == [h EXCEPT !.at[x].next = next]
  <2>1. h1 = [g EXCEPT !.at[x].prev = prev]
    BY <1>1
  <2>2. g = Mem(at1, strings, fuel)
    BY DEF Mem, NextIf
  <2> HIDE DEF g, at1, h1, next, prev
  <2>3. [Mem(at1, strings, fuel) EXCEPT !.at[x].prev = prev] = Mem(at2, strings, fuel)
    BY DEF Mem, PrevIf
  <2> QED
    BY <2>1, <2>2, <2>3
<1> HIDE DEF h4
<1>5. h2 = Mem(at3, strings, fuel)
  <2> HIDE DEF h1, at2, i, next
  <2> QED
    BY <1>1, <1>4 DEF Mem, PrevIf
<1>6. at1 \in [D -> Item] /\ at2 \in [D -> Item] /\ at3 \in [D -> Item] /\ at4 \in [D -> Item]
      /\ NextSet(D, at, at1, TRUE, x, next) /\ PrevSet(D, at1, at2, TRUE, x, prev)
      /\ PrevSet(D, at2, at3, next # NULL, next, x)
      /\ ChildSet(D, at3, at4, head = old, a, x)
  <2> HIDE DEF h, head, next, prev
  <2>1. next \in Ptr /\ prev \in Ptr
    <3>1. at[old] \in Item
      OBVIOUS
    <3> QED
      BY <3>1 DEF Item, next, prev
  <2>2. NextSet(D, at, at1, TRUE, x, next)
    BY <2>1, SetsNext
  <2>3. at1 \in [D -> Item]
    BY <2>2 DEF NextSet
  <2> HIDE DEF at1
  <2>4. PrevSet(D, at1, at2, TRUE, x, prev)
    BY <2>1, <2>3, SetsPrev
  <2>5. at2 \in [D -> Item]
    BY <2>4 DEF PrevSet
  <2> HIDE DEF at2
  <2>6. PrevSet(D, at2, at3, next # NULL, next, x)
    BY <1>2, <2>5, SetsPrev
  <2>7. at3 \in [D -> Item]
    BY <2>6 DEF PrevSet
  <2> HIDE DEF at3
  <2>8. ChildSet(D, at3, at4, head = old, a, x)
    BY <2>7, SetsChild
  <2>9. at4 \in [D -> Item]
    BY <2>8 DEF ChildSet
  <2> QED
    BY <2>2, <2>3, <2>4, <2>5, <2>6, <2>7, <2>8, <2>9
<1>7. head = old => ((h2.at[head].prev = head) <=> only)
  <2> SUFFICES ASSUME head = old PROVE at3[head].prev = at[head].prev
    BY <1>5 DEF Mem
  <2> HIDE DEF at1, at2, at3, head, next, prev
  <2> QED
    BY <1>2, <1>6 DEF NextSet, PrevSet
<1> HIDE DEF h1, h2, at1, at2, at3
<1>8. h3 = Mem(at7, strings, fuel)
  <2> HIDE DEF next, prev, i, only
  <2>1. CASE head = old
    <3> DEFINE g == [h2 EXCEPT !.at[a].child = x]
               c == h2.at[head].prev = head
    <3>1. first = [g EXCEPT !.at[x].prev = IF c THEN x ELSE @]
      OBVIOUS
    <3>2. c = only
      BY <1>7, <2>1 DEF only
    <3>3. g = Mem(at4, strings, fuel)
      <4> HIDE DEF head
      <4> QED
        BY <1>5, <2>1 DEF Mem, ChildIf
    <3> HIDE DEF g, c, first, head, at4
    <3>4. first = Mem(PrevIf(only, at4, x, x), strings, fuel)
      <4>1. only \in BOOLEAN
        BY DEF only
      <4> QED
        BY <1>6, <3>1, <3>2, <3>3, <4>1, SetsPrevOrNot
    <3>5. at7 = PrevIf(only, at4, x, x)
      BY <2>1 DEF PrevIf, NextIf
    <3> QED
      BY <2>1, <3>4, <3>5
  <2>2. CASE head # old
    <3> HIDE DEF first, head
    <3>1. inner = [Mem(at3, strings, fuel) EXCEPT !.at[prev].next = x]
      BY <1>1, <1>2, <1>5
    <3>2. at6 = NextIf(TRUE, at3, prev, x)
      BY <2>2 DEF ChildIf, PrevIf, NextIf
    <3>3. inner = Mem(at6, strings, fuel)
      <4> HIDE DEF inner, at6
      <4> QED
        BY <3>1, <3>2 DEF Mem, NextIf
    <3> HIDE DEF inner, at6
    <3> QED
      BY <1>1, <2>2, <3>3 DEF Mem, PrevIf
  <2> QED
    BY <2>1, <2>2
<1> HIDE DEF h3, at7
<1>9. h4 = Mem(at8, strings, fuel)
  BY <1>8 DEF Mem, NextIf, h4
<1> HIDE DEF at8
<1>10. [h4 EXCEPT !.at[old].prev = NULL].at = at9
  BY <1>9 DEF Mem, PrevIf
<1>11. PutLinks(at, a, x, old, head, next, prev, only) = at9
  BY DEF PutLinks, at8, at7, at3, at2, at1
<1> QED
  BY <1>1, <1>3, <1>10, <1>11

LEMMA Puts ==
  ASSUME NEW D, D \subseteq Ptr, NULL \notin D, NULL \in Ptr, NEW at \in [D -> Item], NEW a \in D,
         NEW s \in Seq(D), Once(s), Linked(at, a, s), NEW x \in D, x \notin ToSet(s),
         NEW k \in 1 .. Len(s), NEW strings, NEW fuel
  PROVE  Edit(at, PutInPlace(Mem(at, strings, fuel), a, s[k], x).at, a, s, ReplaceAt(s, k, x))
<1> DEFINE n    == Len(s)
           old  == s[k]
           head == at[a].child
           next == at[old].next
           prev == at[old].prev
           only == at[head].prev = head
           t    == ReplaceAt(s, k, x)
           at2  == PutLinks(at, a, x, old, head, next, prev, only)
<1>1. /\ n \in Nat /\ k \in 1 .. n /\ 1 \in 1 .. n /\ n \in 1 .. n
      /\ \A i \in 1 .. n : s[i] \in D /\ s[i] \in Ptr /\ s[i] # NULL
      /\ \A i, j \in 1 .. n : s[i] = s[j] => i = j
      /\ head = s[1]
      /\ \A i \in 1 .. n : /\ at[s[i]].next = IF i = n THEN NULL ELSE s[i + 1]
                           /\ at[s[i]].prev = IF i = 1 THEN s[n] ELSE s[i - 1]
      /\ (next = NULL) <=> (k = n)
      /\ next # NULL => next \in D /\ next \in Ptr
      /\ prev \in D /\ prev \in Ptr /\ prev # NULL
  BY ItemLinks
<1>2. \A i \in 1 .. n : s[i] # x
  BY InSet
<1> HIDE DEF at2
<1>3. n \in Nat /\ k \in 1 .. n
  BY <1>1
<1> HIDE DEF n
<1>4. /\ next = (IF k = n THEN NULL ELSE s[k + 1])
      /\ prev = (IF k = 1 THEN s[n] ELSE s[k - 1])
      /\ (k # n => k + 1 \in 1 .. n) /\ (k # 1 => k - 1 \in 1 .. n)
  BY <1>1, <1>3
<1>5. old \in D /\ (head = old <=> k = 1) /\ head \in D /\ x # head /\ x # prev /\ x # next /\ x # old
      /\ next # old
  <2>1. old \in D /\ (head = old <=> k = 1) /\ head \in D /\ x # head /\ x # old /\ old # NULL
    BY <1>1, <1>2
  <2> HIDE DEF old, head
  <2>2. k # n => next = s[k + 1] /\ k + 1 # k /\ k + 1 \in 1 .. n
    BY <1>3, <1>4
  <2>3. next # old
    BY <1>1, <1>3, <1>4, <2>1, <2>2 DEF old
  <2> HIDE DEF next, prev
  <2>4. x # next /\ x # prev
    BY <1>1, <1>2, <1>3, <1>4
  <2> QED
    BY <2>1, <2>3, <2>4
<1>6. only <=> n = 1
  BY <1>1
<1>7. PutInPlace(Mem(at, strings, fuel), a, old, x).at = at2
  <2> HIDE DEF old
  <2>1. /\ x \in Ptr /\ old \in D /\ at[a].child \in D
        /\ at[old].next # NULL => at[old].next \in D
        /\ at[old].prev \in D /\ x # at[a].child
        /\ at[a].child = old => at[old].next # old
    BY <1>1, <1>5
  <2>2. at2 = PutLinks(at, a, x, old, at[a].child, at[old].next, at[old].prev,
                       at[at[a].child].prev = at[a].child)
    BY Zenon DEF at2
  <2> QED
    BY <2>1, <2>2, PutMoves
<1>8. Put(D, at, at2, a, x, old, head, next, prev, only)
  <2>1. /\ x \in Ptr /\ only \in BOOLEAN /\ next \in Ptr
        /\ next # NULL => next \in D
        /\ prev \in D /\ prev \in Ptr /\ old \in D /\ head \in D
    BY <1>1, <1>5
  <2> HIDE DEF old, head, next, prev, only
  <2> QED
    BY <2>1, PutSets DEF at2
<1>9. /\ t \in Seq(D) /\ Len(t) = n
      /\ \A i \in 1 .. n : t[i] = IF i = k THEN x ELSE s[i]
  BY ReplaceItems DEF n
<1> HIDE DEF t
<1>10. ASSUME NEW j \in 1 .. n, j # k
       PROVE  /\ at2[s[j]].next = (IF j = k - 1 THEN x ELSE IF j = n THEN NULL ELSE s[j + 1])
              /\ at2[s[j]].prev = (IF j = 1 THEN IF k = n THEN x ELSE s[n]
                                   ELSE IF j = k + 1 THEN x ELSE s[j - 1])
  <2>1. s[j] \in D /\ s[j] # x /\ s[j] # old
    BY <1>1, <1>2, <1>10
  <2>2. (head # old /\ s[j] = prev) <=> j = k - 1
    <3>1. k # 1 => (s[j] = s[k - 1] <=> j = k - 1)
      BY <1>1, <1>4
    <3>2. j # 1 - 1
      BY <1>3
    <3> HIDE DEF head, old, prev
    <3> QED
      BY <1>4, <1>5, <3>1, <3>2
  <2>3. (head # old /\ next = NULL /\ s[j] = head) <=> (j = 1 /\ k = n)
    <3>1. (next = NULL) <=> (k = n)
      BY <1>1
    <3>2. s[j] = head <=> j = 1
      BY <1>1
    <3> HIDE DEF head, old, next
    <3> QED
      BY <1>5, <1>10, <3>1, <3>2
  <2>4. (next # NULL /\ s[j] = next) <=> j = k + 1
    <3>1. k # n => (s[j] = s[k + 1] <=> j = k + 1)
      BY <1>1, <1>4
    <3>2. k = n => j # k + 1
      BY <1>3
    <3>3. (next = NULL) <=> (k = n)
      BY <1>1
    <3> HIDE DEF next
    <3> QED
      BY <1>4, <3>1, <3>2, <3>3
  <2>5. /\ at2[s[j]].next = (IF head # old /\ s[j] = prev THEN x ELSE at[s[j]].next)
        /\ at2[s[j]].prev = (IF head # old /\ next = NULL /\ s[j] = head THEN x
                             ELSE IF next # NULL /\ s[j] = next THEN x ELSE at[s[j]].prev)
    <3> HIDE DEF head, old, next, prev, only
    <3> QED
      BY <1>8, <2>1 DEF Put
  <2>6. /\ at[s[j]].next = IF j = n THEN NULL ELSE s[j + 1]
        /\ at[s[j]].prev = IF j = 1 THEN s[n] ELSE s[j - 1]
    BY <1>1
  <2>7. j = 1 => j # k + 1
    BY <1>3
  <2> HIDE DEF head, old, next, prev, only
  <2> QED
    BY <2>2, <2>3, <2>4, <2>5, <2>6, <2>7
<1>11. /\ at2[x].next = (IF k = n THEN NULL ELSE s[k + 1])
       /\ at2[x].prev = (IF n = 1 THEN x ELSE IF k = 1 THEN s[n] ELSE s[k - 1])
  <2> HIDE DEF head, old, next, prev, only
  <2>1. at2[x].next = next /\ at2[x].prev = IF head = old /\ only THEN x ELSE prev
    BY <1>5, <1>8 DEF Put
  <2>2. n = 1 => k = 1
    BY <1>3
  <2> QED
    BY <1>4, <1>5, <1>6, <2>1, <2>2
<1>12. at2[a].child = t[1]
  <2> HIDE DEF old, next, prev, only
  <2>1. at2[a].child = (IF head = old THEN x ELSE head)
    BY <1>8 DEF Put
  <2> HIDE DEF head
  <2>2. t[1] = IF 1 = k THEN x ELSE s[1]
    BY <1>1, <1>9
  <2> QED
    BY <1>1, <1>5, <2>1, <2>2
<1> HIDE DEF head, next, prev, only
<1>13. ASSUME NEW i \in 1 .. n
       PROVE  /\ at2[t[i]].next = IF i = n THEN NULL ELSE t[i + 1]
              /\ at2[t[i]].prev = IF i = 1 THEN t[n] ELSE t[i - 1]
  <2>1. t[n] = IF n = k THEN x ELSE s[n]
    BY <1>1, <1>9
  <2>2. t[i] = IF i = k THEN x ELSE s[i]
    BY <1>9
  <2>3. i # n => t[i + 1] = IF i = k - 1 THEN x ELSE s[i + 1]
    <3> SUFFICES ASSUME i # n PROVE t[i + 1] = IF i = k - 1 THEN x ELSE s[i + 1]
      OBVIOUS
    <3>1. i + 1 \in 1 .. n /\ (i + 1 = k <=> i = k - 1)
      BY <1>3
    <3> QED
      BY <1>9, <3>1
  <2>4. i # 1 => t[i - 1] = IF i = k + 1 THEN x ELSE s[i - 1]
    <3> SUFFICES ASSUME i # 1 PROVE t[i - 1] = IF i = k + 1 THEN x ELSE s[i - 1]
      OBVIOUS
    <3>1. i - 1 \in 1 .. n /\ (i - 1 = k <=> i = k + 1)
      BY <1>3
    <3> QED
      BY <1>9, <3>1
  <2>5. (i = k => i # k - 1 /\ i # k + 1) /\ (n = 1 => k = 1) /\ (i = k - 1 => i # n)
        /\ (k = 1 /\ k = n => n = 1)
    BY <1>3
  <2>6. CASE i = k
    BY <1>11, <2>1, <2>2, <2>3, <2>4, <2>5, <2>6
  <2>7. CASE i # k
    BY <1>10, <2>1, <2>2, <2>3, <2>4, <2>5, <2>7
  <2> QED
    BY <2>6, <2>7
<1>14. at2 \in [D -> Item] /\ Linked(at2, a, t)
  <2>1. at2 \in [D -> Item]
    BY <1>8 DEF Put
  <2>2. at2[a].child = IF n = 0 THEN NULL ELSE t[1]
    BY <1>3, <1>12
  <2> QED
    BY <1>3, <1>9, <1>13, <2>1, <2>2, LinkItems
<1>15. ASSUME NEW m \in D, \A i \in 1 .. n : s[i] # m, \A i \in 1 .. n : t[i] # m
       PROVE  at2[m].next = at[m].next /\ at2[m].prev = at[m].prev
  <2>1. m # x /\ m # old
    BY <1>3, <1>9, <1>15
  <2>2. m # head /\ m # prev /\ m # next
    <3>1. m # head /\ m # prev
      BY <1>1, <1>4, <1>15
    <3>2. next # NULL => m # next
      BY <1>1, <1>4, <1>15
    <3> QED
      BY <3>1, <3>2
  <2> HIDE DEF old
  <2> QED
    BY <1>8, <2>1, <2>2 DEF Put
<1>16. ASSUME NEW i \in 1 .. n, \A j \in 1 .. n : t[j] # s[i] PROVE LinkedToNothing(at2, s[i])
  <2>1. i = k
    BY <1>9, <1>16
  <2>2. at2[old].next = NULL /\ at2[old].prev = NULL
    <3> HIDE DEF old
    <3> QED
      BY <1>5, <1>8 DEF Put
  <2> QED
    BY <2>1, <2>2 DEF LinkedToNothing
<1>17. ASSUME NEW m \in D PROVE Label(at2[m]) = Label(at[m]) /\ (m # a => at2[m].child = at[m].child)
  <2> HIDE DEF old
  <2> QED
    BY <1>8 DEF Put
<1>18. Edit(at, at2, a, s, t)
  <2>1. Len(s) = n /\ Len(t) = n
    BY <1>9 DEF n
  <2>2. \A m \in D : (\A i \in 1 .. Len(s) : s[i] # m) /\ (\A i \in 1 .. Len(t) : t[i] # m) =>
          at2[m].next = at[m].next /\ at2[m].prev = at[m].prev
    BY <1>15, <2>1
  <2>3. \A i \in 1 .. Len(s) : (\A j \in 1 .. Len(t) : t[j] # s[i]) => LinkedToNothing(at2, s[i])
    BY <1>16, <2>1
  <2> QED
    BY <1>9, <1>14, <1>17, <2>2, <2>3, EditItems
<1> QED
  BY <1>7, <1>18 DEF t


-----------------------------------------------------------------------------
(* Every call keeps the memory sound.                                      *)

LEMMA SoundFacts ==
  ASSUME NEW at, NEW ls, Sound(at, ls)
  PROVE  /\ DOMAIN at = DOMAIN ls /\ at \in [DOMAIN ls -> Item]
         /\ ls \in [DOMAIN ls -> Seq(DOMAIN ls)]
         /\ DOMAIN ls \subseteq Node /\ DOMAIN ls \subseteq Ptr /\ NULL \notin DOMAIN ls /\ NULL \in Ptr
         /\ \A c \in DOMAIN ls : /\ Once(ls[c])
                                 /\ at[c].ref => ls[c] = <<>>
                                 /\ ~at[c].ref => Linked(at, c, ls[c])
<1>1. /\ at \in [DOMAIN ls -> Item] /\ ls \in [DOMAIN ls -> Seq(DOMAIN ls)] /\ DOMAIN ls \subseteq Node
  BY DEF Sound, Typed
<1>2. NULL \notin Node
  BY DEF NULL, Node
<1>3. \A c \in DOMAIN ls : Once(ls[c])
  BY <1>1, ApartSets DEF Sound
<1> QED
  BY <1>1, <1>2, <1>3 DEF Sound, Chained, Ptr

LEMMA AddSound ==
  ASSUME NEW at, NEW ls, Sound(at, ls), NEW a \in DOMAIN ls, NEW x \in DOMAIN ls, ~at[a].ref,
         Root(ls, x), a \notin Below(ls, x), NEW strings, NEW fuel
  PROVE  LET at2 == add_item_to_array(Mem(at, strings, fuel), a, x).h.at
         IN  Sound(at2, [ls EXCEPT ![a] = Append(@, x)]) /\ SameLabels(at, at2)
<1> DEFINE D == DOMAIN ls
           s == ls[a]
           t == Append(s, x)
           at2 == add_item_to_array(Mem(at, strings, fuel), a, x).h.at
<1>1. /\ D \subseteq Ptr /\ NULL \notin D /\ NULL \in Ptr /\ at \in [D -> Item] /\ s \in Seq(D)
      /\ Once(s) /\ Linked(at, a, s) /\ ls \in [D -> Seq(D)]
  BY SoundFacts
<1>2. x \in Below(ls, x)
  BY <1>1, BelowClosed
<1>3. x # a /\ x \notin ToSet(s) /\ LinkedToNothing(at, x)
  BY <1>2 DEF Root, Sound, RootsLoose
<1>4. Edit(at, at2, a, s, t)
  <2> HIDE DEF D, s
  <2> QED
    BY <1>1, <1>3, Adds DEF D
<1>5. t \in Seq(D) /\ Once(t) /\ ToSet(t) \subseteq ToSet(s) \cup {x}
  <2> HIDE DEF D, s
  <2> QED
    BY <1>1, <1>3, AppendOnce DEF D
<1>6. [ls EXCEPT ![a] = Append(@, x)] = [ls EXCEPT ![a] = t]
  OBVIOUS
<1> HIDE DEF t, at2
<1>7. \A y \in {x} : Root(ls, y) /\ a \notin Below(ls, y)
  OBVIOUS
<1>8. {x} \in SUBSET DOMAIN ls
  OBVIOUS
<1>9. Sound(at2, [ls EXCEPT ![a] = t])
  BY <1>4, <1>5, <1>7, <1>8, EditKeeps
<1>10. SameLabels(at, at2)
  BY <1>1, <1>4 DEF Edit, SameLabels
<1> QED
  BY <1>6, <1>9, <1>10 DEF at2

LEMMA InsertSound ==
  ASSUME NEW at, NEW ls, Sound(at, ls), NEW a \in DOMAIN ls, NEW x \in DOMAIN ls, ~at[a].ref,
         Root(ls, x), a \notin Below(ls, x), NEW k \in 1 .. Len(ls[a]), NEW strings, NEW fuel
  PROVE  LET at2 == cJSON_InsertItemInArray(Mem(at, strings, fuel), a, k - 1, x).h.at
         IN  Sound(at2, [ls EXCEPT ![a] = InsertAt(@, k, x)]) /\ SameLabels(at, at2)
<1> DEFINE D == DOMAIN ls
           s == ls[a]
           t == InsertAt(s, k, x)
           at2 == cJSON_InsertItemInArray(Mem(at, strings, fuel), a, k - 1, x).h.at
<1>1. /\ D \subseteq Ptr /\ NULL \notin D /\ NULL \in Ptr /\ at \in [D -> Item] /\ s \in Seq(D)
      /\ Once(s) /\ Linked(at, a, s) /\ ls \in [D -> Seq(D)]
  BY SoundFacts
<1>2. x \in Below(ls, x)
  BY <1>1, BelowClosed
<1>3. x # a /\ x \notin ToSet(s)
  BY <1>2 DEF Root
<1>4. k \in 1 .. Len(s)
  OBVIOUS
<1>5. Edit(at, at2, a, s, t)
  <2> HIDE DEF D, s
  <2> QED
    BY <1>1, <1>3, <1>4, Inserts DEF D
<1>6. t \in Seq(D) /\ Once(t) /\ ToSet(t) \subseteq ToSet(s) \cup {x}
  <2>1. k \in 1 .. Len(s) + 1
    BY <1>1
  <2> HIDE DEF D, s
  <2> QED
    BY <1>1, <1>3, <2>1, InsertOnce DEF D
<1>7. [ls EXCEPT ![a] = InsertAt(@, k, x)] = [ls EXCEPT ![a] = t]
  OBVIOUS
<1> HIDE DEF t, at2
<1>8. \A y \in {x} : Root(ls, y) /\ a \notin Below(ls, y)
  OBVIOUS
<1>9. {x} \in SUBSET DOMAIN ls
  OBVIOUS
<1>10. Sound(at2, [ls EXCEPT ![a] = t])
  BY <1>5, <1>6, <1>8, <1>9, EditKeeps
<1>11. SameLabels(at, at2)
  BY <1>1, <1>5 DEF Edit, SameLabels
<1> QED
  BY <1>7, <1>10, <1>11 DEF at2


LEMMA DetachSound ==
  ASSUME NEW at, NEW ls, Sound(at, ls), NEW a \in DOMAIN ls, ~at[a].ref, NEW k \in 1 .. Len(ls[a]),
         NEW strings, NEW fuel
  PROVE  LET at2 == cJSON_DetachItemViaPointer(Mem(at, strings, fuel), a, ls[a][k]).h.at
         IN  Sound(at2, [ls EXCEPT ![a] = RemoveAt(@, k)]) /\ SameLabels(at, at2)
<1> DEFINE D == DOMAIN ls
           s == ls[a]
           t == RemoveAt(s, k)
           at2 == cJSON_DetachItemViaPointer(Mem(at, strings, fuel), a, s[k]).h.at
<1>1. /\ D \subseteq Ptr /\ NULL \notin D /\ NULL \in Ptr /\ at \in [D -> Item] /\ s \in Seq(D)
      /\ Once(s) /\ Linked(at, a, s) /\ ls \in [D -> Seq(D)]
  BY SoundFacts
<1>2. k \in 1 .. Len(s)
  OBVIOUS
<1>3. Edit(at, at2, a, s, t)
  <2> HIDE DEF D, s
  <2> QED
    BY <1>1, <1>2, Detaches DEF D
<1>4. t \in Seq(D) /\ Once(t) /\ ToSet(t) \subseteq ToSet(s) \cup {}
  <2> HIDE DEF D, s
  <2>1. NULL \notin ToSet(s)
    BY <1>1, InSet
  <2> QED
    BY <1>1, <1>2, <2>1, RemoveOnce
<1>5. [ls EXCEPT ![a] = RemoveAt(@, k)] = [ls EXCEPT ![a] = t]
  OBVIOUS
<1> HIDE DEF t, at2
<1>6. \A y \in {} : Root(ls, y) /\ a \notin Below(ls, y)
  OBVIOUS
<1>7. {} \in SUBSET DOMAIN ls
  OBVIOUS
<1>8. Sound(at2, [ls EXCEPT ![a] = t])
  BY <1>3, <1>4, <1>6, <1>7, EditKeeps
<1>9. SameLabels(at, at2)
  BY <1>1, <1>3 DEF Edit, SameLabels
<1> QED
  BY <1>5, <1>8, <1>9 DEF at2

\* The replacement stands where the item was, and nothing leads to the item.
LEMMA PutSound ==
  ASSUME NEW at, NEW ls, Sound(at, ls), NEW a \in DOMAIN ls, NEW x \in DOMAIN ls, ~at[a].ref,
         Root(ls, x), a \notin Below(ls, x), NEW k \in 1 .. Len(ls[a]), NEW strings, NEW fuel
  PROVE  LET at2 == PutInPlace(Mem(at, strings, fuel), a, ls[a][k], x).at
             ls2 == [ls EXCEPT ![a] = ReplaceAt(@, k, x)]
         IN  /\ Sound(at2, ls2) /\ SameLabels(at, at2)
             /\ ls[a][k] \in DOMAIN ls2 /\ Root(ls2, ls[a][k])
<1> DEFINE D == DOMAIN ls
           s == ls[a]
           old == s[k]
           t == ReplaceAt(s, k, x)
           at2 == PutInPlace(Mem(at, strings, fuel), a, old, x).at
           ls2 == [ls EXCEPT ![a] = t]
<1>1. /\ D \subseteq Ptr /\ NULL \notin D /\ NULL \in Ptr /\ at \in [D -> Item] /\ s \in Seq(D)
      /\ Once(s) /\ Linked(at, a, s) /\ ls \in [D -> Seq(D)]
  BY SoundFacts
<1>2. x \notin ToSet(s) /\ k \in 1 .. Len(s)
  BY DEF Root
<1>3. Edit(at, at2, a, s, t)
  <2> HIDE DEF D, s
  <2> QED
    BY <1>1, <1>2, Puts DEF D
<1>4. t \in Seq(D) /\ Once(t) /\ ToSet(t) \subseteq ToSet(s) \cup {x}
  <2> HIDE DEF D, s
  <2> QED
    BY <1>1, <1>2, ReplaceOnce DEF D
<1>5. [ls EXCEPT ![a] = ReplaceAt(@, k, x)] = ls2
  OBVIOUS
<1>6. old \in D /\ old \in ToSet(s) /\ old \notin ToSet(t)
  <2> HIDE DEF D, s
  <2>1. old \in ToSet(s) /\ old \in D
    BY <1>1, <1>2, InSet
  <2>2. /\ Len(t) = Len(s)
        /\ \A i \in 1 .. Len(s) : t[i] = IF i = k THEN x ELSE s[i]
    <3>1. x \in D /\ s \in Seq(D) /\ k \in 1 .. Len(s)
      BY <1>1, <1>2 DEF D
    <3> HIDE DEF old
    <3> QED
      BY <3>1, ReplaceItems, SMTT(30)
  <2> HIDE DEF t
  <2>3. \A i \in 1 .. Len(s) : t[i] # old
    <3>1. DOMAIN s = 1 .. Len(s)
      BY <1>1
    <3> QED
      BY <1>1, <1>2, <2>1, <2>2, <3>1 DEF Once
  <2> QED
    BY <1>4, <2>1, <2>2, <2>3, InSet
<1> HIDE DEF t, at2
<1>7. \A y \in {x} : Root(ls, y) /\ a \notin Below(ls, y)
  OBVIOUS
<1>8. {x} \in SUBSET DOMAIN ls
  OBVIOUS
<1>9. Sound(at2, ls2)
  BY <1>3, <1>4, <1>7, <1>8, EditKeeps
<1>10. old \in DOMAIN ls2 /\ Root(ls2, old)
  <2>1. DOMAIN ls2 = D /\ ls2[a] = t /\ \A c \in D : c # a => ls2[c] = ls[c]
    BY <1>1, <1>4
  <2>2. \A c \in D : c # a => old \notin ToSet(ls[c])
    <3>1. \A c \in D : c # a => ToSet(ls[c]) \cap ToSet(ls[a]) = {}
      BY <1>1, ApartSets DEF Sound
    <3> QED
      BY <1>6, <3>1
  <2> HIDE DEF ls2, old
  <2> QED
    BY <1>6, <2>1, <2>2 DEF Root
<1>11. SameLabels(at, at2)
  BY <1>1, <1>3 DEF Edit, SameLabels
<1> QED
  BY <1>5, <1>9, <1>10, <1>11 DEF at2, old

LEMMA ReplaceSound ==
  ASSUME NEW at, NEW ls, Sound(at, ls), NEW a \in DOMAIN ls, NEW x \in DOMAIN ls, ~at[a].ref,
         Root(ls, x), a \notin Below(ls, x), NEW k \in 1 .. Len(ls[a]), NEW strings, NEW fuel
  PROVE  Sound(Deleted(PutInPlace(Mem(at, strings, fuel), a, ls[a][k], x).at, ls[a][k]),
               Without([ls EXCEPT ![a] = ReplaceAt(@, k, x)], ls[a][k]))
<1> DEFINE at2 == PutInPlace(Mem(at, strings, fuel), a, ls[a][k], x).at
           ls2 == [ls EXCEPT ![a] = ReplaceAt(@, k, x)]
           old == ls[a][k]
<1>1. Sound(at2, ls2) /\ old \in DOMAIN ls2 /\ Root(ls2, old)
  BY PutSound
<1> HIDE DEF at2, ls2, old
<1>2. Sound(Deleted(at2, old), Without(ls2, old))
  BY <1>1, DeleteKeeps
<1> QED
  BY <1>2 DEF at2, ls2, old

LEMMA NewItemIs ==
  ASSUME NEW at, DOMAIN at \subseteq Node, NEW strings, NEW fuel
  PROVE  LET n == cJSON_New_Item(Mem(at, strings, fuel))
         IN  \/ n.r = NULL /\ n.h = Mem(at, strings, fuel)
             \/ n.r \in Node \ DOMAIN at /\ n.h = Mem(Grown(at, n.r, Blank), strings, fuel - 1)
<1> DEFINE h    == Mem(at, strings, fuel)
           free == Node \ DOMAIN at
           k    == Min(free)
           at2  == Grown(at, k, Blank)
<1>1. h.at = at /\ Live(h) = DOMAIN at /\ h.fuel = fuel
  BY DEF Mem, Live
<1>2. CASE h.fuel = 0 \/ free = {}
  <2>1. cJSON_New_Item(h) = [h |-> h, r |-> NULL]
    BY <1>1, <1>2 DEF cJSON_New_Item
  <2> QED
    BY <2>1
<1>3. CASE ~(h.fuel = 0 \/ free = {})
  <2>1. cJSON_New_Item(h) = [h |-> [h EXCEPT !.at = at2, !.fuel = @ - 1], r |-> k]
    BY <1>1, <1>3 DEF cJSON_New_Item, Grown
  <2>2. [h EXCEPT !.at = at2, !.fuel = @ - 1] = Mem(at2, strings, fuel - 1)
    <3> DEFINE g == [h EXCEPT !.at = at2]
    <3> HIDE DEF at2
    <3>1. g = Mem(at2, strings, fuel)
      BY DEF Mem
    <3>2. [h EXCEPT !.at = at2, !.fuel = @ - 1] = [g EXCEPT !.fuel = @ - 1]
      BY DEF Mem
    <3> HIDE DEF g, h
    <3> QED
      BY <3>1, <3>2 DEF Mem
  <2>3. k \in free
    <3>1. free \in SUBSET Nat
      BY DEF Node
    <3> HIDE DEF free
    <3> QED
      BY <1>3, <3>1, MinIsLeast
  <2> DEFINE g == [h EXCEPT !.at = at2, !.fuel = @ - 1]
  <2>4. cJSON_New_Item(h) = [h |-> g, r |-> k] /\ g = Mem(at2, strings, fuel - 1)
    BY <2>1, <2>2
  <2> HIDE DEF g
  <2>5. cJSON_New_Item(h).h = Mem(at2, strings, fuel - 1) /\ cJSON_New_Item(h).r = k
    <3> HIDE DEF k, h
    <3> QED
      BY <2>4
  <2> HIDE DEF k
  <2> QED
    BY <2>3, <2>5
<1> QED
  BY <1>2, <1>3

LEMMA BlankIsItem ==
  Blank \in Item /\ Blank.next = NULL /\ Blank.prev = NULL /\ Blank.child = NULL /\ ~Blank.ref
<1>1. NoString \in Chars
  BY NoStringIsChars
<1>2. "invalid" \in Type
  BY DEF Type
<1> QED
  BY <1>1, <1>2 DEF Blank, Item, Ptr

\* With, when there is no array to add to.
LEMMA WithNone ==
  ASSUME NULL \notin DOMAIN lists, NEW n
  PROVE  With(n, NULL) = Grown(lists, n, <<>>)
BY DEF With, Grown

LEMMA NewItemSound ==
  ASSUME Sound(memory, lists), NewItem
  PROVE  Sound(memory', lists')
<1> PICK f \in Fuel : LET n == cJSON_New_Item(Memory(f))
                      IN  Returns(n.h.at, IF n.r = NULL THEN lists ELSE With(n.r, NULL))
  BY DEF NewItem
<1> DEFINE n == cJSON_New_Item(Mem(memory, 0, f))
           k == n.r
<1>1. memory' = n.h.at /\ lists' = IF k = NULL THEN lists ELSE With(k, NULL)
  BY DEF Returns, Memory, Mem
<1>2. DOMAIN memory = DOMAIN lists /\ DOMAIN lists \subseteq Node /\ NULL \notin DOMAIN lists /\ NULL \notin Node
  <2>1. NULL \notin Node
    BY DEF NULL, Node
  <2> QED
    BY <2>1, SoundFacts
<1>3. \/ k = NULL /\ n.h = Mem(memory, 0, f)
      \/ k \in Node \ DOMAIN memory /\ n.h = Mem(Grown(memory, k, Blank), 0, f - 1)
  BY <1>2, NewItemIs
<1> HIDE DEF n, k
<1>4. CASE k = NULL
  <2>1. n.h = Mem(memory, 0, f)
    BY <1>2, <1>3, <1>4
  <2> QED
    BY <1>1, <1>4, <2>1 DEF Mem
<1>5. CASE k # NULL
  <2>1. k \in Node \ DOMAIN lists
    BY <1>2, <1>3, <1>5
  <2>2. memory' = Grown(memory, k, Blank)
    BY <1>1, <1>3, <1>5 DEF Mem
  <2>3. lists' = Grown(lists, k, <<>>)
    BY <1>1, <1>2, <1>5, WithNone
  <2>4. Sound(Grown(memory, k, Blank), Grown(lists, k, <<>>))
    BY <2>1, BlankIsItem, NewKeeps
  <2> QED
    BY <2>2, <2>3, <2>4
<1> QED
  BY <1>4, <1>5


LEMMA FoundIs ==
  ASSUME Sound(memory, lists), NEW array \in DOMAIN lists, NEW which \in Places(array),
         ~memory[array].ref
  PROVE  Found(array, which) =
           IF which + 1 \in DOMAIN lists[array] THEN lists[array][which + 1] ELSE NULL
<1> DEFINE n == Len(lists[array])
           h == Memory(0)
<1>1. lists[array] \in Seq(DOMAIN lists) /\ n \in Nat /\ which \in -1 .. n
      /\ Linked(memory, array, lists[array]) /\ DOMAIN memory = DOMAIN lists /\ NULL \notin DOMAIN memory
  BY SoundFacts DEF Places
<1>2. (which + 1 \in DOMAIN lists[array]) <=> which \in 0 .. n - 1
  BY <1>1
<1>3. CASE which < 0
  BY <1>1, <1>2, <1>3 DEF Found
<1>4. CASE which \in Nat
  <2>1. h.at = memory
    BY DEF Memory
  <2> HIDE DEF h
  <2>2. /\ lists[array] \in Seq(DOMAIN h.at) /\ Linked(h.at, array, lists[array])
        /\ 0 \notin DOMAIN h.at
    BY <1>1, <2>1 DEF NULL
  <2>3. get_array_item(h, array, which) = IF which < n THEN lists[array][which + 1] ELSE NULL
    BY <1>4, <2>2, GetsItem
  <2>4. Found(array, which) = get_array_item(h, array, which)
    BY <1>4 DEF Found, h
  <2>5. which < n <=> which \in 0 .. n - 1
    BY <1>1, <1>4
  <2> HIDE DEF n
  <2> QED
    BY <1>2, <2>3, <2>4, <2>5
<1> QED
  BY <1>1, <1>3, <1>4


LEMMA AddItemSound ==
  ASSUME Sound(memory, lists), AddItem
  PROVE  Sound(memory', lists')
<1> PICK array \in DOMAIN lists, item \in DOMAIN lists :
      /\ MayAdd(item, array)
      /\ Returns(add_item_to_array(Memory(0), array, item).h.at,
                 [lists EXCEPT ![array] = Append(@, item)])
  BY DEF AddItem
<1>1. Memory(0) = Mem(memory, 0, 0)
  BY DEF Memory, Mem
<1>2. /\ memory' = add_item_to_array(Mem(memory, 0, 0), array, item).h.at
      /\ lists' = [lists EXCEPT ![array] = Append(@, item)]
  BY <1>1 DEF Returns
<1>3. Root(lists, item) /\ array \notin Below(lists, item) /\ ~memory[array].ref
  BY DEF MayAdd
<1> QED
  BY <1>2, <1>3, AddSound

LEMMA InsertItemSound ==
  ASSUME Sound(memory, lists), InsertItem
  PROVE  Sound(memory', lists')
<1> PICK array \in DOMAIN lists, item \in DOMAIN lists : \E which \in Places(array) :
      /\ MayAdd(item, array)
      /\ Returns(cJSON_InsertItemInArray(Memory(0), array, which, item).h.at,
                 IF which < 0 THEN lists
                 ELSE [lists EXCEPT ![array] = InsertAt(@, which + 1, item)])
  BY DEF InsertItem
<1> PICK which \in Places(array) :
      /\ MayAdd(item, array)
      /\ Returns(cJSON_InsertItemInArray(Memory(0), array, which, item).h.at,
                 IF which < 0 THEN lists
                 ELSE [lists EXCEPT ![array] = InsertAt(@, which + 1, item)])
  OBVIOUS
<1> DEFINE h == Mem(memory, 0, 0)
           n == Len(lists[array])
<1>1. Memory(0) = h
  BY DEF Memory, Mem
<1>2. /\ memory' = cJSON_InsertItemInArray(h, array, which, item).h.at
      /\ lists' = IF which < 0 THEN lists
                  ELSE [lists EXCEPT ![array] = InsertAt(@, which + 1, item)]
  BY <1>1 DEF Returns
<1>3. Root(lists, item) /\ array \notin Below(lists, item) /\ ~memory[array].ref
  BY DEF MayAdd
<1>4. lists[array] \in Seq(DOMAIN lists) /\ n \in Nat /\ which \in -1 .. n
      /\ Linked(memory, array, lists[array]) /\ DOMAIN memory = DOMAIN lists /\ NULL \notin DOMAIN memory
  BY <1>3, SoundFacts DEF Places
<1>5. CASE which < 0
  <2>1. cJSON_InsertItemInArray(h, array, which, item).h = h
    BY <1>5 DEF cJSON_InsertItemInArray
  <2> QED
    BY <1>2, <1>5, <2>1 DEF Mem
<1>6. CASE which \in 0 .. n - 1
  <2>1. which + 1 \in 1 .. Len(lists[array]) /\ which + 1 - 1 = which /\ ~(which < 0)
    BY <1>4, <1>6
  <2>2. Sound(cJSON_InsertItemInArray(h, array, which, item).h.at,
              [lists EXCEPT ![array] = InsertAt(@, which + 1, item)])
    <3> DEFINE k == which + 1
    <3>1. k \in 1 .. Len(lists[array]) /\ which = k - 1
      BY <1>6, <2>1
    <3> HIDE DEF k
    <3>2. Sound(cJSON_InsertItemInArray(h, array, k - 1, item).h.at,
                [lists EXCEPT ![array] = InsertAt(@, k, item)])
      BY <1>3, <3>1, InsertSound
    <3> QED
      BY <3>1, <3>2 DEF k
  <2> QED
    BY <1>2, <2>1, <2>2
<1>7. CASE which = n
  <2>1. get_array_item(h, array, n) = NULL
    <3>1. h.at = memory
      BY DEF Mem
    <3> HIDE DEF h
    <3>2. /\ lists[array] \in Seq(DOMAIN h.at) /\ Linked(h.at, array, lists[array])
          /\ 0 \notin DOMAIN h.at /\ n \in Nat
      BY <1>4, <3>1 DEF NULL
    <3>3. get_array_item(h, array, n) = IF n < n THEN lists[array][n + 1] ELSE NULL
      BY <3>2, GetsItem
    <3> QED
      BY <1>4, <3>3
  <2>2. cJSON_InsertItemInArray(h, array, n, item) = add_item_to_array(h, array, item)
    <3> DEFINE g == get_array_item(h, array, n)
    <3>1. g = NULL /\ ~(n < 0)
      BY <1>4, <2>1
    <3> HIDE DEF h
    <3> QED
      BY <3>1, Zenon DEF cJSON_InsertItemInArray
  <2>3. InsertAt(lists[array], n + 1, item) = Append(lists[array], item)
    BY <1>4, InsertLast
  <2>4. lists' = [lists EXCEPT ![array] = Append(@, item)]
    <3>1. ~(n < 0)
      BY <1>4
    <3> HIDE DEF n
    <3> QED
      BY <1>2, <1>7, <2>3, <3>1
  <2>5. memory' = add_item_to_array(h, array, item).h.at
    <3> HIDE DEF n
    <3> QED
      BY <1>2, <1>7, <2>2
  <2> QED
    BY <1>3, <2>4, <2>5, AddSound
<1> QED
  BY <1>4, <1>5, <1>6, <1>7

LEMMA DetachItemSound ==
  ASSUME Sound(memory, lists), DetachItem
  PROVE  Sound(memory', lists')
<1> PICK array \in DOMAIN lists : \E which \in Places(array) :
      /\ ~memory[array].ref
      /\ Returns(cJSON_DetachItemViaPointer(Memory(0), array, Found(array, which)).h.at,
                 IF which + 1 \notin DOMAIN lists[array] THEN lists
                 ELSE [lists EXCEPT ![array] = RemoveAt(@, which + 1)])
  BY DEF DetachItem
<1> PICK which \in Places(array) :
      /\ ~memory[array].ref
      /\ Returns(cJSON_DetachItemViaPointer(Memory(0), array, Found(array, which)).h.at,
                 IF which + 1 \notin DOMAIN lists[array] THEN lists
                 ELSE [lists EXCEPT ![array] = RemoveAt(@, which + 1)])
  OBVIOUS
<1> DEFINE h == Mem(memory, 0, 0)
           k == which + 1
           item == Found(array, which)
<1>1. /\ memory' = cJSON_DetachItemViaPointer(h, array, item).h.at
      /\ lists' = IF k \notin DOMAIN lists[array] THEN lists
                  ELSE [lists EXCEPT ![array] = RemoveAt(@, k)]
  BY DEF Returns, Memory, Mem
<1>2. item = IF k \in DOMAIN lists[array] THEN lists[array][k] ELSE NULL
  BY FoundIs
<1> HIDE DEF item, k
<1>3. CASE k \notin DOMAIN lists[array]
  <2>1. cJSON_DetachItemViaPointer(h, array, item).h = h
    BY <1>2, <1>3 DEF cJSON_DetachItemViaPointer
  <2> QED
    BY <1>1, <1>3, <2>1 DEF Mem
<1>4. CASE k \in DOMAIN lists[array]
  <2>1. k \in 1 .. Len(lists[array])
    <3>1. lists[array] \in Seq(DOMAIN lists)
      BY SoundFacts
    <3> QED
      BY <1>4, <3>1
  <2> QED
    BY <1>1, <1>2, <1>4, <2>1, DetachSound
<1> QED
  BY <1>3, <1>4


LEMMA ReplaceItemSound ==
  ASSUME Sound(memory, lists), ReplaceItem
  PROVE  Sound(memory', lists')
<1> PICK array \in DOMAIN lists, item \in DOMAIN lists : \E which \in Places(array) :
      LET old == Found(array, which)
          put == PutInPlace(Memory(0), array, old, item)
      IN  /\ MayAdd(item, array)
          /\ Returns(IF old = NULL THEN memory ELSE Deleted(put.at, old),
                     IF which + 1 \notin DOMAIN lists[array] THEN lists
                     ELSE Without([lists EXCEPT ![array] = ReplaceAt(@, which + 1, item)],
                                  lists[array][which + 1]))
  BY DEF ReplaceItem
<1> PICK which \in Places(array) :
      LET old == Found(array, which)
          put == PutInPlace(Memory(0), array, old, item)
      IN  /\ MayAdd(item, array)
          /\ Returns(IF old = NULL THEN memory ELSE Deleted(put.at, old),
                     IF which + 1 \notin DOMAIN lists[array] THEN lists
                     ELSE Without([lists EXCEPT ![array] = ReplaceAt(@, which + 1, item)],
                                  lists[array][which + 1]))
  OBVIOUS
<1> DEFINE k   == which + 1
           old == Found(array, which)
<1>1. /\ memory' = IF old = NULL THEN memory
                   ELSE Deleted(PutInPlace(Mem(memory, 0, 0), array, old, item).at, old)
      /\ lists' = IF k \notin DOMAIN lists[array] THEN lists
                  ELSE Without([lists EXCEPT ![array] = ReplaceAt(@, k, item)], lists[array][k])
  BY DEF Returns, Memory, Mem
<1>2. Root(lists, item) /\ array \notin Below(lists, item) /\ ~memory[array].ref
  BY DEF MayAdd
<1>3. old = IF k \in DOMAIN lists[array] THEN lists[array][k] ELSE NULL
  BY <1>2, FoundIs
<1> HIDE DEF old, k
<1>4. lists[array] \in Seq(DOMAIN lists) /\ NULL \notin DOMAIN lists
  BY SoundFacts
<1>5. CASE k \notin DOMAIN lists[array]
  BY <1>1, <1>3, <1>5
<1>6. CASE k \in DOMAIN lists[array]
  <2>1. k \in 1 .. Len(lists[array]) /\ old = lists[array][k] /\ old # NULL
    BY <1>3, <1>4, <1>6
  <2>2. Sound(Deleted(PutInPlace(Mem(memory, 0, 0), array, lists[array][k], item).at, lists[array][k]),
              Without([lists EXCEPT ![array] = ReplaceAt(@, k, item)], lists[array][k]))
    BY <1>2, <2>1, ReplaceSound
  <2> QED
    BY <1>1, <1>6, <2>1, <2>2
<1> QED
  BY <1>5, <1>6

LEMMA DeleteItemSound ==
  ASSUME Sound(memory, lists), DeleteItem
  PROVE  Sound(memory', lists')
BY DeleteKeeps DEF DeleteItem, Returns

\* A reference to item, or none without memory.
Reference(i) == [i EXCEPT !.key = NoString, !.ref = TRUE, !.next = NULL, !.prev = NULL]

LEMMA ReferenceIs ==
  ASSUME NEW at, DOMAIN at \subseteq Node, NEW item \in DOMAIN at, at[item] \in Item, NEW strings, NEW fuel
  PROVE  LET n == create_reference(Mem(at, strings, fuel), item)
             x == Reference(at[item])
         IN  /\ \/ n.r = NULL /\ n.h = Mem(at, strings, fuel)
                \/ n.r \in Node \ DOMAIN at /\ n.h = Mem(Grown(at, n.r, x), strings, fuel - 1)
             /\ x \in Item /\ x.next = NULL /\ x.prev = NULL /\ x.ref
<1> DEFINE h == Mem(at, strings, fuel)
           c == cJSON_New_Item(h)
           n == create_reference(h, item)
           k == c.r
           x == Reference(at[item])
<1>1. \/ k = NULL /\ c.h = h
      \/ k \in Node \ DOMAIN at /\ c.h = Mem(Grown(at, k, Blank), strings, fuel - 1)
  BY NewItemIs
<1>2. h.at = at /\ item # NULL
  BY DEF Mem, NULL, Node
<1>3. x \in Item /\ x.next = NULL /\ x.prev = NULL /\ x.ref
  <2>1. NoString \in Chars /\ NULL \in Ptr
    BY NoStringIsChars DEF Ptr
  <2> QED
    BY <2>1 DEF Item, Reference
<1>4. CASE k = NULL
  <2>1. n = [h |-> h, r |-> NULL]
    BY <1>4, Zenon DEF create_reference
  <2> HIDE DEF n, h
  <2> QED
    BY <1>3, <2>1 DEF h, n
<1>5. CASE k # NULL
  <2> DEFINE g   == [c.h EXCEPT !.at[k] = x]
             at2 == Grown(at, k, x)
  <2>1. k \in Node \ DOMAIN at /\ c.h = Mem(Grown(at, k, Blank), strings, fuel - 1)
    <3> HIDE DEF c, k
    <3> QED
      BY <1>1, <1>5
  <2>2. n = [h |-> g, r |-> k]
    <3>1. [h.at[item] EXCEPT !.key = NoString, !.ref = TRUE, !.next = NULL, !.prev = NULL] = x
      BY <1>2 DEF Reference
    <3>2. create_reference(h, item) =
            [h |-> [c.h EXCEPT !.at[c.r] = [h.at[item] EXCEPT !.key = NoString, !.ref = TRUE,
                                                              !.next = NULL, !.prev = NULL]],
             r |-> c.r]
      BY <1>2, <1>5, Zenon DEF create_reference
    <3> HIDE DEF h, x, c
    <3> QED
      BY <3>1, <3>2
  <2>3. g = Mem(at2, strings, fuel - 1)
    <3>1. [Mem(Grown(at, k, Blank), strings, fuel - 1) EXCEPT !.at[k] = x] = Mem(at2, strings, fuel - 1)
      <4> DEFINE b == Grown(at, k, Blank)
      <4> HIDE DEF k, x
      <4>1. [b EXCEPT ![k] = x] = at2
        BY DEF Grown
      <4> HIDE DEF b, at2
      <4>2. [Mem(b, strings, fuel - 1) EXCEPT !.at[k] = x] = Mem([b EXCEPT ![k] = x], strings, fuel - 1)
        BY DEF Mem
      <4> QED
        BY <4>1, <4>2 DEF b
    <3> HIDE DEF c, x, at2
    <3> QED
      BY <2>1, <3>1
  <2> HIDE DEF g, x, c, k
  <2>4. n.h = Mem(at2, strings, fuel - 1) /\ n.r = k
    <3> HIDE DEF n, at2
    <3> QED
      BY <2>2, <2>3
  <2> HIDE DEF n
  <2> QED
    BY <1>3, <2>1, <2>4 DEF n, x, h
<1> QED
  BY <1>4, <1>5

LEMMA AddReferenceSound ==
  ASSUME Sound(memory, lists), AddReference
  PROVE  Sound(memory', lists')
<1> PICK f \in Fuel, array \in DOMAIN lists, item \in DOMAIN lists :
      LET n == create_reference(Memory(f), item)
      IN  /\ ~memory[array].ref
          /\ Returns(cJSON_AddItemReferenceToArray(Memory(f), array, item).h.at,
                     IF n.r = NULL THEN lists ELSE With(n.r, array))
  BY DEF AddReference
<1> DEFINE h == Mem(memory, 0, f)
           n == create_reference(h, item)
           k == n.r
           x == Reference(memory[item])
<1>1. /\ memory' = add_item_to_array(n.h, array, n.r).h.at
      /\ lists' = IF n.r = NULL THEN lists ELSE With(n.r, array)
  BY DEF Returns, Memory, Mem, cJSON_AddItemReferenceToArray
<1>2. /\ DOMAIN memory = DOMAIN lists /\ DOMAIN lists \subseteq Node /\ NULL \notin DOMAIN lists
      /\ memory[item] \in Item /\ NULL \notin Node
  <2>1. NULL \notin Node
    BY DEF NULL, Node
  <2> QED
    BY <2>1, SoundFacts
<1>3. /\ \/ k = NULL /\ n.h = h
         \/ k \in Node \ DOMAIN memory /\ n.h = Mem(Grown(memory, k, x), 0, f - 1)
      /\ x \in Item /\ x.next = NULL /\ x.prev = NULL /\ x.ref
  <2>1. DOMAIN memory \subseteq Node /\ item \in DOMAIN memory
    BY <1>2
  <2> QED
    BY <1>2, <2>1, ReferenceIs
<1> HIDE DEF n, x
<1>4. CASE k = NULL
  <2>1. add_item_to_array(h, array, NULL).h = h
    BY DEF add_item_to_array
  <2>2. n.h = h
    BY <1>2, <1>3, <1>4
  <2> QED
    BY <1>1, <1>4, <2>1, <2>2 DEF Mem
<1>5. CASE k # NULL
  <2> DEFINE at2 == Grown(memory, k, x)
             ls2 == Grown(lists, k, <<>>)
  <2>1. k \in Node \ DOMAIN lists /\ n.h = Mem(at2, 0, f - 1)
    BY <1>2, <1>3, <1>5
  <2>2. Sound(at2, ls2) /\ Root(ls2, k) /\ Below(ls2, k) = {k}
    BY <1>3, <2>1, NewKeeps
  <2>3. DOMAIN ls2 = DOMAIN lists \cup {k} /\ array # k /\ at2[array] = memory[array]
        /\ ~memory[array].ref
    BY <1>2, <2>1 DEF Grown
  <2>4. memory' = add_item_to_array(Mem(at2, 0, f - 1), array, k).h.at
    BY <1>1, <2>1
  <2>5. lists' = [ls2 EXCEPT ![array] = Append(@, k)]
    <3>1. lists' = With(k, array)
      BY <1>1, <1>5
    <3> QED
      BY <2>3, <3>1 DEF With, Grown
  <2> HIDE DEF at2, ls2
  <2>6. Sound(add_item_to_array(Mem(at2, 0, f - 1), array, k).h.at, [ls2 EXCEPT ![array] = Append(@, k)])
    BY <2>2, <2>3, AddSound
  <2> QED
    BY <2>4, <2>5, <2>6
<1> QED
  BY <1>4, <1>5

LEMMA InitSound == ListsInit => Sound(memory, lists)
<1> SUFFICES ASSUME ListsInit PROVE Sound(memory, lists)
  OBVIOUS
<1>1. memory = <<>> /\ lists = <<>> /\ DOMAIN <<>> = {} /\ DOMAIN memory = {} /\ DOMAIN lists = {}
  BY DEF ListsInit
<1>2. memory \in [{} -> Item] /\ lists \in [{} -> Seq({})]
  BY <1>1
<1>3. Typed(memory, lists)
  BY <1>1, <1>2 DEF Typed
<1>4. Apart(lists) /\ Acyclic(lists) /\ Chained(memory, lists) /\ RootsLoose(memory, lists)
  BY <1>1 DEF Apart, Acyclic, Chained, RootsLoose
<1> QED
  BY <1>3, <1>4 DEF Sound

\* The inductive invariant.
THEOREM AlwaysSound == ListsSpec => []Sound(memory, lists)
<1>1. Sound(memory, lists) /\ [ListsNext]_listVars => Sound(memory, lists)'
  <2> SUFFICES ASSUME Sound(memory, lists), [ListsNext]_listVars PROVE Sound(memory', lists')
    OBVIOUS
  <2>1. CASE NewItem
    BY <2>1, NewItemSound
  <2>2. CASE AddReference
    BY <2>2, AddReferenceSound
  <2>3. CASE AddItem
    BY <2>3, AddItemSound
  <2>4. CASE InsertItem
    BY <2>4, InsertItemSound
  <2>5. CASE DetachItem
    BY <2>5, DetachItemSound
  <2>6. CASE ReplaceItem
    BY <2>6, ReplaceItemSound
  <2>7. CASE DeleteItem
    BY <2>7, DeleteItemSound
  <2>8. CASE UNCHANGED listVars
    BY <2>8 DEF listVars
  <2> QED
    BY <2>1, <2>2, <2>3, <2>4, <2>5, <2>6, <2>7, <2>8 DEF ListsNext
<1> QED
  BY <1>1, InitSound, PTL DEF ListsSpec

LEMMA SoundLists == Sound(memory, lists) => ListsLinked
<1> SUFFICES ASSUME Sound(memory, lists) PROVE ListsLinked
  OBVIOUS
<1> DEFINE D == DOMAIN lists
<1>1. /\ DOMAIN memory = D /\ lists \in [D -> Seq(D)] /\ D \subseteq Node /\ NULL \notin D
      /\ \A c \in D : Once(lists[c]) /\ (~memory[c].ref => Linked(memory, c, lists[c]))
  BY SoundFacts
<1>2. Forest
  <2>1. \A c \in D : \A i \in DOMAIN lists[c] : lists[c][i] \in D /\ lists[c][i] \in ToSet(lists[c])
    <3> SUFFICES ASSUME NEW c \in D, NEW i \in DOMAIN lists[c]
                 PROVE lists[c][i] \in D /\ lists[c][i] \in ToSet(lists[c])
      OBVIOUS
    <3>1. lists[c] \in Seq(D)
      BY <1>1
    <3> HIDE DEF D
    <3> QED
      BY <3>1 DEF ToSet
  <2> QED
    BY <2>1 DEF Forest, Sound, Apart, Acyclic
<1>3. IsFiniteSet(D)
  <2>1. IsFiniteSet(Node)
    BY CJsonAssumption, FS_Interval DEF Node, CJsonAssumption
  <2> QED
    BY <1>1, <2>1, FS_Subset
<1>4. ASSUME NEW c \in D, ~memory[c].ref PROVE Items(Memory(0), c) = lists[c]
  <2> DEFINE h == Memory(0)
  <2>1. h.at = memory
    BY DEF Memory
  <2> HIDE DEF h
  <2>2. /\ lists[c] \in Seq(DOMAIN h.at) /\ Once(lists[c]) /\ Linked(h.at, c, lists[c])
        /\ 0 \notin DOMAIN h.at /\ IsFiniteSet(DOMAIN h.at)
    BY <1>1, <1>3, <1>4, <2>1 DEF NULL
  <2>3. Items(h, c) = lists[c]
    BY <2>2, ItemsAre
  <2> QED
    BY <2>3 DEF h
<1>5. \A n \in D : Root(lists, n) => memory[n].next = NULL /\ memory[n].prev = NULL
  BY DEF Sound, RootsLoose, LinkedToNothing
<1> QED
  BY <1>1, <1>2, <1>4, <1>5 DEF ListsLinked

\* Whatever calls are made, in whatever memory, every list holds what the calls
\* put there, in their order and linked in both directions, its tail where the
\* next append looks for it (cJSON.c:1851-1869, 1928-1992, 2185-2339).
THEOREM AlwaysLinked == ListsSpec => []ListsLinked
BY AlwaysSound, SoundLists, PTL


-----------------------------------------------------------------------------
(* The print buffer.                                                       *)

\* A buffer that prints on has room for the NUL of what it holds, unless nothing
\* was written yet; one that is gone is not printed into.
InBuffer(p) ==
  /\ p.length \in Nat /\ p.offset \in Nat
  /\ p.ok => p.buffer /\ (p.offset < p.length \/ (p.offset = 0 /\ p.length = 0))
  /\ p.fits = TRUE
  /\ p.noalloc => p.buffer

\* The blocks that are allocated, without the buffer itself.
OtherBlocks(p) == p.h.strings - (IF p.buffer THEN 1 ELSE 0)

\* What a write needs to know of a buffer, and leaves true.
IsBuffer(p) ==
  /\ p = [h |-> p.h, text |-> p.text, offset |-> p.offset, length |-> p.length,
          noalloc |-> p.noalloc, buffer |-> p.buffer, ok |-> p.ok, fits |-> p.fits]
  /\ p.h = [at |-> p.h.at, strings |-> p.h.strings, fuel |-> p.h.fuel]
  /\ p.h.strings \in Int /\ p.h.fuel \in Nat
  /\ p.noalloc \in BOOLEAN /\ p.buffer \in BOOLEAN /\ p.ok \in BOOLEAN

LEMMA EnsureRooms ==
  ASSUME NEW p, IsBuffer(p), InBuffer(p), p.ok, NEW needed \in Nat, NEW q, q = ensure(p, needed)
  PROVE  /\ IsBuffer(q) /\ OtherBlocks(q) = OtherBlocks(p)
         /\ q.length \in Nat /\ q.offset = p.offset /\ q.fits = TRUE /\ q.noalloc = p.noalloc
         /\ q.noalloc => q.buffer
         /\ q.ok => q.buffer /\ p.offset + needed + 1 <= q.length
         /\ ~q.ok => \/ p.noalloc /\ p.length < p.offset + needed + 1
                     \/ INT_MAX < p.offset + needed + 1
                     \/ p.h.fuel = 0
<1> DEFINE total == needed + p.offset + 1
           newsize == IF total > INT_MAX \div 2 THEN INT_MAX ELSE 2 * total
<1>1. /\ total \in Nat /\ newsize \in Nat
      /\ total <= INT_MAX => total <= newsize
  BY CJsonBufferAssumption DEF InBuffer
<1>2. p.buffer /\ ~(p.length > 0 /\ p.offset >= p.length)
  BY DEF InBuffer
<1>3. q = IF needed > INT_MAX THEN Fail(p)
          ELSE IF total <= p.length THEN p
          ELSE IF p.noalloc \/ total > INT_MAX THEN Fail(p)
          ELSE IF p.h.fuel = 0
          THEN [Fail(p) EXCEPT !.buffer = FALSE, !.length = 0, !.h.strings = @ - 1]
          ELSE [p EXCEPT !.length = newsize, !.h.fuel = @ - 1]
  BY <1>2 DEF ensure
<1> HIDE DEF total, newsize
<1>4. CASE q = Fail(p) /\ (needed > INT_MAX \/ (p.noalloc /\ ~(total <= p.length)) \/ total > INT_MAX)
  <2>1. /\ q.h = p.h /\ q.length = p.length /\ q.offset = p.offset /\ q.fits = p.fits
        /\ q.noalloc = p.noalloc /\ q.buffer = p.buffer /\ q.ok = FALSE
    BY <1>4 DEF Fail, IsBuffer
  <2>2. IsBuffer(q)
    BY <1>4 DEF Fail, IsBuffer
  <2>3. needed > INT_MAX => total > INT_MAX
    BY CJsonBufferAssumption DEF InBuffer, total
  <2>4. (p.noalloc /\ p.length < p.offset + needed + 1) \/ INT_MAX < p.offset + needed + 1
    BY <1>1, <1>4, <2>3, CJsonBufferAssumption DEF InBuffer, total
  <2> QED
    BY <2>1, <2>2, <2>4 DEF InBuffer, OtherBlocks
<1>5. CASE q = p /\ total <= p.length
  BY <1>1, <1>5 DEF InBuffer, total
<1>6. CASE /\ p.h.fuel = 0 /\ ~p.noalloc
           /\ q = [Fail(p) EXCEPT !.buffer = FALSE, !.length = 0, !.h.strings = @ - 1]
  <2> DEFINE h == [p.h EXCEPT !.strings = p.h.strings - 1]
  <2>1. h = [at |-> p.h.at, strings |-> p.h.strings - 1, fuel |-> p.h.fuel]
    BY DEF IsBuffer
  <2>2. q = [h |-> h, text |-> p.text, offset |-> p.offset, length |-> 0,
             noalloc |-> p.noalloc, buffer |-> FALSE, ok |-> FALSE, fits |-> p.fits]
    BY <1>6 DEF Fail, IsBuffer
  <2> HIDE DEF h
  <2>3. /\ q.h = h /\ q.length = 0 /\ q.offset = p.offset /\ q.fits = p.fits
        /\ q.noalloc = p.noalloc /\ q.buffer = FALSE /\ q.ok = FALSE
        /\ h.strings = p.h.strings - 1 /\ h.fuel = p.h.fuel
    BY <2>1, <2>2
  <2>4. h = [at |-> h.at, strings |-> h.strings, fuel |-> h.fuel]
    BY <2>1
  <2>5. IsBuffer(q)
    BY <2>2, <2>3, <2>4 DEF IsBuffer
  <2>6. OtherBlocks(q) = OtherBlocks(p)
    BY <1>2, <2>3 DEF OtherBlocks, IsBuffer
  <2> QED
    BY <1>6, <2>3, <2>5, <2>6 DEF InBuffer
<1>7. CASE /\ total <= INT_MAX /\ p.h.fuel # 0
           /\ q = [p EXCEPT !.length = newsize, !.h.fuel = @ - 1]
  <2> DEFINE h == [p.h EXCEPT !.fuel = p.h.fuel - 1]
  <2>1. h = [at |-> p.h.at, strings |-> p.h.strings, fuel |-> p.h.fuel - 1]
    BY DEF IsBuffer
  <2>2. q = [h |-> h, text |-> p.text, offset |-> p.offset, length |-> newsize,
             noalloc |-> p.noalloc, buffer |-> p.buffer, ok |-> p.ok, fits |-> p.fits]
    BY <1>7 DEF IsBuffer
  <2> HIDE DEF h
  <2>3. /\ q.h = h /\ q.length = newsize /\ q.offset = p.offset /\ q.fits = p.fits
        /\ q.noalloc = p.noalloc /\ q.buffer = p.buffer /\ q.ok = p.ok
        /\ h.strings = p.h.strings /\ h.fuel = p.h.fuel - 1
    BY <2>1, <2>2
  <2>4. h = [at |-> h.at, strings |-> h.strings, fuel |-> h.fuel]
    BY <2>1
  <2>5. IsBuffer(q)
    <3>1. h.fuel \in Nat
      BY <1>7, <2>3 DEF IsBuffer
    <3> QED
      BY <2>2, <2>3, <2>4, <3>1 DEF IsBuffer
  <2>6. p.offset + needed + 1 <= newsize
    BY <1>1, <1>7 DEF InBuffer, total
  <2> QED
    BY <1>1, <1>2, <2>3, <2>5, <2>6 DEF InBuffer, OtherBlocks
<1>8. \/ q = Fail(p) /\ (needed > INT_MAX \/ (p.noalloc /\ ~(total <= p.length)) \/ total > INT_MAX)
      \/ q = p /\ total <= p.length
      \/ /\ p.h.fuel = 0 /\ ~p.noalloc
         /\ q = [Fail(p) EXCEPT !.buffer = FALSE, !.length = 0, !.h.strings = @ - 1]
      \/ /\ total <= INT_MAX /\ p.h.fuel # 0
         /\ q = [p EXCEPT !.length = newsize, !.h.fuel = @ - 1]
  <2>1. total <= INT_MAX \/ total > INT_MAX
    BY <1>1, CJsonBufferAssumption
  <2> QED
    BY <1>3, <2>1, Zenon
<1> QED
  BY <1>4, <1>5, <1>6, <1>7, <1>8

LEMMA WriteFits ==
  ASSUME NEW p, IsBuffer(p), InBuffer(p), NEW piece, <<piece>> = Unprintable \/ Asks(piece)
  PROVE  /\ IsBuffer(Write(p, piece)) /\ InBuffer(Write(p, piece))
         /\ OtherBlocks(Write(p, piece)) = OtherBlocks(p)
<1>1. CASE ~p.ok
  BY <1>1 DEF Write
<1>2. CASE p.ok /\ <<piece>> = Unprintable
  <2>1. Write(p, piece) = Fail(p)
    BY <1>2 DEF Write, Fail, IsBuffer
  <2> QED
    BY <2>1 DEF Fail, InBuffer, IsBuffer, OtherBlocks
<1>3. CASE p.ok /\ <<piece>> # Unprintable
  <2> DEFINE q == ensure(p, piece.needed)
             w == Width(piece.units)
  <2>1. piece.needed \in Nat /\ w \in Nat /\ w <= piece.needed
    BY <1>3 DEF Asks
  <2>2. Write(p, piece) = IF q.ok THEN update_offset(q, piece.units) ELSE q
    BY <1>3 DEF Write
  <2>3. update_offset(q, piece.units)
          = [q EXCEPT !.fits = q.fits /\ q.offset + w + 1 <= q.length,
                      !.offset = q.offset + w, !.text = q.text \o piece.units]
    BY DEF update_offset
  <2> HIDE DEF q, w
  <2>4. /\ IsBuffer(q) /\ OtherBlocks(q) = OtherBlocks(p)
        /\ q.length \in Nat /\ q.offset = p.offset /\ q.fits = TRUE
        /\ q.noalloc => q.buffer
        /\ q.ok => q.buffer /\ p.offset + piece.needed + 1 <= q.length
    BY <1>3, <2>1, EnsureRooms DEF q
  <2>5. p.offset \in Nat
    BY DEF InBuffer
  <2>6. CASE q.ok
    <3> DEFINE r == update_offset(q, piece.units)
    <3>1. (q.fits /\ q.offset + w + 1 <= q.length) = TRUE
      BY <2>1, <2>4, <2>5, <2>6
    <3>2. r = [q EXCEPT !.fits = TRUE, !.offset = q.offset + w, !.text = q.text \o piece.units]
      BY <2>3, <3>1
    <3> HIDE DEF r
    <3>3. /\ r.h = q.h /\ r.length = q.length /\ r.offset = q.offset + w /\ r.fits = TRUE
          /\ r.noalloc = q.noalloc /\ r.buffer = q.buffer /\ r.ok = q.ok
      BY <2>4, <3>2 DEF IsBuffer
    <3>4. IsBuffer(r)
      BY <2>4, <3>2 DEF IsBuffer
    <3>5. InBuffer(r)
      BY <2>1, <2>4, <2>5, <2>6, <3>3 DEF InBuffer
    <3> QED
      BY <2>2, <2>4, <2>6, <3>3, <3>4, <3>5 DEF r, OtherBlocks
  <2>7. CASE ~q.ok
    BY <2>2, <2>4, <2>5, <2>7 DEF InBuffer
  <2> QED
    BY <2>6, <2>7
<1> QED
  BY <1>1, <1>2, <1>3

\* Whatever is printed, in pieces that ask for what they write, from a buffer of
\* any length, a caller's or one that grows, with any INT_MAX and with memory
\* running out at any piece: no byte and no NUL is written outside the buffer,
\* and the buffer is freed at most once, a caller's never (cJSON.c:439-535).
THEOREM NothingOutside ==
  ASSUME NEW pieces, NEW N \in Nat,
         \A i \in 1 .. N : <<pieces[i]>> = Unprintable \/ Asks(pieces[i]),
         NEW h, h = [at |-> h.at, strings |-> h.strings, fuel |-> h.fuel],
         h.strings \in Nat, h.fuel \in Nat,
         NEW length \in Nat, NEW noalloc \in BOOLEAN,
         NEW p, p[0] = Printbuffer(h, length, noalloc),
         \A i \in 1 .. N : p[i] = Write(p[i - 1], pieces[i])
  PROVE  \A i \in 0 .. N : InBuffer(p[i]) /\ OtherBlocks(p[i]) = h.strings - 1
<1> DEFINE Good(i) == IsBuffer(p[i]) /\ InBuffer(p[i]) /\ OtherBlocks(p[i]) = h.strings - 1
           Bad == {i \in 0 .. N : ~Good(i)}
<1>1. Good(0)
  BY DEF Printbuffer, IsBuffer, InBuffer, OtherBlocks
<1>2. ASSUME NEW i \in 1 .. N, Good(i - 1) PROVE Good(i)
  BY <1>2, WriteFits
<1> HIDE DEF Good
<1>3. Bad = {}
  <2> SUFFICES ASSUME Bad # {} PROVE FALSE
    OBVIOUS
  <2>1. Bad \subseteq Nat /\ \A i \in 0 .. N : i \in Bad <=> ~Good(i)
    OBVIOUS
  <2> HIDE DEF Bad
  <2>2. PICK i \in Bad : \A j \in Bad : i <= j
    BY <2>1, LeastNatural
  <2>3. i \in 0 .. N /\ i # 0
    BY <1>1, <2>1, <2>2 DEF Bad
  <2>4. i \in 1 .. N /\ i - 1 \in 0 .. N /\ ~(i <= i - 1)
    BY <2>3
  <2> QED
    BY <1>2, <2>1, <2>2, <2>4
<1> QED
  BY <1>3 DEF Good
=============================================================================
