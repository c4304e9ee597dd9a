---------------------------- MODULE CJsonTreeProofs ----------------------------
(***************************************************************************)
(* Proofs about the programs of CJsonTree, for memories of any size, any   *)
(* names and texts and any allocation failing: no call leaves the heap     *)
(* unsound, loses an item, edits another list than it says, or fails half  *)
(* way.                                                                    *)
(***************************************************************************)
EXTENDS CJsonHeapProofs

USE CJsonAssumption DEF CJsonAssumption

-----------------------------------------------------------------------------
(* What one call does: with memory h, roots R and lists ls before it, memory *)
(* d, roots R2 and lists ls2 after it, and o for what came of it.            *)

\* The items in the list of an object have names.
NamesInObjects(at, ls) ==
  \A o \in DOMAIN ls : at[o].type = "object" /\ ~at[o].ref =>
    \A m \in ToSet(ls[o]) : at[m].key # NoString

Given(h, R, ls) == Tidy(h, ls, R, 0) /\ NamesInObjects(h.at, ls)

Missing(ls, R) == DOMAIN ls \ Under(ls, R)

\* Position and Edited, for any items.
PositionIn(at, s, where) ==
  IF where.name = NoString THEN where.index + 1
  ELSE LET named == NamedIn(at, s, where.name, where.exact)
       IN  IF named = {} THEN 0 ELSE Min(named)

EditedIn(at, s, o) ==
  CASE o.call \in {"append", "append reference"} -> Append(s, o.item)
    [] o.call = "insert"  -> InsertAt(s, Min({PositionIn(at, s, o.where), Len(s) + 1}), o.item)
    [] o.call = "remove"  -> RemoveAt(s, PositionIn(at, s, o.where))
    [] o.call = "replace" -> ReplaceAt(s, PositionIn(at, s, o.where), o.item)

\* All but the name of a replacement is as it was.
Unchanged(at, at2, o) ==
  \A n \in DOMAIN at :
    /\ n \in DOMAIN at2
    /\ \/ at2[n] = at[n]
       \/ /\ o.call = "replace" /\ n = o.item
          /\ at2[n] = [at[n] EXCEPT !.key = at2[n].key, !.const = at2[n].const]

Follows(at, ls, at2, ls2, o) ==
  \A c \in DOMAIN ls \cap DOMAIN ls2 :
    /\ at2[c].ref = at[c].ref
    /\ ~at[c].ref =>
         /\ ls2[c] = IF c = o.list /\ o.ok THEN EditedIn(at, ls[c], o) ELSE ls[c]
         /\ c = o.list /\ o.call = "remove" =>
              (o.ok <=> PositionIn(at, ls[c], o.where) \in DOMAIN ls[c])

Step(h, R, ls, d, R2, ls2, o) ==
  /\ Given(d, R2, ls2)
  /\ Missing(ls2, R2) = Missing(ls, R) \/ (o.call = "append reference" /\ ~o.ok)
  /\ ~o.ok => Unchanged(h.at, d.at, o)
  /\ Follows(h.at, ls, d.at, ls2, o)

\* The call is on no list, or fails.
Idle(at, ls, o) ==
  \A c \in DOMAIN ls : c = o.list =>
    o.ok = FALSE /\ (o.call = "remove" => PositionIn(at, ls[c], o.where) \notin DOMAIN ls[c])

LEMMA GivenFacts ==
  ASSUME NEW h, NEW R, NEW ls, Given(h, R, ls)
  PROVE  /\ Tidy(h, ls, R, 0) /\ NamesInObjects(h.at, ls) /\ Sound(h.at, ls)
         /\ DOMAIN h.at = DOMAIN ls /\ R \in SUBSET DOMAIN ls /\ \A r \in R : Root(ls, r)
         /\ 0 \in Int
<1>1. Tidy(h, ls, R, 0) /\ NamesInObjects(h.at, ls)
  BY DEF Given
<1>2. Sound(h.at, ls) /\ \A r \in R : r \in DOMAIN ls /\ Root(ls, r)
  BY <1>1 DEF Tidy
<1> QED
  BY <1>1, <1>2, SoundFacts

LEMMA StepNone ==
  ASSUME NEW h, NEW R, NEW ls, Given(h, R, ls), NEW d, d.at = h.at, Tidy(d, ls, R, 0),
         NEW o, Idle(h.at, ls, o)
  PROVE  Step(h, R, ls, d, R, ls, o)
<1>1. NamesInObjects(d.at, ls) /\ DOMAIN h.at = DOMAIN ls
  BY GivenFacts
<1>2. Unchanged(h.at, d.at, o)
  BY DEF Unchanged
<1>3. Follows(h.at, ls, d.at, ls, o)
  BY DEF Follows, Idle
<1> QED
  BY <1>1, <1>2, <1>3 DEF Step, Given

\* Item n is x now, in the same place.
LEMMA StepItem ==
  ASSUME NEW h, NEW R, NEW ls, Given(h, R, ls), NEW n \in DOMAIN ls, NEW x,
         x.type = h.at[n].type, x.ref = h.at[n].ref, x.key = h.at[n].key \/ Root(ls, n),
         NEW d, d.at = AtWith(h.at, n, x), Tidy(d, ls, R, 0), NEW o, Idle(h.at, ls, o),
         o.ok = TRUE \/ Unchanged(h.at, d.at, o)
  PROVE  Step(h, R, ls, d, R, ls, o)
<1>1. NamesInObjects(h.at, ls) /\ DOMAIN h.at = DOMAIN ls /\ ls \in [DOMAIN ls -> Seq(DOMAIN ls)]
  BY GivenFacts, SoundFacts
<1>2. d.at[n] = x /\ \A m \in DOMAIN ls : m # n => d.at[m] = h.at[m]
  BY <1>1 DEF AtWith
<1>3. ASSUME NEW c \in DOMAIN ls, d.at[c].type = "object", ~d.at[c].ref, NEW m \in ToSet(ls[c])
      PROVE  d.at[m].key # NoString
  <2>1. h.at[c].type = "object" /\ ~h.at[c].ref
    BY <1>2, <1>3
  <2>2. h.at[m].key # NoString
    BY <1>1, <2>1 DEF NamesInObjects
  <2>3. m \in DOMAIN ls
    BY <1>1, InSet
  <2> QED
    BY <1>2, <2>2, <2>3 DEF Root
<1>4. NamesInObjects(d.at, ls)
  BY <1>3 DEF NamesInObjects
<1>5. \A c \in DOMAIN ls : d.at[c].ref = h.at[c].ref
  BY <1>2
<1>6. Follows(h.at, ls, d.at, ls, o)
  BY <1>5 DEF Follows, Idle
<1> QED
  BY <1>4, <1>6 DEF Step, Given

\* Items have kept their kinds, and their names or been given new ones.
Renames(at, at2) ==
  \A m \in DOMAIN at2 :
    /\ m \in DOMAIN at /\ at2[m].type = at[m].type /\ at2[m].ref = at[m].ref
    /\ at2[m].key = at[m].key \/ at2[m].key # NoString

LEMMA LabelledRenames ==
  ASSUME NEW at, NEW at2, Labelled(at, at2)
  PROVE  Renames(at, at2)
BY DEF Labelled, Renames, Label

LEMMA SameRenames ==
  ASSUME NEW at, NEW at2, SameLabels(at, at2)
  PROVE  Labelled(at, at2) /\ Renames(at, at2)
BY DEF SameLabels, Labelled, Renames, Label

LEMMA NamedRenames ==
  ASSUME NEW at, NEW ls, Sound(at, ls), NEW at2, NEW y \in DOMAIN ls, NEW name, name # NoString, NEW const,
         Labelled(AtWith(at, y, Titled(at[y], name, const)), at2)
  PROVE  Renames(at, at2) /\ (y \in DOMAIN at2 => at2[y].key = name)
<1> DEFINE x == Titled(at[y], name, const)
           g == AtWith(at, y, x)
<1>1. DOMAIN at = DOMAIN ls /\ at[y] \in Item
  BY SoundFacts
<1>2. x.type = at[y].type /\ x.ref = at[y].ref /\ x.key = name
  BY <1>1 DEF Titled, Item
<1> HIDE DEF x
<1>3. DOMAIN g = DOMAIN at /\ g[y] = x /\ \A m \in DOMAIN at : m # y => g[m] = at[m]
  BY <1>1 DEF AtWith
<1>4. Labelled(g, at2)
  BY DEF x
<1> HIDE DEF g
<1>5. ASSUME NEW m \in DOMAIN at2
      PROVE  m \in DOMAIN at /\ at2[m].type = g[m].type /\ at2[m].ref = g[m].ref /\ at2[m].key = g[m].key
  BY <1>3, <1>4 DEF Labelled, Label
<1> QED
  BY <1>2, <1>3, <1>5 DEF Renames

\* The items that are new in the list of a have names, if it is an object.
NamesNew(at, at2, a, s, t) ==
  at[a].type = "object" => \A m \in ToSet(t) \cap DOMAIN at2 : m \in ToSet(s) \/ at2[m].key # NoString

\* ls3 is ls with t for the list of a, or less.
Lists3(ls, a, t, ls3) ==
  /\ DOMAIN ls3 \subseteq DOMAIN ls
  /\ \A c \in DOMAIN ls3 : ls3[c] = IF c = a THEN t ELSE ls[c]

LEMMA NamesStay ==
  ASSUME NEW at, NEW ls, NamesInObjects(at, ls), NEW a, NEW t, NEW ls3, Lists3(ls, a, t, ls3),
         NEW at2, Sound(at2, ls3), Renames(at, at2), NamesNew(at, at2, a, ls[a], t)
  PROVE  NamesInObjects(at2, ls3)
<1> SUFFICES ASSUME NEW c \in DOMAIN ls3, at2[c].type = "object", ~at2[c].ref, NEW m \in ToSet(ls3[c])
             PROVE  at2[m].key # NoString
  BY DEF NamesInObjects
<1>1. ls3 \in [DOMAIN ls3 -> Seq(DOMAIN ls3)] /\ DOMAIN at2 = DOMAIN ls3
  BY SoundFacts
<1>2. m \in DOMAIN at2
  BY <1>1, InSet
<1>3. at[c].type = "object" /\ ~at[c].ref /\ c \in DOMAIN ls
  BY <1>1 DEF Renames, Lists3
<1>4. m \in ToSet(ls[c]) \/ at2[m].key # NoString
  BY <1>2, <1>3 DEF Lists3, NamesNew
<1>5. CASE m \in ToSet(ls[c])
  <2>1. at[m].key # NoString
    BY <1>3, <1>5 DEF NamesInObjects
  <2> QED
    BY <1>2, <2>1 DEF Renames
<1> QED
  BY <1>4, <1>5

\* t is what the call should make of s.
AsTold(at, s, t, o) ==
  /\ o.ok = TRUE /\ t = EditedIn(at, s, o)
  /\ o.call = "remove" => PositionIn(at, s, o.where) \in DOMAIN s

LEMMA FollowsStay ==
  ASSUME NEW at, NEW ls, NEW a, NEW t, NEW ls3, Lists3(ls, a, t, ls3), NEW at2, Renames(at, at2),
         DOMAIN at2 = DOMAIN ls3, NEW o, o.list = a, AsTold(at, ls[a], t, o)
  PROVE  Follows(at, ls, at2, ls3, o)
<1> SUFFICES ASSUME NEW c \in DOMAIN ls3
             PROVE  /\ at2[c].ref = at[c].ref
                    /\ ls3[c] = IF c = o.list /\ o.ok THEN EditedIn(at, ls[c], o) ELSE ls[c]
                    /\ c = o.list /\ o.call = "remove" =>
                         (o.ok <=> PositionIn(at, ls[c], o.where) \in DOMAIN ls[c])
  BY DEF Follows
<1>1. at2[c].ref = at[c].ref
  BY DEF Renames
<1>2. ls3[c] = IF c = a THEN t ELSE ls[c]
  BY DEF Lists3
<1> QED
  BY <1>1, <1>2 DEF AsTold

-----------------------------------------------------------------------------
(* The items of an edited list.                                            *)

LEMMA AppendSet ==
  ASSUME NEW D, NEW s \in Seq(D), NEW x
  PROVE  ToSet(Append(s, x)) = ToSet(s) \cup {x}
<1> DEFINE E == D \cup {x}
           t == Append(s, x)
<1>1. s \in Seq(E) /\ x \in E
  OBVIOUS
<1>2. /\ t \in Seq(E) /\ Len(t) = Len(s) + 1 /\ Len(s) \in Nat
      /\ \A i \in 1 .. Len(s) + 1 : t[i] = IF i = Len(s) + 1 THEN x ELSE s[i]
  BY <1>1, AppendItems
<1> HIDE DEF E, t
<1>3. /\ \A y : y \in ToSet(t) <=> \E i \in 1 .. Len(t) : t[i] = y
      /\ \A y : y \in ToSet(s) <=> \E i \in 1 .. Len(s) : s[i] = y
  BY <1>1, <1>2, InSet
<1>4. ASSUME NEW y PROVE y \in ToSet(t) <=> y \in ToSet(s) \cup {x}
  <2>1. ASSUME NEW i \in 1 .. Len(t) PROVE t[i] \in ToSet(s) \cup {x}
    <3>1. i = Len(s) + 1 \/ i \in 1 .. Len(s)
      BY <1>2
    <3> QED
      BY <1>2, <1>3, <3>1
  <2>2. ASSUME NEW i \in 1 .. Len(s) PROVE s[i] \in ToSet(t)
    <3>1. i \in 1 .. Len(t) /\ t[i] = s[i]
      BY <1>2
    <3> QED
      BY <1>3, <3>1
  <2>3. x \in ToSet(t)
    <3>1. Len(t) \in 1 .. Len(t) /\ t[Len(t)] = x
      BY <1>2
    <3> QED
      BY <1>3, <3>1
  <2> QED
    BY <1>3, <2>1, <2>2, <2>3
<1> QED
  BY <1>4 DEF t

LEMMA InsertSet ==
  ASSUME NEW D, NEW s \in Seq(D), NEW x \in D, NEW k \in 1 .. Len(s) + 1
  PROVE  ToSet(InsertAt(s, k, x)) = ToSet(s) \cup {x}
<1> DEFINE t == InsertAt(s, k, x)
<1>1. t \in Seq(D) /\ Spliced(t, s, k, x)
  BY InsertItems
<1> HIDE DEF t
<1>2. /\ \A y : y \in ToSet(t) <=> \E i \in 1 .. Len(t) : t[i] = y
      /\ \A y : y \in ToSet(s) <=> \E i \in 1 .. Len(s) : s[i] = y
  BY <1>1, InSet
<1>3. /\ Len(t) = Len(s) + 1 /\ Len(s) \in Nat
      /\ \A i \in 1 .. Len(s) + 1 : t[i] = IF i < k THEN s[i] ELSE IF i = k THEN x ELSE s[i - 1]
  BY <1>1 DEF Spliced
<1>4. ASSUME NEW i \in 1 .. Len(t) PROVE t[i] \in ToSet(s) \cup {x}
  <2>1. CASE i < k
    <3>1. i \in 1 .. Len(s) /\ t[i] = s[i]
      BY <1>3, <2>1
    <3> QED
      BY <1>2, <3>1
  <2>2. CASE i = k
    BY <1>3, <2>2
  <2>3. CASE i > k
    <3>1. i - 1 \in 1 .. Len(s) /\ t[i] = s[i - 1]
      BY <1>3, <2>3
    <3> QED
      BY <1>2, <3>1
  <2> QED
    BY <1>3, <2>1, <2>2, <2>3
<1>5. ASSUME NEW i \in 1 .. Len(s) PROVE s[i] \in ToSet(t)
  <2>1. CASE i < k
    <3>1. i \in 1 .. Len(t) /\ t[i] = s[i]
      BY <1>3, <2>1
    <3> QED
      BY <1>2, <3>1
  <2>2. CASE i >= k
    <3>1. i + 1 \in 1 .. Len(t) /\ t[i + 1] = s[i]
      BY <1>3, <2>2
    <3> QED
      BY <1>2, <3>1
  <2> QED
    BY <1>3, <2>1, <2>2
<1>6. x \in ToSet(t)
  <2>1. k \in 1 .. Len(t) /\ t[k] = x
    BY <1>3
  <2> QED
    BY <1>2, <2>1
<1>7. ASSUME NEW y PROVE y \in ToSet(t) <=> y \in ToSet(s) \cup {x}
  BY <1>2, <1>4, <1>5, <1>6
<1> QED
  BY <1>7 DEF t

LEMMA RemoveSet ==
  ASSUME NEW D, NEW s \in Seq(D), Once(s), NEW k \in 1 .. Len(s)
  PROVE  ToSet(RemoveAt(s, k)) = ToSet(s) \ {s[k]}
<1> DEFINE t == RemoveAt(s, k)
<1>1. /\ t \in Seq(D) /\ Len(t) = Len(s) - 1
      /\ \A i \in 1 .. Len(s) - 1 : t[i] = IF i < k THEN s[i] ELSE s[i + 1]
  BY RemoveItems
<1> HIDE DEF t
<1>2. /\ \A y : y \in ToSet(t) <=> \E i \in 1 .. Len(t) : t[i] = y
      /\ \A y : y \in ToSet(s) <=> \E i \in 1 .. Len(s) : s[i] = y
  BY <1>1, InSet
<1>3. Len(s) \in Nat /\ DOMAIN s = 1 .. Len(s)
  OBVIOUS
<1>4. ASSUME NEW i \in 1 .. Len(t) PROVE t[i] \in ToSet(s) \ {s[k]}
  <2>1. CASE i < k
    <3>1. i \in 1 .. Len(s) /\ t[i] = s[i] /\ i # k
      BY <1>1, <1>3, <2>1
    <3> QED
      BY <1>2, <1>3, <3>1 DEF Once
  <2>2. CASE i >= k
    <3>1. i + 1 \in 1 .. Len(s) /\ t[i] = s[i + 1] /\ i + 1 # k
      BY <1>1, <1>3, <2>2
    <3> QED
      BY <1>2, <1>3, <3>1 DEF Once
  <2> QED
    BY <1>1, <1>3, <2>1, <2>2
<1>5. ASSUME NEW i \in 1 .. Len(s), i # k PROVE s[i] \in ToSet(t)
  <2>1. CASE i < k
    <3>1. i \in 1 .. Len(t) /\ t[i] = s[i]
      BY <1>1, <1>3, <2>1
    <3> QED
      BY <1>2, <3>1
  <2>2. CASE i > k
    <3>1. i - 1 \in 1 .. Len(t) /\ t[i - 1] = s[i]
      BY <1>1, <1>3, <2>2
    <3> QED
      BY <1>2, <3>1
  <2> QED
    BY <1>3, <1>5, <2>1, <2>2
<1>6. ASSUME NEW y PROVE y \in ToSet(t) <=> y \in ToSet(s) \ {s[k]}
  BY <1>2, <1>4, <1>5
<1> QED
  BY <1>6 DEF t

LEMMA ReplaceSet ==
  ASSUME NEW D, NEW s \in Seq(D), Once(s), NEW x \in D, NEW k \in 1 .. Len(s)
  PROVE  ToSet(ReplaceAt(s, k, x)) = (ToSet(s) \ {s[k]}) \cup {x}
<1> DEFINE t == ReplaceAt(s, k, x)
<1>1. /\ t \in Seq(D) /\ Len(t) = Len(s)
      /\ \A i \in 1 .. Len(s) : t[i] = IF i = k THEN x ELSE s[i]
  BY ReplaceItems
<1> HIDE DEF t
<1>2. /\ \A y : y \in ToSet(t) <=> \E i \in 1 .. Len(t) : t[i] = y
      /\ \A y : y \in ToSet(s) <=> \E i \in 1 .. Len(s) : s[i] = y
  BY <1>1, InSet
<1>3. DOMAIN s = 1 .. Len(s)
  OBVIOUS
<1>4. ASSUME NEW i \in 1 .. Len(t) PROVE t[i] \in (ToSet(s) \ {s[k]}) \cup {x}
  BY <1>1, <1>2, <1>3 DEF Once
<1>5. ASSUME NEW i \in 1 .. Len(s), i # k PROVE s[i] \in ToSet(t)
  BY <1>1, <1>2, <1>5
<1>6. x \in ToSet(t)
  BY <1>1, <1>2
<1>7. ASSUME NEW y PROVE y \in ToSet(t) <=> y \in (ToSet(s) \ {s[k]}) \cup {x}
  BY <1>2, <1>4, <1>5, <1>6
<1> QED
  BY <1>7 DEF t

-----------------------------------------------------------------------------
(* A call that edits a list.                                               *)

\* All the program can free is still where it can: R2 and the list t for a.
Rearranges(h, R, ls, a, t, R2) ==
  /\ a \in Under(ls, R) /\ ~h.at[a].ref
  /\ R2 \subseteq Under(ls, R) /\ ToSet(t) \subseteq Under(ls, R)
  /\ R \cup ToSet(ls[a]) \subseteq R2 \cup ToSet(t)

LEMMA RearrangesUnder ==
  ASSUME NEW h, NEW R, NEW ls, Given(h, R, ls), NEW a, NEW t, NEW R2, Rearranges(h, R, ls, a, t, R2),
         NEW ls2, ls2 = Listing(ls, a, t), NEW at2, Sound(at2, ls2)
  PROVE  /\ a \in DOMAIN ls /\ DOMAIN ls2 = DOMAIN ls /\ Lists3(ls, a, t, ls2)
         /\ Under(ls2, R2) = Under(ls, R)
<1>1. Sound(h.at, ls) /\ R \in SUBSET DOMAIN ls
  BY GivenFacts
<1>2. Under(ls, R) \subseteq DOMAIN ls
  BY <1>1, UnderOwns DEF Owns
<1>3. a \in DOMAIN ls
  BY <1>2 DEF Rearranges
<1>4. DOMAIN ls2 = DOMAIN ls /\ ls2[a] = t /\ \A c \in DOMAIN ls : c # a => ls2[c] = ls[c]
  BY <1>3, ListingIs
<1>5. Lists3(ls, a, t, ls2)
  BY <1>4 DEF Lists3
<1>6. /\ a \in Under(ls, R) /\ R2 \in SUBSET Under(ls, R) /\ ToSet(t) \subseteq Under(ls, R)
      /\ R \cup ToSet(ls[a]) \subseteq R2 \cup ToSet(t)
  BY DEF Rearranges
<1>7. Under(Listing(ls, a, t), R2) = Under(ls, R)
  BY <1>1, <1>6, UnderListing
<1> QED
  BY <1>3, <1>4, <1>5, <1>7

LEMMA StepListing ==
  ASSUME NEW h, NEW R, NEW ls, Given(h, R, ls), NEW a, NEW t, NEW R2, Rearranges(h, R, ls, a, t, R2),
         NEW ls2, ls2 = Listing(ls, a, t), NEW d, Tidy(d, ls2, R2, 0),
         Renames(h.at, d.at), NamesNew(h.at, d.at, a, ls[a], t),
         NEW o, o.list = a, AsTold(h.at, ls[a], t, o)
  PROVE  Step(h, R, ls, d, R2, ls2, o)
<1>1. Sound(d.at, ls2) /\ DOMAIN d.at = DOMAIN ls2
  <2>1. Sound(d.at, ls2)
    BY DEF Tidy
  <2> QED
    BY <2>1, SoundFacts
<1>2. Lists3(ls, a, t, ls2) /\ DOMAIN ls2 = DOMAIN ls /\ Under(ls2, R2) = Under(ls, R)
  BY <1>1, RearrangesUnder
<1>3. NamesInObjects(h.at, ls)
  BY GivenFacts
<1>4. NamesInObjects(d.at, ls2)
  BY <1>1, <1>2, <1>3, NamesStay
<1>5. Follows(h.at, ls, d.at, ls2, o)
  BY <1>1, <1>2, FollowsStay
<1>6. Missing(ls2, R2) = Missing(ls, R)
  BY <1>2 DEF Missing
<1>7. o.ok = TRUE
  BY DEF AsTold
<1> QED
  BY <1>4, <1>5, <1>6, <1>7 DEF Step, Given

\* Then x, which is in no list any more, is freed with all below it.
LEMMA StepCut ==
  ASSUME NEW h, NEW R, NEW ls, Given(h, R, ls), NEW a, NEW t, NEW R2, Rearranges(h, R, ls, a, t, R2),
         NEW ls2, ls2 = Listing(ls, a, t), NEW g, Tidy(g, ls2, R2, 0), NEW x \in R2,
         NEW R3, R3 = R2 \ {x}, NEW ls3, ls3 = Without(ls2, x), NEW d, Tidy(d, ls3, R3, 0),
         Renames(h.at, d.at), NamesNew(h.at, d.at, a, ls[a], t),
         NEW o, o.list = a, AsTold(h.at, ls[a], t, o)
  PROVE  Step(h, R, ls, d, R3, ls3, o)
<1>1. Sound(d.at, ls3) /\ DOMAIN d.at = DOMAIN ls3
  <2>1. Sound(d.at, ls3)
    BY DEF Tidy
  <2> QED
    BY <2>1, SoundFacts
<1>2. Sound(g.at, ls2) /\ R2 \in SUBSET DOMAIN ls2 /\ \A r \in R2 : Root(ls2, r)
  BY DEF Tidy
<1>3. Lists3(ls, a, t, ls2) /\ DOMAIN ls2 = DOMAIN ls /\ Under(ls2, R2) = Under(ls, R)
  BY <1>2, RearrangesUnder
<1>4. DOMAIN ls3 = DOMAIN ls2 \ Below(ls2, x) /\ \A c \in DOMAIN ls3 : ls3[c] = ls2[c]
  BY DEF Without
<1>5. Lists3(ls, a, t, ls3)
  BY <1>3, <1>4 DEF Lists3
<1>6. NamesInObjects(h.at, ls)
  BY GivenFacts
<1>7. NamesInObjects(d.at, ls3)
  BY <1>1, <1>5, <1>6, NamesStay
<1>8. Follows(h.at, ls, d.at, ls3, o)
  BY <1>1, <1>5, FollowsStay
<1>9. Under(ls3, R3) = Under(ls2, R2) \ Below(ls2, x)
  BY <1>1, <1>2, UnderWithout
<1>10. Below(ls2, x) \subseteq Under(ls2, R2)
  BY DEF Under
<1>11. Missing(ls3, R3) = Missing(ls, R)
  BY <1>3, <1>4, <1>9, <1>10 DEF Missing
<1>12. o.ok = TRUE
  BY DEF AsTold
<1> QED
  BY <1>7, <1>8, <1>11, <1>12 DEF Step, Given

\* A root is freed with all below it.
LEMMA StepDelete ==
  ASSUME NEW h, NEW R, NEW ls, Given(h, R, ls), NEW x \in R, NEW R3, R3 = R \ {x},
         NEW ls3, ls3 = Without(ls, x), NEW d, Tidy(d, ls3, R3, 0), Renames(h.at, d.at),
         NEW o, o.ok = TRUE, o.list = NULL
  PROVE  Step(h, R, ls, d, R3, ls3, o)
<1>1. Sound(d.at, ls3) /\ DOMAIN d.at = DOMAIN ls3 /\ ls3 \in [DOMAIN ls3 -> Seq(DOMAIN ls3)]
  <2>1. Sound(d.at, ls3)
    BY DEF Tidy
  <2> QED
    BY <2>1, SoundFacts
<1>2. /\ Sound(h.at, ls) /\ R \in SUBSET DOMAIN ls /\ (\A r \in R : Root(ls, r))
      /\ NamesInObjects(h.at, ls) /\ NULL \notin DOMAIN ls
  BY GivenFacts, SoundFacts
<1>3. DOMAIN ls3 = DOMAIN ls \ Below(ls, x) /\ \A c \in DOMAIN ls3 : ls3[c] = ls[c]
  BY DEF Without
<1>4. NamesInObjects(d.at, ls3)
  <2> SUFFICES ASSUME NEW c \in DOMAIN ls3, d.at[c].type = "object", ~d.at[c].ref, NEW m \in ToSet(ls3[c])
               PROVE  d.at[m].key # NoString
    BY DEF NamesInObjects
  <2>1. m \in DOMAIN d.at
    BY <1>1, InSet
  <2>2. h.at[m].key # NoString
    BY <1>1, <1>2, <1>3 DEF NamesInObjects, Renames
  <2> QED
    BY <2>1, <2>2 DEF Renames
<1>5. Follows(h.at, ls, d.at, ls3, o)
  BY <1>1, <1>2, <1>3 DEF Follows, Renames
<1>6. Under(ls3, R3) = Under(ls, R) \ Below(ls, x)
  BY <1>1, <1>2, UnderWithout
<1>7. Below(ls, x) \subseteq Under(ls, R)
  BY DEF Under
<1>8. Missing(ls3, R3) = Missing(ls, R)
  BY <1>3, <1>6, <1>7 DEF Missing
<1> QED
  BY <1>4, <1>5, <1>8 DEF Step, Given

LEMMA StepRoot ==
  ASSUME NEW h, NEW R, NEW ls, Given(h, R, ls), NEW n, NEW x, NewRoot(n, h, ls, R, 0, x),
         NEW r, r = n.r, r # NULL, NEW ls2, ls2 = Grown(ls, r, <<>>), NEW d, d = n.h, NEW o
  PROVE  /\ o.ok = TRUE /\ o.list = NULL => Step(h, R, ls, d, R \cup {r}, ls2, o)
         /\ o.ok = FALSE /\ o.call = "append reference" => Step(h, R, ls, d, R, ls2, o)
<1>1. /\ Sound(h.at, ls) /\ R \in SUBSET DOMAIN ls /\ NamesInObjects(h.at, ls)
      /\ NULL \notin DOMAIN ls /\ DOMAIN h.at = DOMAIN ls /\ ls \in [DOMAIN ls -> Seq(DOMAIN ls)]
  BY GivenFacts, SoundFacts
<1>2. r \in Node \ DOMAIN ls /\ d.at = Grown(h.at, r, x) /\ Tidy(d, ls2, R \cup {r}, 0)
  BY DEF NewRoot
<1>3. /\ DOMAIN ls2 = DOMAIN ls \cup {r} /\ ls2[r] = <<>> /\ \A c \in DOMAIN ls : ls2[c] = ls[c]
  BY <1>2 DEF Grown
<1>4. d.at[r] = x /\ DOMAIN d.at = DOMAIN h.at \cup {r} /\ \A c \in DOMAIN ls : d.at[c] = h.at[c]
  BY <1>1, <1>2 DEF Grown
<1>5. ToSet(<<>>) = {}
  BY DEF ToSet
<1>6. NamesInObjects(d.at, ls2)
  <2> SUFFICES ASSUME NEW c \in DOMAIN ls2, d.at[c].type = "object", ~d.at[c].ref, NEW m \in ToSet(ls2[c])
               PROVE  d.at[m].key # NoString
    BY DEF NamesInObjects
  <2>1. c \in DOMAIN ls /\ m \in ToSet(ls[c])
    BY <1>3, <1>5
  <2>2. m \in DOMAIN ls
    BY <1>1, <2>1, InSet
  <2> QED
    BY <1>4, <2>1, <2>2, <1>1 DEF NamesInObjects
<1>7. Sound(d.at, ls2)
  BY <1>2 DEF Tidy
<1>8. Missing(ls2, R \cup {r}) = Missing(ls, R)
  <2>1. Under(ls2, R \cup {r}) = Under(ls, R) \cup {r}
    BY <1>1, <1>2, <1>7, UnderGrown
  <2> QED
    BY <1>2, <1>3, <2>1 DEF Missing
<1>9. o.ok = TRUE /\ o.list = NULL => Step(h, R, ls, d, R \cup {r}, ls2, o)
  <2> SUFFICES ASSUME o.ok = TRUE, o.list = NULL PROVE Step(h, R, ls, d, R \cup {r}, ls2, o)
    OBVIOUS
  <2>1. Follows(h.at, ls, d.at, ls2, o)
    BY <1>1, <1>3, <1>4 DEF Follows
  <2> QED
    BY <1>2, <1>6, <1>8, <2>1 DEF Step, Given
<1>10. o.ok = FALSE /\ o.call = "append reference" => Step(h, R, ls, d, R, ls2, o)
  <2> SUFFICES ASSUME o.ok = FALSE, o.call = "append reference" PROVE Step(h, R, ls, d, R, ls2, o)
    OBVIOUS
  <2>1. Follows(h.at, ls, d.at, ls2, o)
    BY <1>1, <1>3, <1>4 DEF Follows
  <2>2. Unchanged(h.at, d.at, o)
    BY <1>1, <1>4 DEF Unchanged
  <2>3. Tidy(d, ls2, R, 0)
    BY <1>2 DEF Tidy
  <2> QED
    BY <1>6, <2>1, <2>2, <2>3 DEF Step, Given
<1> QED
  BY <1>9, <1>10

\* The call put r at the end of the list of a.
Appended(o, a, r) ==
  o.ok = TRUE /\ o.list = a /\ o.item = r /\ o.call \in {"append", "append reference"}

LEMMA StepChild ==
  ASSUME NEW h, NEW R, NEW ls, Given(h, R, ls), NEW a \in Under(ls, R), ~h.at[a].ref,
         NEW d, NEW r, NEW x, NewChild(d, r, h, ls, R, 0, a, x), h.at[a].type = "object" => x.key # NoString,
         NEW ls3, ls3 = Listing(Grown(ls, r, <<>>), a, Append(ls[a], r)), NEW g, g = d.h,
         NEW o, Appended(o, a, r)
  PROVE  Step(h, R, ls, g, R, ls3, o)
<1> DEFINE ls2 == Grown(ls, r, <<>>)
           t == Append(ls[a], r)
           U == Under(ls, R)
           R1 == R \cup {r}
<1>1. /\ Sound(h.at, ls) /\ R \in SUBSET DOMAIN ls /\ NamesInObjects(h.at, ls)
      /\ NULL \notin DOMAIN ls /\ DOMAIN h.at = DOMAIN ls /\ ls \in [DOMAIN ls -> Seq(DOMAIN ls)]
  BY GivenFacts, SoundFacts
<1>2. U \subseteq DOMAIN ls /\ R \subseteq U /\ Closed(ls, U)
  BY <1>1, UnderOwns DEF Owns
<1>3. a \in DOMAIN ls
  BY <1>2
<1>4. /\ r \in Node \ DOMAIN ls /\ Tidy(g, ls3, R, 0) /\ SameLabels(Grown(h.at, r, x), g.at)
      /\ \E g2 : Tidy(g2, ls2, R \cup {r}, 0)
  BY DEF NewChild
<1>5. /\ DOMAIN ls2 = DOMAIN ls \cup {r} /\ ToSet(ls2[r]) = {}
      /\ \A c \in DOMAIN ls : ls2[c] = ls[c]
  <2>1. ToSet(<<>>) = {}
    BY DEF ToSet
  <2> QED
    BY <1>4, <2>1 DEF Grown
<1>6. PICK at2 : Sound(at2, ls2)
  BY <1>4 DEF Tidy
<1>7. Sound(g.at, ls3) /\ R \subseteq DOMAIN ls3
  BY <1>4 DEF Tidy
<1> HIDE DEF ls2
<1>8. Under(ls2, R1) = U \cup {r}
  <2>1. ls2 = Grown(ls, r, <<>>)
    BY DEF ls2
  <2> QED
    BY <1>1, <1>4, <1>6, <2>1, UnderGrown
<1>9. ToSet(t) = ToSet(ls[a]) \cup {r}
  BY <1>1, <1>3, AppendSet
<1>10. ToSet(ls2[a]) \subseteq U
  BY <1>2, <1>3, <1>5 DEF Closed
<1>11. ls3 = Listing(ls2, a, t)
  BY DEF ls2
<1> HIDE DEF t, U
<1>12. Under(ls3, R) = U \cup {r}
  <2>1. R1 \in SUBSET DOMAIN ls2
    BY <1>1, <1>5
  <2>2. a \in Under(ls2, R1) /\ R \in SUBSET Under(ls2, R1)
    BY <1>2, <1>8 DEF U
  <2>3. ToSet(t) \subseteq Under(ls2, R1)
    BY <1>3, <1>5, <1>8, <1>9, <1>10
  <2>4. R1 \cup ToSet(ls2[a]) \subseteq R \cup ToSet(t)
    BY <1>3, <1>5, <1>9
  <2>5. Sound(g.at, Listing(ls2, a, t))
    BY <1>7, <1>11
  <2> HIDE DEF R1
  <2>6. Under(Listing(ls2, a, t), R) = Under(ls2, R1)
    BY <1>6, <2>1, <2>2, <2>3, <2>4, <2>5, UnderListing
  <2> QED
    BY <1>8, <1>11, <2>6
<1>13. DOMAIN ls3 = DOMAIN ls \cup {r} /\ ls3[a] = t /\ \A c \in DOMAIN ls2 : c # a => ls3[c] = ls2[c]
  <2>1. a \in DOMAIN ls2
    BY <1>3, <1>5
  <2>2. /\ DOMAIN Listing(ls2, a, t) = DOMAIN ls2 /\ Listing(ls2, a, t)[a] = t
        /\ \A c \in DOMAIN ls2 : c # a => Listing(ls2, a, t)[c] = ls2[c]
    BY <2>1, ListingIs
  <2>3. DOMAIN ls2 = DOMAIN ls \cup {r}
    BY <1>5
  <2> QED
    BY <1>11, <2>2, <2>3
<1>14. Missing(ls3, R) = Missing(ls, R)
  BY <1>4, <1>12, <1>13 DEF Missing, U
<1>15. /\ DOMAIN g.at = DOMAIN ls \cup {r}
       /\ g.at[r].key = x.key
       /\ \A c \in DOMAIN ls : /\ g.at[c].type = h.at[c].type /\ g.at[c].ref = h.at[c].ref
                               /\ g.at[c].key = h.at[c].key
  <2> DEFINE at3 == Grown(h.at, r, x)
  <2>1. DOMAIN at3 = DOMAIN ls \cup {r} /\ at3[r] = x /\ \A c \in DOMAIN ls : at3[c] = h.at[c]
    BY <1>1, <1>4 DEF Grown
  <2> HIDE DEF at3
  <2>2. SameLabels(at3, g.at)
    BY <1>4 DEF at3
  <2>3. /\ DOMAIN g.at = DOMAIN at3
        /\ \A c \in DOMAIN at3 : /\ g.at[c].type = at3[c].type /\ g.at[c].ref = at3[c].ref
                                 /\ g.at[c].key = at3[c].key
    BY <2>2 DEF SameLabels, Label
  <2> QED
    BY <2>1, <2>3
<1>16. NamesInObjects(g.at, ls3)
  <2> SUFFICES ASSUME NEW c \in DOMAIN ls3, g.at[c].type = "object", ~g.at[c].ref, NEW m \in ToSet(ls3[c])
               PROVE  g.at[m].key # NoString
    BY DEF NamesInObjects
  <2>2. c # r
    BY <1>3, <1>4, <1>5, <1>13
  <2>3. c \in DOMAIN ls /\ h.at[c].type = "object" /\ ~h.at[c].ref
    BY <1>13, <1>15, <2>2
  <2>4. m \in ToSet(ls[c]) \/ (c = a /\ m = r)
    BY <1>5, <1>9, <1>13, <2>3
  <2>5. CASE m \in ToSet(ls[c])
    <3>1. m \in DOMAIN ls
      BY <1>1, <2>3, <2>5, InSet
    <3> QED
      BY <1>1, <1>15, <2>3, <2>5, <3>1 DEF NamesInObjects
  <2>6. CASE c = a /\ m = r
    BY <1>15, <2>3, <2>6
  <2> QED
    BY <2>4, <2>5, <2>6
<1>17. EditedIn(h.at, ls[a], o) = t
  BY DEF Appended, EditedIn, t
<1>18. o.call # "remove" /\ o.list = a /\ o.ok = TRUE
  BY DEF Appended
<1>19. Follows(h.at, ls, g.at, ls3, o)
  <2> SUFFICES ASSUME NEW c \in DOMAIN ls
               PROVE  /\ g.at[c].ref = h.at[c].ref
                      /\ ls3[c] = IF c = o.list /\ o.ok THEN EditedIn(h.at, ls[c], o) ELSE ls[c]
    BY <1>18 DEF Follows
  <2> QED
    BY <1>5, <1>13, <1>15, <1>17, <1>18
<1> QED
  BY <1>4, <1>14, <1>16, <1>18, <1>19 DEF Step, Given

LEMMA EditedIs ==
  ASSUME NEW at, NEW s, NEW o
  PROVE  /\ o.call = "insert" =>
              EditedIn(at, s, o) = InsertAt(s, Min({PositionIn(at, s, o.where), Len(s) + 1}), o.item)
         /\ o.call = "remove" => EditedIn(at, s, o) = RemoveAt(s, PositionIn(at, s, o.where))
         /\ o.call = "replace" => EditedIn(at, s, o) = ReplaceAt(s, PositionIn(at, s, o.where), o.item)
BY DEF EditedIn

LEMMA MinPair ==
  ASSUME NEW x \in Int, NEW y \in Int
  PROVE  Min({x, y}) = IF x <= y THEN x ELSE y
<1> DEFINE S == {x, y}
           m == IF x <= y THEN x ELSE y
<1>1. m \in S /\ \A z \in S : m <= z
  OBVIOUS
<1>2. \A z \in S : (\A w \in S : z <= w) => z = m
  OBVIOUS
<1> HIDE DEF S, m
<1>3. Min(S) \in S /\ \A w \in S : Min(S) <= w
  BY <1>1 DEF Min
<1>4. Min(S) = m
  BY <1>2, <1>3
<1> QED
  BY <1>4 DEF S, m

LEMMA InsertsAt ==
  ASSUME NEW at, NEW s, Len(s) \in Nat, NEW which \in Nat, NEW o, o.call = "insert", o.where = Nth(which)
  PROVE  EditedIn(at, s, o) = InsertAt(s, InsertPlace(s, which), o.item)
<1>1. PositionIn(at, s, o.where) = which + 1
  BY DEF PositionIn, Nth
<1>2. Min({which + 1, Len(s) + 1}) = IF which + 1 <= Len(s) + 1 THEN which + 1 ELSE Len(s) + 1
  BY MinPair
<1>3. Min({which + 1, Len(s) + 1}) = InsertPlace(s, which)
  BY <1>2 DEF InsertPlace
<1> QED
  BY <1>1, <1>3, EditedIs

\* Three ways to rearrange.
LEMMA Joins ==
  ASSUME NEW h, NEW R, NEW ls, Given(h, R, ls), NEW a \in Under(ls, R), ~h.at[a].ref, NEW x \in R,
         NEW t, ToSet(t) = ToSet(ls[a]) \cup {x}, NEW R2, R2 = R \ {x}
  PROVE  Rearranges(h, R, ls, a, t, R2)
<1>1. R \subseteq Under(ls, R) /\ Closed(ls, Under(ls, R))
  BY GivenFacts, UnderOwns DEF Owns
<1>2. ToSet(ls[a]) \subseteq Under(ls, R)
  BY <1>1 DEF Closed
<1> QED
  BY <1>1, <1>2 DEF Rearranges

LEMMA InList ==
  ASSUME NEW h, NEW R, NEW ls, Given(h, R, ls), NEW a \in Under(ls, R), NEW i \in 1 .. Len(ls[a]),
         NEW x, x = ls[a][i]
  PROVE  /\ a \in DOMAIN ls /\ ls[a] \in Seq(DOMAIN ls) /\ Once(ls[a]) /\ x \in ToSet(ls[a]) /\ x \notin R
         /\ R \subseteq Under(ls, R) /\ ToSet(ls[a]) \subseteq Under(ls, R)
<1>1. /\ R \subseteq Under(ls, R) /\ Closed(ls, Under(ls, R)) /\ Under(ls, R) \subseteq DOMAIN ls
      /\ Sound(h.at, ls) /\ \A r \in R : Root(ls, r)
  BY GivenFacts, UnderOwns DEF Owns
<1>2. ToSet(ls[a]) \subseteq Under(ls, R) /\ a \in DOMAIN ls
  BY <1>1 DEF Closed
<1>3. ls[a] \in Seq(DOMAIN ls) /\ Once(ls[a])
  BY <1>1, <1>2, SoundFacts
<1>4. x \in ToSet(ls[a])
  BY <1>3, InSet
<1> QED
  BY <1>1, <1>2, <1>3, <1>4 DEF Root

LEMMA Leaves ==
  ASSUME NEW h, NEW R, NEW ls, Given(h, R, ls), NEW a \in Under(ls, R), ~h.at[a].ref,
         NEW x \in ToSet(ls[a]), NEW t, ToSet(t) = ToSet(ls[a]) \ {x}, NEW R2, R2 = R \cup {x}
  PROVE  Rearranges(h, R, ls, a, t, R2)
<1>1. R \subseteq Under(ls, R) /\ Closed(ls, Under(ls, R))
  BY GivenFacts, UnderOwns DEF Owns
<1>2. ToSet(ls[a]) \subseteq Under(ls, R)
  BY <1>1 DEF Closed
<1> QED
  BY <1>1, <1>2 DEF Rearranges

LEMMA Swaps ==
  ASSUME NEW h, NEW R, NEW ls, Given(h, R, ls), NEW a \in Under(ls, R), ~h.at[a].ref,
         NEW x \in ToSet(ls[a]), NEW y \in R,
         NEW t, ToSet(t) = (ToSet(ls[a]) \ {x}) \cup {y}, NEW R2, R2 = (R \ {y}) \cup {x}
  PROVE  Rearranges(h, R, ls, a, t, R2)
<1>1. R \subseteq Under(ls, R) /\ Closed(ls, Under(ls, R))
  BY GivenFacts, UnderOwns DEF Owns
<1>2. ToSet(ls[a]) \subseteq Under(ls, R)
  BY <1>1 DEF Closed
<1> QED
  BY <1>1, <1>2 DEF Rearranges

\* A call on list a that succeeds, and what it is given.
Did(o, call, a, item) == o.ok = TRUE /\ o.list = a /\ o.call = call /\ o.item = item

Steps(h, R, ls, d, R2, o) == \E ls2 : Step(h, R, ls, d, R2, ls2, o)

LEMMA StepTakenOut ==
  ASSUME NEW h, NEW R, NEW ls, Given(h, R, ls), NEW a \in Under(ls, R), ~h.at[a].ref,
         NEW i \in 1 .. Len(ls[a]), NEW x, NEW d, TakenOut(d, ls, R, 0, a, i, x), SameLabels(h.at, d.h.at),
         NEW g, g = d.h, NEW o, Did(o, "remove", a, x), PositionIn(h.at, ls[a], o.where) = i
  PROVE  Steps(h, R, ls, g, R \cup {x}, o)
<1> DEFINE t == RemoveAt(ls[a], i)
           ls2 == Listing(ls, a, t)
           R2 == R \cup {x}
<1>1. x = ls[a][i] /\ Tidy(g, ls2, R2, 0)
  BY DEF TakenOut
<1>2. /\ a \in DOMAIN ls /\ ls[a] \in Seq(DOMAIN ls) /\ Once(ls[a]) /\ x \in ToSet(ls[a])
  BY <1>1, InList
<1>3. ToSet(t) = ToSet(ls[a]) \ {x}
  BY <1>1, <1>2, RemoveSet
<1>4. AsTold(h.at, ls[a], t, o)
  <2>1. i \in DOMAIN ls[a]
    BY <1>2
  <2>2. o.ok = TRUE /\ o.call = "remove"
    BY DEF Did
  <2> QED
    BY <2>1, <2>2, EditedIs DEF AsTold
<1> HIDE DEF t, ls2, R2
<1>5. Rearranges(h, R, ls, a, t, R2)
  BY <1>2, <1>3, Leaves DEF R2
<1>6. Renames(h.at, g.at)
  BY SameRenames
<1>7. NamesNew(h.at, g.at, a, ls[a], t)
  BY <1>3 DEF NamesNew
<1>8. o.list = a
  BY DEF Did
<1>9. Step(h, R, ls, g, R2, ls2, o)
  BY <1>1, <1>4, <1>5, <1>6, <1>7, <1>8, StepListing DEF ls2
<1> QED
  BY <1>9 DEF Steps, R2

LEMMA StepRemoved ==
  ASSUME NEW h, NEW R, NEW ls, Given(h, R, ls), NEW a \in Under(ls, R), ~h.at[a].ref,
         NEW i \in 1 .. Len(ls[a]), NEW x, NEW d, Removed(d, ls, R, 0, a, i, x), Labelled(h.at, d.h.at),
         NEW g, g = d.h, NEW o, Did(o, "remove", a, x), PositionIn(h.at, ls[a], o.where) = i
  PROVE  Steps(h, R, ls, g, R, o)
<1> DEFINE t == RemoveAt(ls[a], i)
           ls2 == Listing(ls, a, t)
           R2 == R \cup {x}
           ls3 == Without(ls2, x)
<1>1. x = ls[a][i] /\ Tidy(g, ls3, R, 0) /\ \E e : Tidy(e, ls2, R2, 0)
  BY DEF Removed
<1>2. /\ a \in DOMAIN ls /\ ls[a] \in Seq(DOMAIN ls) /\ Once(ls[a]) /\ x \in ToSet(ls[a]) /\ x \notin R
  BY <1>1, InList
<1>3. ToSet(t) = ToSet(ls[a]) \ {x}
  BY <1>1, <1>2, RemoveSet
<1>4. AsTold(h.at, ls[a], t, o)
  <2>1. i \in DOMAIN ls[a]
    BY <1>2
  <2>2. o.ok = TRUE /\ o.call = "remove"
    BY DEF Did
  <2> QED
    BY <2>1, <2>2, EditedIs DEF AsTold
<1>5. x \in R2 /\ R = R2 \ {x}
  BY <1>2
<1> HIDE DEF t, ls2, R2, ls3
<1>6. PICK e : Tidy(e, ls2, R2, 0)
  BY <1>1
<1>7. Rearranges(h, R, ls, a, t, R2)
  BY <1>2, <1>3, Leaves DEF R2
<1>8. Renames(h.at, g.at)
  BY LabelledRenames
<1>9. NamesNew(h.at, g.at, a, ls[a], t)
  BY <1>3 DEF NamesNew
<1>10. o.list = a
  BY DEF Did
<1>11. Step(h, R, ls, g, R, ls3, o)
  BY <1>1, <1>4, <1>5, <1>6, <1>7, <1>8, <1>9, <1>10, StepCut DEF ls2, ls3
<1> QED
  BY <1>11 DEF Steps

LEMMA StepReplaced ==
  ASSUME NEW h, NEW R, NEW ls, Given(h, R, ls), NEW a \in Under(ls, R), ~h.at[a].ref, NEW y \in R,
         NEW i \in 1 .. Len(ls[a]), NEW x, NEW d, Replaced(d, ls, R, 0, a, i, x, y),
         NEW g, g = d.h, Renames(h.at, g.at),
         h.at[a].type = "object" => (y \in DOMAIN g.at => g.at[y].key # NoString),
         NEW o, Did(o, "replace", a, y), PositionIn(h.at, ls[a], o.where) = i
  PROVE  Steps(h, R, ls, g, R \ {y}, o)
<1> DEFINE t == ReplaceAt(ls[a], i, y)
           ls2 == Listing(ls, a, t)
           R2 == (R \ {y}) \cup {x}
           R3 == R \ {y}
           ls3 == Without(ls2, x)
<1>1. x = ls[a][i] /\ Tidy(g, ls3, R3, 0) /\ \E e : Tidy(e, ls2, R2, 0)
  BY DEF Replaced
<1>2. /\ a \in DOMAIN ls /\ ls[a] \in Seq(DOMAIN ls) /\ Once(ls[a]) /\ x \in ToSet(ls[a]) /\ x \notin R
  BY <1>1, InList
<1>3. y \in DOMAIN ls
  BY GivenFacts
<1>4. ToSet(t) = (ToSet(ls[a]) \ {x}) \cup {y}
  BY <1>1, <1>2, <1>3, ReplaceSet
<1>5. AsTold(h.at, ls[a], t, o)
  <2>1. o.ok = TRUE /\ o.call = "replace" /\ o.item = y
    BY DEF Did
  <2> QED
    BY <2>1, EditedIs DEF AsTold
<1>6. x \in R2 /\ R3 = R2 \ {x}
  BY <1>2
<1> HIDE DEF t, ls2, R2, R3, ls3
<1>7. PICK e : Tidy(e, ls2, R2, 0)
  BY <1>1
<1>8. Rearranges(h, R, ls, a, t, R2)
  BY <1>2, <1>4, Swaps DEF R2
<1>9. NamesNew(h.at, g.at, a, ls[a], t)
  BY <1>4 DEF NamesNew
<1>10. o.list = a
  BY DEF Did
<1>11. Step(h, R, ls, g, R3, ls3, o)
  BY <1>1, <1>5, <1>6, <1>7, <1>8, <1>9, <1>10, StepCut DEF ls2, ls3
<1> QED
  BY <1>11 DEF Steps, R3

\* x, with a name if a is an object, is in the list of a now.
LEMMA StepJoined ==
  ASSUME NEW h, NEW R, NEW ls, Given(h, R, ls), NEW a \in Under(ls, R), ~h.at[a].ref, NEW x \in R,
         NEW t, ToSet(t) = ToSet(ls[a]) \cup {x}, NEW g, Tidy(g, Listing(ls, a, t), R \ {x}, 0),
         Renames(h.at, g.at), h.at[a].type = "object" => (x \in DOMAIN g.at => g.at[x].key # NoString),
         NEW o, o.ok = TRUE, o.list = a, o.call # "remove", EditedIn(h.at, ls[a], o) = t
  PROVE  Steps(h, R, ls, g, R \ {x}, o)
<1> DEFINE ls2 == Listing(ls, a, t)
           R2 == R \ {x}
<1>1. AsTold(h.at, ls[a], t, o)
  BY DEF AsTold
<1> HIDE DEF ls2, R2
<1>2. Rearranges(h, R, ls, a, t, R2)
  BY Joins DEF R2
<1>3. NamesNew(h.at, g.at, a, ls[a], t)
  BY DEF NamesNew
<1>4. Tidy(g, ls2, R2, 0)
  BY DEF ls2, R2
<1>5. Step(h, R, ls, g, R2, ls2, o)
  BY <1>1, <1>2, <1>3, <1>4, StepListing DEF ls2
<1> QED
  BY <1>5 DEF Steps, R2

-----------------------------------------------------------------------------
(* Each call.                                                              *)

\* The search for where comes to it: no item, or the one at that place of s.
Spot(at, s, where, it) ==
  \/ it = NULL /\ PositionIn(at, s, where) \notin DOMAIN s
  \/ \E i \in 1 .. Len(s) : it = s[i] /\ PositionIn(at, s, where) = i

LEMMA ArraySpot ==
  ASSUME NEW h, NEW R, NEW ls, Given(h, R, ls), NEW a \in DOMAIN ls, ~h.at[a].ref, NEW i \in Int
  PROVE  Spot(h.at, ls[a], Nth(i), IF i < 0 THEN NULL ELSE get_array_item(h, a, i))
<1> DEFINE s == ls[a]
           it == IF i < 0 THEN NULL ELSE get_array_item(h, a, i)
<1>1. Sound(h.at, ls) /\ s \in Seq(DOMAIN ls)
  BY GivenFacts, SoundFacts
<1>2. DOMAIN s = 1 .. Len(s) /\ Len(s) \in Nat
  BY <1>1
<1>3. PositionIn(h.at, s, Nth(i)) = i + 1
  BY DEF PositionIn, Nth
<1>4. i >= 0 => it = IF i < Len(s) THEN s[i + 1] ELSE NULL
  <2> SUFFICES ASSUME i >= 0 PROVE it = IF i < Len(s) THEN s[i + 1] ELSE NULL
    OBVIOUS
  <2>1. i \in Nat
    OBVIOUS
  <2>2. get_array_item(h, a, i) = IF i < Len(s) THEN s[i + 1] ELSE NULL
    BY <1>1, <2>1, Gets
  <2> QED
    BY <2>1, <2>2
<1>5. i < 0 => it = NULL
  OBVIOUS
<1> HIDE DEF s, it
<1>6. CASE i >= 0 /\ i < Len(s)
  <2>1. i + 1 \in 1 .. Len(s) /\ it = s[i + 1]
    BY <1>2, <1>4, <1>6
  <2> QED
    BY <1>3, <2>1 DEF Spot, s, it
<1>7. CASE ~(i >= 0 /\ i < Len(s))
  <2>1. it = NULL /\ i + 1 \notin DOMAIN s
    BY <1>2, <1>4, <1>5, <1>7
  <2> QED
    BY <1>3, <2>1 DEF Spot, s, it
<1> QED
  BY <1>6, <1>7

LEMMA ObjectSpot ==
  ASSUME NEW h, NEW R, NEW ls, Given(h, R, ls), NEW a \in DOMAIN ls, ~h.at[a].ref, h.at[a].type = "object",
         NEW name, name # NoString, NEW exact \in BOOLEAN
  PROVE  Spot(h.at, ls[a], Named(name, exact), get_object_item(h, a, name, exact))
<1> DEFINE s == ls[a]
           it == get_object_item(h, a, name, exact)
           places == NamedIn(h.at, s, name, exact)
<1>1. Sound(h.at, ls) /\ s \in Seq(DOMAIN ls) /\ NamesInObjects(h.at, ls)
  BY GivenFacts, SoundFacts
<1>2. DOMAIN s = 1 .. Len(s) /\ Len(s) \in Nat
  BY <1>1
<1>3. \A i \in 1 .. Len(s) : h.at[s[i]].key # NoString
  BY <1>1, InSet DEF NamesInObjects
<1>4. FoundByName(it, h.at, s, name, exact)
  BY <1>1, Finds
<1> HIDE DEF s, it
<1>5. /\ places # {} => Min(places) \in 1 .. Len(s)
      /\ it = IF places = {} THEN NULL ELSE s[Min(places)]
  BY <1>3, <1>4 DEF FoundByName
<1>6. Named(name, exact).name = name /\ Named(name, exact).exact = exact
  BY DEF Named
<1>7. PositionIn(h.at, s, Named(name, exact)) = IF places = {} THEN 0 ELSE Min(places)
  BY <1>6 DEF PositionIn
<1> HIDE DEF places
<1>8. CASE places = {}
  BY <1>2, <1>5, <1>7, <1>8 DEF Spot, s, it
<1>9. CASE places # {}
  <2> DEFINE m == Min(places)
  <2>1. m \in 1 .. Len(s) /\ it = s[m] /\ PositionIn(h.at, s, Named(name, exact)) = m
    BY <1>5, <1>7, <1>9
  <2> HIDE DEF m
  <2> QED
    BY <2>1 DEF Spot, s, it
<1> QED
  BY <1>8, <1>9

\* What the calls that take an item should come to, and those that remove one.
TakesWell(h, R, ls, d, o) ==
  \/ d.r = TRUE /\ (o.ok = TRUE => Steps(h, R, ls, d.h, R \ {o.item}, o))
  \/ d.r = FALSE /\ (o.ok = FALSE => Steps(h, R, ls, d.h, R, o))

RemovesWell(h, R, ls, d, R2, o) ==
  \/ d.r = NULL /\ (o.ok = FALSE => Steps(h, R, ls, d.h, R, o))
  \/ d.r # NULL /\ (o.ok = TRUE /\ o.item = d.r => Steps(h, R, ls, d.h, R2, o))

\* The program gets what was taken out, or it is freed.
DetachesWell(h, R, ls, c, o) ==
  RemovesWell(h, R, ls, c, R \cup {c.r}, o) /\ RemovesWell(h, R, ls, DeleteDetached(c), R, o)

\* A list that is no reference, and is the program's.
Mine(h, R, ls, a) == a \in Under(ls, R) /\ ~h.at[a].ref

LEMMA MineFacts ==
  ASSUME NEW h, NEW R, NEW ls, Given(h, R, ls), NEW a, Mine(h, R, ls, a)
  PROVE  a \in Under(ls, R) /\ a \in DOMAIN ls /\ ~h.at[a].ref /\ ls[a] \in Seq(DOMAIN ls) /\ Len(ls[a]) \in Nat
<1>1. Under(ls, R) \subseteq DOMAIN ls /\ Sound(h.at, ls)
  BY GivenFacts, UnderOwns DEF Owns
<1>2. a \in DOMAIN ls
  BY <1>1 DEF Mine
<1>3. ls[a] \in Seq(DOMAIN ls)
  BY <1>1, <1>2, SoundFacts
<1> QED
  BY <1>2, <1>3 DEF Mine

LEMMA StepFails ==
  ASSUME NEW h, NEW R, NEW ls, Given(h, R, ls), NEW o, o.ok = FALSE, o.call # "remove"
  PROVE  Steps(h, R, ls, h, R, o)
<1>1. Idle(h.at, ls, o)
  BY DEF Idle
<1>2. Tidy(h, ls, R, 0)
  BY GivenFacts
<1>3. Step(h, R, ls, h, R, ls, o)
  BY <1>1, <1>2, StepNone
<1> QED
  BY <1>3 DEF Steps

LEMMA AppendCall ==
  ASSUME NEW h, NEW R, NEW ls, Given(h, R, ls), NEW a, Mine(h, R, ls, a), h.at[a].type = "array",
         NEW x \in R, a \notin Below(ls, x), NEW o, o.call = "append", o.list = a, o.item = x
  PROVE  TakesWell(h, R, ls, add_item_to_array(h, a, x), o)
<1> DEFINE d == add_item_to_array(h, a, x)
           t == Append(ls[a], x)
           g == d.h
<1>1. Tidy(h, ls, R, 0) /\ x \in DOMAIN ls /\ Root(ls, x)
  BY GivenFacts
<1>2. a \in Under(ls, R) /\ a \in DOMAIN ls /\ ~h.at[a].ref /\ ls[a] \in Seq(DOMAIN ls)
  BY MineFacts
<1>3. d.r = TRUE /\ SameLabels(h.at, d.h.at) /\ Tidy(d.h, Listing(ls, a, t), R \ {x}, 0)
  BY <1>1, <1>2, AddsItem
<1>4. ToSet(t) = ToSet(ls[a]) \cup {x}
  BY <1>2, AppendSet
<1>5. EditedIn(h.at, ls[a], o) = t
  BY DEF EditedIn
<1>6. o.call # "remove" /\ h.at[a].type # "object"
  OBVIOUS
<1> HIDE DEF d, t, g
<1>7. Tidy(g, Listing(ls, a, t), R \ {x}, 0) /\ Renames(h.at, g.at)
  BY <1>3, SameRenames DEF g
<1>8. o.ok = TRUE => Steps(h, R, ls, g, R \ {x}, o)
  BY <1>2, <1>4, <1>5, <1>6, <1>7, StepJoined
<1> QED
  BY <1>3, <1>8 DEF TakesWell, d, g

LEMMA InsertCall ==
  ASSUME NEW h, NEW R, NEW ls, Given(h, R, ls), NEW a, Mine(h, R, ls, a), h.at[a].type = "array",
         NEW x \in R, a \notin Below(ls, x), NEW i \in Int,
         NEW o, o.call = "insert", o.list = a, o.item = x, o.where = Nth(i)
  PROVE  TakesWell(h, R, ls, cJSON_InsertItemInArray(h, a, i, x), o)
<1> DEFINE d == cJSON_InsertItemInArray(h, a, i, x)
           k == InsertPlace(ls[a], i)
           t == InsertAt(ls[a], k, x)
           g == d.h
<1>1. Tidy(h, ls, R, 0) /\ x \in DOMAIN ls /\ Root(ls, x)
  BY GivenFacts
<1>2. a \in Under(ls, R) /\ a \in DOMAIN ls /\ ~h.at[a].ref /\ ls[a] \in Seq(DOMAIN ls) /\ Len(ls[a]) \in Nat
  BY MineFacts
<1>3. CASE i < 0
  <2>1. d = [h |-> h, r |-> FALSE]
    BY <1>3 DEF cJSON_InsertItemInArray
  <2>2. d.h = h /\ d.r = FALSE
    BY <2>1
  <2> HIDE DEF d
  <2>3. o.ok = FALSE => Steps(h, R, ls, h, R, o)
    BY StepFails
  <2> QED
    BY <2>2, <2>3 DEF TakesWell, d
<1>4. CASE i >= 0
  <2>1. i \in Nat
    BY <1>4
  <2>2. d.r = TRUE /\ SameLabels(h.at, d.h.at) /\ Tidy(d.h, Listing(ls, a, t), R \ {x}, 0)
    BY <1>1, <1>2, <2>1, InsertsItem
  <2>3. k \in 1 .. Len(ls[a]) + 1
    BY <1>2, <2>1 DEF InsertPlace
  <2> HIDE DEF k
  <2>4. ToSet(t) = ToSet(ls[a]) \cup {x}
    BY <1>1, <1>2, <2>3, InsertSet
  <2>5. EditedIn(h.at, ls[a], o) = t
    BY <1>2, <2>1, InsertsAt DEF k
  <2>6. o.call # "remove" /\ h.at[a].type # "object"
    OBVIOUS
  <2> HIDE DEF d, t, g
  <2>7. Tidy(g, Listing(ls, a, t), R \ {x}, 0) /\ Renames(h.at, g.at)
    BY <2>2, SameRenames DEF g
  <2>8. o.ok = TRUE => Steps(h, R, ls, g, R \ {x}, o)
    BY <1>2, <2>4, <2>5, <2>6, <2>7, StepJoined
  <2> QED
    BY <2>2, <2>8 DEF TakesWell, d, g
<1> QED
  BY <1>3, <1>4

LEMMA ReplaceCall ==
  ASSUME NEW h, NEW R, NEW ls, Given(h, R, ls), NEW a, Mine(h, R, ls, a), h.at[a].type = "array",
         NEW y \in R, a \notin Below(ls, y),
         NEW o, o.call = "replace", o.list = a, o.item = y, NEW it, Spot(h.at, ls[a], o.where, it)
  PROVE  TakesWell(h, R, ls, cJSON_ReplaceItemViaPointer(h, a, it, y), o)
<1> DEFINE d == cJSON_ReplaceItemViaPointer(h, a, it, y)
           g == d.h
<1>1. Tidy(h, ls, R, 0) /\ y \in DOMAIN ls /\ Root(ls, y) /\ 0 \in Int
  BY GivenFacts
<1>2. a \in Under(ls, R) /\ a \in DOMAIN ls /\ ~h.at[a].ref /\ ls[a] \in Seq(DOMAIN ls) /\ Len(ls[a]) \in Nat
  BY MineFacts
<1>3. ASSUME it = NULL PROVE TakesWell(h, R, ls, d, o)
  <2>1. d = [h |-> h, r |-> FALSE]
    BY <1>3 DEF cJSON_ReplaceItemViaPointer
  <2>2. d.h = h /\ d.r = FALSE
    BY <2>1
  <2> HIDE DEF d
  <2>3. o.ok = FALSE => Steps(h, R, ls, h, R, o)
    BY StepFails
  <2> QED
    BY <2>2, <2>3 DEF TakesWell
<1>4. ASSUME NEW i \in 1 .. Len(ls[a]), it = ls[a][i], PositionIn(h.at, ls[a], o.where) = i
      PROVE  TakesWell(h, R, ls, d, o)
  <2>1. d.r = TRUE /\ Labelled(h.at, d.h.at) /\ Replaced(d, ls, R, 0, a, i, it, y)
    BY <1>1, <1>2, <1>4, ReplacesItem
  <2>2. h.at[a].type # "object"
    OBVIOUS
  <2> HIDE DEF d, g
  <2>3. Renames(h.at, g.at)
    BY <2>1, LabelledRenames DEF g
  <2>4. o.ok = TRUE => Steps(h, R, ls, g, R \ {y}, o)
    <3> SUFFICES ASSUME o.ok = TRUE PROVE Steps(h, R, ls, g, R \ {y}, o)
      OBVIOUS
    <3>1. Did(o, "replace", a, y)
      BY DEF Did
    <3>2. g = d.h
      BY DEF g
    <3> QED
      BY <1>2, <1>4, <2>1, <2>2, <2>3, <3>1, <3>2, StepReplaced
  <2> QED
    BY <2>1, <2>4 DEF TakesWell, g
<1>5. \/ it = NULL
      \/ \E i \in 1 .. Len(ls[a]) : it = ls[a][i] /\ PositionIn(h.at, ls[a], o.where) = i
  BY DEF Spot
<1> HIDE DEF d, g
<1>6. TakesWell(h, R, ls, d, o)
  BY <1>3, <1>4, <1>5
<1> QED
  BY <1>6 DEF d

LEMMA DetachCall ==
  ASSUME NEW h, NEW R, NEW ls, Given(h, R, ls), NEW a, Mine(h, R, ls, a),
         NEW o, o.call = "remove", o.list = a, NEW it, Spot(h.at, ls[a], o.where, it)
  PROVE  DetachesWell(h, R, ls, cJSON_DetachItemViaPointer(h, a, it), o)
<1> DEFINE c == cJSON_DetachItemViaPointer(h, a, it)
           d == DeleteDetached(c)
           g == c.h
           e == d.h
<1>1. Tidy(h, ls, R, 0) /\ 0 \in Int
  BY GivenFacts
<1>2. a \in Under(ls, R) /\ a \in DOMAIN ls /\ ~h.at[a].ref /\ ls[a] \in Seq(DOMAIN ls) /\ Len(ls[a]) \in Nat
  BY MineFacts
<1>3. ASSUME it = NULL, PositionIn(h.at, ls[a], o.where) \notin DOMAIN ls[a]
      PROVE  RemovesWell(h, R, ls, c, R \cup {c.r}, o) /\ RemovesWell(h, R, ls, d, R, o)
  <2>1. c.r = NULL /\ c.h = h /\ d.r = NULL /\ d.h = h
    BY <1>1, <1>3, DeletesNothing
  <2> HIDE DEF c, d
  <2>2. o.ok = FALSE => Steps(h, R, ls, h, R, o)
    <3> SUFFICES ASSUME o.ok = FALSE PROVE Steps(h, R, ls, h, R, o)
      OBVIOUS
    <3>1. Idle(h.at, ls, o)
      BY <1>3 DEF Idle
    <3>2. Step(h, R, ls, h, R, ls, o)
      BY <1>1, <3>1, StepNone
    <3> QED
      BY <3>2 DEF Steps
  <2> QED
    BY <2>1, <2>2 DEF RemovesWell
<1>4. ASSUME NEW i \in 1 .. Len(ls[a]), it = ls[a][i], PositionIn(h.at, ls[a], o.where) = i
      PROVE  RemovesWell(h, R, ls, c, R \cup {c.r}, o) /\ RemovesWell(h, R, ls, d, R, o)
  <2>1. c.r = it /\ it # NULL /\ SameLabels(h.at, c.h.at) /\ TakenOut(c, ls, R, 0, a, i, it)
    BY <1>1, <1>2, <1>4, DetachesItem
  <2>2. d.r = it /\ Labelled(h.at, d.h.at) /\ Removed(d, ls, R, 0, a, i, it)
    BY <1>1, <1>2, <1>4, DeletesDetached
  <2> HIDE DEF c, d, g, e
  <2>3. g = c.h /\ e = d.h
    BY DEF g, e
  <2>4. ASSUME o.ok = TRUE, o.item = it
        PROVE  Steps(h, R, ls, g, R \cup {it}, o) /\ Steps(h, R, ls, e, R, o)
    <3>1. Did(o, "remove", a, it)
      BY <2>4 DEF Did
    <3>2. Steps(h, R, ls, g, R \cup {it}, o)
      BY <1>2, <1>4, <2>1, <2>3, <3>1, StepTakenOut
    <3>3. Steps(h, R, ls, e, R, o)
      BY <1>2, <1>4, <2>2, <2>3, <3>1, StepRemoved
    <3> QED
      BY <3>2, <3>3
  <2>5. RemovesWell(h, R, ls, c, R \cup {c.r}, o)
    BY <2>1, <2>3, <2>4 DEF RemovesWell
  <2>6. RemovesWell(h, R, ls, d, R, o)
    BY <2>1, <2>2, <2>3, <2>4 DEF RemovesWell
  <2> QED
    BY <2>5, <2>6
<1>5. \/ it = NULL /\ PositionIn(h.at, ls[a], o.where) \notin DOMAIN ls[a]
      \/ \E i \in 1 .. Len(ls[a]) : it = ls[a][i] /\ PositionIn(h.at, ls[a], o.where) = i
  BY DEF Spot
<1> HIDE DEF c, d, g, e
<1>6. RemovesWell(h, R, ls, c, R \cup {c.r}, o) /\ RemovesWell(h, R, ls, d, R, o)
  BY <1>3, <1>4, <1>5
<1> QED
  BY <1>6 DEF DetachesWell, c, d

LEMMA AppendNamedCall ==
  ASSUME NEW h, NEW R, NEW ls, Given(h, R, ls), NEW a, Mine(h, R, ls, a),
         NEW x \in R, a \notin Below(ls, x), NEW name \in Chars, name # NoString, NEW const \in BOOLEAN,
         NEW o, o.call = "append", o.list = a, o.item = x
  PROVE  TakesWell(h, R, ls, add_item_to_object(h, a, name, x, const), o)
<1> DEFINE d == add_item_to_object(h, a, name, x, const)
           t == Append(ls[a], x)
           g == d.h
           named == AtWith(h.at, x, Titled(h.at[x], name, const))
<1>1. Tidy(h, ls, R, 0) /\ x \in DOMAIN ls /\ Root(ls, x) /\ 0 \in Int /\ Sound(h.at, ls)
  BY GivenFacts
<1>2. a \in Under(ls, R) /\ a \in DOMAIN ls /\ ~h.at[a].ref /\ ls[a] \in Seq(DOMAIN ls)
  BY MineFacts
<1>3. AddedOrNot(d, h, ls, R, 0, a, x, name, const)
  BY <1>1, <1>2, AddsNamed
<1> HIDE DEF d
<1>4. ASSUME d.r = FALSE, d.h = h PROVE TakesWell(h, R, ls, d, o)
  <2>1. o.ok = FALSE => Steps(h, R, ls, h, R, o)
    BY StepFails
  <2> QED
    BY <1>4, <2>1 DEF TakesWell
<1>5. ASSUME d.r = TRUE, AddedNamed(d, h, ls, R, 0, a, x, name, const)
      PROVE  TakesWell(h, R, ls, d, o)
  <2>1. Tidy(g, Listing(ls, a, t), R \ {x}, 0) /\ SameLabels(named, g.at)
    BY <1>5 DEF AddedNamed
  <2>2. ToSet(t) = ToSet(ls[a]) \cup {x}
    BY <1>2, AppendSet
  <2>3. EditedIn(h.at, ls[a], o) = t
    BY DEF EditedIn
  <2>4. o.call # "remove"
    OBVIOUS
  <2> HIDE DEF t, g, named
  <2>5. Labelled(named, g.at)
    BY <2>1, SameRenames
  <2>6. Renames(h.at, g.at) /\ (x \in DOMAIN g.at => g.at[x].key = name)
    BY <1>1, <2>5, NamedRenames DEF named
  <2>7. o.ok = TRUE => Steps(h, R, ls, g, R \ {x}, o)
    BY <1>2, <2>1, <2>2, <2>3, <2>4, <2>6, StepJoined
  <2> QED
    BY <1>5, <2>7 DEF TakesWell, g
<1>6. TakesWell(h, R, ls, d, o)
  BY <1>3, <1>4, <1>5 DEF AddedOrNot
<1> QED
  BY <1>6 DEF d

\* An item that is only renamed.
LEMMA NamedUnchanged ==
  ASSUME NEW h, NEW ls, Sound(h.at, ls), NEW y \in DOMAIN ls, NEW key, NEW const,
         NEW at2, at2 = AtWith(h.at, y, Titled(h.at[y], key, const)), NEW o, o.call = "replace", o.item = y
  PROVE  /\ Unchanged(h.at, at2, o)
         /\ Titled(h.at[y], key, const).type = h.at[y].type /\ Titled(h.at[y], key, const).ref = h.at[y].ref
<1>1. h.at[y] \in Item /\ y \in DOMAIN h.at
  BY SoundFacts
<1>2. /\ Titled(h.at[y], key, const).type = h.at[y].type /\ Titled(h.at[y], key, const).ref = h.at[y].ref
      /\ Titled(h.at[y], key, const).key = key /\ Titled(h.at[y], key, const).const = const
  BY <1>1 DEF Titled, Item
<1>3. /\ DOMAIN at2 = DOMAIN h.at /\ at2[y] = Titled(h.at[y], key, const)
      /\ \A m \in DOMAIN h.at : m # y => at2[m] = h.at[m]
  BY <1>1, AtWithIs
<1>4. at2[y] = [h.at[y] EXCEPT !.key = at2[y].key, !.const = at2[y].const]
  BY <1>2, <1>3 DEF Titled
<1> QED
  BY <1>2, <1>3, <1>4 DEF Unchanged

LEMMA ReplaceNamedCall ==
  ASSUME NEW h, NEW R, NEW ls, Given(h, R, ls), NEW a, Mine(h, R, ls, a), h.at[a].type = "object",
         NEW y \in R, a \notin Below(ls, y), NEW name \in Chars, name # NoString, NEW exact \in BOOLEAN,
         NEW o, o.call = "replace", o.list = a, o.item = y, o.where = Named(name, exact)
  PROVE  TakesWell(h, R, ls, replace_item_in_object(h, a, name, y, exact), o)
<1> DEFINE d == replace_item_in_object(h, a, name, y, exact)
           g == d.h
           s == ls[a]
           places == NamedIn(h.at, s, name, exact)
           named == AtWith(h.at, y, Titled(h.at[y], name, FALSE))
<1>1. Tidy(h, ls, R, 0) /\ y \in DOMAIN ls /\ Root(ls, y) /\ 0 \in Int /\ Sound(h.at, ls)
      /\ NamesInObjects(h.at, ls)
  BY GivenFacts
<1>2. a \in Under(ls, R) /\ a \in DOMAIN ls /\ ~h.at[a].ref /\ s \in Seq(DOMAIN ls)
  BY MineFacts
<1>3. \A j \in 1 .. Len(s) : h.at[s[j]].key # NoString
  BY <1>1, <1>2, InSet DEF NamesInObjects
<1>4. ReplacedOrNot(d, h, ls, R, 0, a, y, name, exact)
  BY <1>1, <1>2, ReplacesNamed
<1> HIDE DEF d
<1>5. ASSUME d.r = FALSE, Tidy(d.h, ls, R, 0), NEW key, NEW const,
             d.h.at = AtWith(h.at, y, Titled(h.at[y], key, const))
      PROVE  TakesWell(h, R, ls, d, o)
  <2> DEFINE x == Titled(h.at[y], key, const)
             at2 == g.at
  <2>1. Unchanged(h.at, at2, o) /\ x.type = h.at[y].type /\ x.ref = h.at[y].ref
    <3>1. at2 = AtWith(h.at, y, Titled(h.at[y], key, const))
      BY <1>5
    <3> HIDE DEF at2
    <3> QED
      BY <1>1, <3>1, NamedUnchanged
  <2>2. g.at = AtWith(h.at, y, x) /\ Tidy(g, ls, R, 0)
    BY <1>5
  <2> HIDE DEF x, g
  <2>3. o.ok = FALSE => Steps(h, R, ls, g, R, o)
    <3> SUFFICES ASSUME o.ok = FALSE PROVE Steps(h, R, ls, g, R, o)
      OBVIOUS
    <3>1. Idle(h.at, ls, o)
      BY DEF Idle
    <3>2. Step(h, R, ls, g, R, ls, o)
      BY <1>1, <2>1, <2>2, <3>1, StepItem
    <3> QED
      BY <3>2 DEF Steps
  <2> QED
    BY <1>5, <2>3 DEF TakesWell, g
<1>6. ASSUME d.r = TRUE, NEW i \in 1 .. Len(s), Replaced(d, ls, R, 0, a, i, s[i], y),
             places # {}, i = Min(places), Labelled(named, d.h.at)
      PROVE  TakesWell(h, R, ls, d, o)
  <2>1. Renames(h.at, g.at) /\ (y \in DOMAIN g.at => g.at[y].key = name)
    BY <1>1, <1>6, NamedRenames
  <2>2. Named(name, exact).name = name /\ Named(name, exact).exact = exact
    BY DEF Named
  <2>3. PositionIn(h.at, s, o.where) = i
    BY <1>6, <2>2 DEF PositionIn
  <2> DEFINE x == s[i]
  <2>4. Replaced(d, ls, R, 0, a, i, x, y)
    BY <1>6
  <2> HIDE DEF x, g
  <2>5. o.ok = TRUE => Steps(h, R, ls, g, R \ {y}, o)
    <3> SUFFICES ASSUME o.ok = TRUE PROVE Steps(h, R, ls, g, R \ {y}, o)
      OBVIOUS
    <3>1. Did(o, "replace", a, y)
      BY DEF Did
    <3>2. g = d.h
      BY DEF g
    <3> QED
      BY <1>2, <1>6, <2>1, <2>3, <2>4, <3>1, <3>2, StepReplaced
  <2> QED
    BY <1>6, <2>5 DEF TakesWell, g
<1> HIDE DEF s, places, named
<1>7. TakesWell(h, R, ls, d, o)
  BY <1>3, <1>4, <1>5, <1>6 DEF ReplacedOrNot, s, places, named
<1> QED
  BY <1>7 DEF d

\* What the calls that put an item of their own into a list should come to.
GrowsWell(h, R, ls, d, ok, o) ==
  \/ /\ ok = TRUE
     /\ \E r : /\ r \notin DOMAIN h.at /\ DOMAIN d.h.at = DOMAIN h.at \cup {r}
               /\ o.ok = TRUE /\ o.item = r => Steps(h, R, ls, d.h, R, o)
  \/ ok = FALSE /\ (o.ok = FALSE => Steps(h, R, ls, d.h, R, o))

\* A call on a list that adds to it, for whatever reason.
Appending(o, a) == o.list = a /\ o.call \in {"append", "append reference"}

LEMMA ChildCall ==
  ASSUME NEW h, NEW R, NEW ls, Given(h, R, ls), NEW a, Mine(h, R, ls, a),
         NEW d, NEW r, NEW x, NewChild(d, r, h, ls, R, 0, a, x), h.at[a].type = "object" => x.key # NoString,
         NEW o, Appending(o, a), NEW ok, ok = TRUE
  PROVE  GrowsWell(h, R, ls, d, ok, o)
<1> DEFINE ls3 == Listing(Grown(ls, r, <<>>), a, Append(ls[a], r))
           ls2 == Grown(ls, r, <<>>)
           g == d.h
<1>1. a \in Under(ls, R) /\ a \in DOMAIN ls /\ ~h.at[a].ref /\ DOMAIN h.at = DOMAIN ls /\ 0 \in Int
  BY GivenFacts, MineFacts
<1>2. r \notin DOMAIN ls /\ Tidy(g, ls3, R, 0)
  BY DEF NewChild
<1>3. DOMAIN ls3 = DOMAIN ls \cup {r}
  <2>1. DOMAIN ls2 = DOMAIN ls \cup {r}
    BY DEF Grown
  <2> HIDE DEF ls2
  <2>2. a \in DOMAIN ls2 /\ ls3 = Listing(ls2, a, Append(ls[a], r))
    BY <1>1, <2>1 DEF ls2
  <2> QED
    BY <2>1, <2>2, ListingIs
<1>4. DOMAIN g.at = DOMAIN ls3
  <2> HIDE DEF ls3, g
  <2> QED
    BY <1>1, <1>2, TidyFacts
<1>5. ASSUME o.ok = TRUE, o.item = r PROVE Steps(h, R, ls, g, R, o)
  <2>1. Appended(o, a, r)
    BY <1>5 DEF Appending, Appended
  <2>2. g = d.h /\ ls3 = Listing(Grown(ls, r, <<>>), a, Append(ls[a], r))
    OBVIOUS
  <2> HIDE DEF g, ls3
  <2>3. Step(h, R, ls, g, R, ls3, o)
    BY <1>1, <2>1, <2>2, StepChild
  <2> QED
    BY <2>3 DEF Steps
<1> QED
  BY <1>1, <1>2, <1>3, <1>4, <1>5 DEF GrowsWell

LEMMA NoChildCall ==
  ASSUME NEW h, NEW R, NEW ls, Given(h, R, ls), NEW a, Mine(h, R, ls, a),
         NEW d, d.h.at = h.at, Tidy(d.h, ls, R, 0), NEW o, Appending(o, a), NEW ok, ok = FALSE
  PROVE  GrowsWell(h, R, ls, d, ok, o)
<1> DEFINE g == d.h
<1>1. g.at = h.at /\ Tidy(g, ls, R, 0)
  OBVIOUS
<1> HIDE DEF g
<1>2. ASSUME o.ok = FALSE PROVE Steps(h, R, ls, g, R, o)
  <2>1. Idle(h.at, ls, o)
    BY <1>2 DEF Appending, Idle
  <2>2. Step(h, R, ls, g, R, ls, o)
    BY <1>1, <2>1, StepNone
  <2> QED
    BY <2>2 DEF Steps
<1> QED
  BY <1>2 DEF GrowsWell, g

LEMMA AddNewCall ==
  ASSUME NEW h, NEW R, NEW ls, Given(h, R, ls), NEW a, Mine(h, R, ls, a),
         NEW name \in Chars, name # NoString, NEW type \in Type, type \notin {"string", "raw"},
         NEW o, Appending(o, a)
  PROVE  LET d == AddNewToObject(h, a, name, type, NoString) IN GrowsWell(h, R, ls, d, d.r # NULL, o)
<1> DEFINE none == NoString
           d == AddNewToObject(h, a, name, type, none)
           x == Titled(Made(type, none), name, FALSE)
           r == d.r
           ok == d.r # NULL
<1>1. Tidy(h, ls, R, 0) /\ 0 \in Int
  BY GivenFacts
<1>2. a \in DOMAIN ls /\ ~h.at[a].ref
  BY MineFacts
<1>3. none \in Chars
  BY NoStringIsChars
<1>4. x.key = name
  BY <1>3, MadeIs DEF Titled, Item
<1> HIDE DEF none
<1>5. \/ d.r = NULL /\ d.h.at = h.at /\ Tidy(d.h, ls, R, 0)
      \/ d.r # NULL /\ NewChild(d, d.r, h, ls, R, 0, a, x)
  BY <1>1, <1>2, <1>3, AddsNew
<1> HIDE DEF d, x
<1>6. ASSUME d.r = NULL, d.h.at = h.at, Tidy(d.h, ls, R, 0) PROVE GrowsWell(h, R, ls, d, ok, o)
  <2>1. ok = FALSE
    BY <1>6
  <2> HIDE DEF ok
  <2> QED
    BY <1>6, <2>1, NoChildCall
<1>7. ASSUME d.r # NULL, NewChild(d, d.r, h, ls, R, 0, a, x) PROVE GrowsWell(h, R, ls, d, ok, o)
  <2>1. ok = TRUE
    BY <1>7
  <2>2. NewChild(d, r, h, ls, R, 0, a, x)
    BY <1>7
  <2> HIDE DEF ok, r
  <2> QED
    BY <1>4, <2>1, <2>2, ChildCall
<1> HIDE DEF ok
<1>8. GrowsWell(h, R, ls, d, ok, o)
  BY <1>5, <1>6, <1>7
<1> QED
  BY <1>8 DEF ok, d, none

LEMMA AddReferenceCall ==
  ASSUME NEW h, NEW R, NEW ls, Given(h, R, ls), NEW a, Mine(h, R, ls, a), h.at[a].type = "array",
         NEW item \in DOMAIN ls, NEW o, Appending(o, a)
  PROVE  LET d == cJSON_AddItemReferenceToArray(h, a, item) IN GrowsWell(h, R, ls, d, d.r, o)
<1> DEFINE d == cJSON_AddItemReferenceToArray(h, a, item)
           r == create_reference(h, item).r
           x == Reference(h.at[item])
           ok == d.r
<1>1. Tidy(h, ls, R, 0) /\ 0 \in Int
  BY GivenFacts
<1>2. a \in DOMAIN ls /\ ~h.at[a].ref /\ h.at[a].type # "object"
  BY MineFacts
<1>3. \/ d.r = FALSE /\ d.h.at = h.at /\ Tidy(d.h, ls, R, 0)
      \/ d.r = TRUE /\ NewChild(d, r, h, ls, R, 0, a, x)
  BY <1>1, <1>2, AddsReference
<1> HIDE DEF d, x, r
<1>4. ASSUME d.r = FALSE, d.h.at = h.at, Tidy(d.h, ls, R, 0) PROVE GrowsWell(h, R, ls, d, ok, o)
  BY <1>4, NoChildCall
<1>5. ASSUME d.r = TRUE, NewChild(d, r, h, ls, R, 0, a, x) PROVE GrowsWell(h, R, ls, d, ok, o)
  <2>1. ok = TRUE
    BY <1>5
  <2> HIDE DEF ok
  <2> QED
    BY <1>2, <1>5, <2>1, ChildCall
<1>6. GrowsWell(h, R, ls, d, ok, o)
  BY <1>3, <1>4, <1>5
<1> QED
  BY <1>6 DEF d

Referring(o, a) == o.list = a /\ o.call = "append reference"

LEMMA AddNamedReferenceCall ==
  ASSUME NEW h, NEW R, NEW ls, Given(h, R, ls), NEW a, Mine(h, R, ls, a),
         NEW item \in DOMAIN ls, NEW name \in Chars, name # NoString,
         NEW o, Referring(o, a)
  PROVE  LET d == cJSON_AddItemReferenceToObject(h, a, name, item) IN GrowsWell(h, R, ls, d, d.r, o)
<1> DEFINE d == cJSON_AddItemReferenceToObject(h, a, name, item)
           r == create_reference(h, item).r
           y == Reference(h.at[item])
           x == Titled(y, name, FALSE)
           n == [h |-> d.h, r |-> r]
           g == d.h
           ok == d.r
<1>1. Tidy(h, ls, R, 0) /\ 0 \in Int /\ Sound(h.at, ls)
  BY GivenFacts
<1>2. a \in DOMAIN ls /\ ~h.at[a].ref
  BY MineFacts
<1>3. \/ d.r = FALSE /\ NewRoot(n, h, ls, R, 0, y)
      \/ d.r = TRUE /\ NewChild(d, r, h, ls, R, 0, a, x)
  BY <1>1, <1>2, AddsNamedReference
<1>4. x.key = name
  <2>1. h.at[item] \in Item
    BY <1>1, SoundFacts
  <2>2. y \in Item
    BY <1>1, <2>1, NoStringIsChars, SoundFacts DEF Reference, Item
  <2> HIDE DEF y
  <2> QED
    BY <2>2 DEF Titled, Item
<1>5. n.h = g /\ n.r = r
  OBVIOUS
<1>9. Appending(o, a)
  BY DEF Appending, Referring
<1> HIDE DEF d, x, r, y, n
<1>6. ASSUME d.r = FALSE, NewRoot(n, h, ls, R, 0, y) PROVE GrowsWell(h, R, ls, d, ok, o)
  <2>1. CASE r = NULL
    <3>1. ASSUME NEW v \in Node PROVE v # NULL
      BY DEF Node, NULL
    <3>2. d.h.at = h.at /\ Tidy(d.h, ls, R, 0)
      BY <1>5, <1>6, <2>1, <3>1 DEF NewRoot
    <3> QED
      BY <1>6, <1>9, <3>2, NoChildCall
  <2>2. CASE r # NULL
    <3> DEFINE ls2 == Grown(ls, r, <<>>)
    <3>1. ls2 = Grown(ls, r, <<>>)
      OBVIOUS
    <3> HIDE DEF ls2, g
    <3>2. ASSUME o.ok = FALSE PROVE Steps(h, R, ls, g, R, o)
      <4>1. r = n.r /\ g = n.h
        BY <1>5
      <4>2. Step(h, R, ls, g, R, ls2, o)
        BY <1>6, <2>2, <3>1, <3>2, <4>1, StepRoot DEF Referring
      <4> QED
        BY <4>2 DEF Steps
    <3> QED
      BY <1>6, <3>2 DEF GrowsWell, g
  <2> QED
    BY <2>1, <2>2
<1>7. ASSUME d.r = TRUE, NewChild(d, r, h, ls, R, 0, a, x) PROVE GrowsWell(h, R, ls, d, ok, o)
  <2>1. ok = TRUE
    BY <1>7
  <2> HIDE DEF ok
  <2> QED
    BY <1>4, <1>7, <1>9, <2>1, ChildCall
<1>8. GrowsWell(h, R, ls, d, ok, o)
  BY <1>3, <1>6, <1>7
<1> QED
  BY <1>8 DEF d

\* What the calls that give a root should come to, and those on no list.
GivesWell(h, R, ls, d, o) ==
  \/ d.r = NULL /\ (o.ok = FALSE => Steps(h, R, ls, d.h, R, o))
  \/ d.r \in Node /\ (o.ok = TRUE => Steps(h, R, ls, d.h, R \cup {d.r}, o))

SetsWell(h, R, ls, d, o) ==
  d.r \in BOOLEAN /\ (o.ok = d.r => Steps(h, R, ls, d.h, R, o))

LEMMA NoListIdle ==
  ASSUME NEW h, NEW R, NEW ls, Given(h, R, ls), NEW o, o.list = NULL
  PROVE  Idle(h.at, ls, o)
<1>1. NULL \notin DOMAIN ls
  BY GivenFacts, SoundFacts
<1> QED
  BY <1>1 DEF Idle

LEMMA RootCall ==
  ASSUME NEW h, NEW R, NEW ls, Given(h, R, ls), NEW d, NEW x, NewRoot(d, h, ls, R, 0, x),
         NEW o, o.list = NULL
  PROVE  GivesWell(h, R, ls, d, o)
<1> DEFINE g == d.h
           r == d.r
           ls2 == Grown(ls, r, <<>>)
<1>1. Idle(h.at, ls, o)
  BY NoListIdle
<1>2. ASSUME r = NULL, g.at = h.at, Tidy(g, ls, R, 0) PROVE GivesWell(h, R, ls, d, o)
  <2> HIDE DEF g
  <2>1. Step(h, R, ls, g, R, ls, o)
    BY <1>1, <1>2, StepNone
  <2>2. Steps(h, R, ls, g, R, o)
    BY <2>1 DEF Steps
  <2> QED
    BY <1>2, <2>2 DEF GivesWell, g
<1>3. ASSUME r \in Node PROVE GivesWell(h, R, ls, d, o)
  <2>1. r # NULL /\ g = d.h /\ r = d.r /\ ls2 = Grown(ls, r, <<>>)
    BY <1>3 DEF Node, NULL
  <2> HIDE DEF g, r, ls2
  <2>2. ASSUME o.ok = TRUE PROVE Steps(h, R, ls, g, R \cup {r}, o)
    <3>1. Step(h, R, ls, g, R \cup {r}, ls2, o)
      BY <2>1, <2>2, StepRoot
    <3> QED
      BY <3>1 DEF Steps
  <2> QED
    BY <1>3, <2>2 DEF GivesWell, g, r
<1>4. (r = NULL /\ g.at = h.at /\ Tidy(g, ls, R, 0)) \/ r \in Node
  BY DEF NewRoot
<1> HIDE DEF g, r
<1> QED
  BY <1>2, <1>3, <1>4

LEMMA SetCall ==
  ASSUME NEW h, NEW R, NEW ls, Given(h, R, ls), NEW n \in DOMAIN ls, NEW text \in Chars, text # NoString,
         NEW o, o.list = NULL
  PROVE  SetsWell(h, R, ls, cJSON_SetValuestring(h, n, text), o)
<1> DEFINE d == cJSON_SetValuestring(h, n, text)
           g == d.h
           x == Rewritten(h.at[n], text)
<1>1. Tidy(h, ls, R, 0) /\ 0 \in Int /\ Sound(h.at, ls)
  BY GivenFacts
<1>2. h.at[n] \in Item
  BY <1>1, SoundFacts
<1>3. x.type = h.at[n].type /\ x.ref = h.at[n].ref /\ x.key = h.at[n].key
  BY <1>2 DEF Rewritten, Item
<1>4. Idle(h.at, ls, o)
  BY NoListIdle
<1>5. /\ Tidy(d.h, ls, R, 0) /\ d.r \in BOOLEAN
      /\ ~d.r => d.h = h
      /\ d.r => d.h.at = AtWith(h.at, n, x)
  BY <1>1, SetsItsText
<1> HIDE DEF d, g, x
<1>6. ASSUME d.r = FALSE, o.ok = FALSE PROVE Steps(h, R, ls, g, R, o)
  <2>1. g.at = h.at /\ Tidy(g, ls, R, 0)
    BY <1>5, <1>6 DEF g
  <2>2. Step(h, R, ls, g, R, ls, o)
    BY <1>4, <2>1, StepNone
  <2> QED
    BY <2>2 DEF Steps
<1>7. ASSUME d.r = TRUE, o.ok = TRUE PROVE Steps(h, R, ls, g, R, o)
  <2>1. g.at = AtWith(h.at, n, x) /\ Tidy(g, ls, R, 0)
    BY <1>5, <1>7 DEF g
  <2>2. Step(h, R, ls, g, R, ls, o)
    BY <1>3, <1>4, <1>7, <2>1, StepItem
  <2> QED
    BY <2>2 DEF Steps
<1>8. SetsWell(h, R, ls, d, o)
  BY <1>5, <1>6, <1>7 DEF SetsWell, g
<1> QED
  BY <1>8 DEF d

LEMMA DeleteCall ==
  ASSUME NEW h, NEW R, NEW ls, Given(h, R, ls), NEW n \in R, NEW o, o.ok = TRUE, o.list = NULL
  PROVE  Steps(h, R, ls, cJSON_Delete(h, n), R \ {n}, o)
<1> DEFINE d == cJSON_Delete(h, n)
           R3 == R \ {n}
           ls3 == Without(ls, n)
<1>1. Tidy(h, ls, R, 0) /\ 0 \in Int /\ n \in DOMAIN ls /\ Root(ls, n)
  BY GivenFacts
<1>2. d.at = Deleted(h.at, n) /\ Tidy(d, ls3, R3, 0)
  BY <1>1, TidyDeletes
<1>3. R3 = R \ {n} /\ ls3 = Without(ls, n)
  OBVIOUS
<1> HIDE DEF d, R3, ls3
<1>4. Labelled(h.at, d.at)
  BY <1>2 DEF Deleted, Labelled
<1>5. Renames(h.at, d.at)
  BY <1>4, LabelledRenames
<1>6. Step(h, R, ls, d, R3, ls3, o)
  BY <1>2, <1>3, <1>5, StepDelete
<1>7. Steps(h, R, ls, d, R3, o)
  BY <1>6 DEF Steps
<1> QED
  BY <1>7 DEF d, R3

-----------------------------------------------------------------------------
(* The program.                                                            *)

\* The lists of the items there are.
Now(ls) == Given(H(0), held, ls)

\* What a step of the program comes to, if ls were the lists before it.
Afterwards == Mem(heap'.at, heap'.strings, 0)
Done(ls) == op'.ok \in BOOLEAN /\ Steps(H(0), held, ls, Afterwards, held', op')

LEMMA NowFacts ==
  ASSUME NEW ls, Now(ls)
  PROVE  /\ H(0).at = heap.at /\ Sound(heap.at, ls) /\ Given(H(0), held, ls)
         /\ held \in SUBSET DOMAIN ls /\ DOMAIN heap.at = DOMAIN ls /\ NULL \notin DOMAIN ls
         /\ \A r \in held : Root(ls, r)
<1>1. H(0).at = heap.at
  BY DEF H
<1>2. Given(H(0), held, ls)
  BY DEF Now
<1>3. Sound(H(0).at, ls) /\ held \in SUBSET DOMAIN ls /\ \A r \in held : Root(ls, r)
  BY <1>2, GivenFacts
<1>4. Sound(heap.at, ls)
  BY <1>1, <1>3
<1>5. DOMAIN heap.at = DOMAIN ls /\ NULL \notin DOMAIN ls
  BY <1>4, SoundFacts
<1> QED
  BY <1>1, <1>2, <1>3, <1>4, <1>5

\* The memory holds no more than the items and the count: any call may fail.
LEMMA Refuels ==
  ASSUME NEW h, NEW R, NEW ls, Given(h, R, ls), NEW g, NEW fuel, g = Mem(h.at, h.strings, fuel)
  PROVE  Given(g, R, ls) /\ g.at = h.at
<1>1. Tidy(h, ls, R, 0) /\ NamesInObjects(h.at, ls) /\ R \in SUBSET R
  BY GivenFacts
<1>2. Tidy(Mem(h.at, h.strings, fuel), ls, R, 0)
  BY <1>1, TidyFewer
<1>3. g.at = h.at
  BY DEF Mem
<1> QED
  BY <1>1, <1>2, <1>3 DEF Given

LEMMA NowFuel ==
  ASSUME NEW ls, Now(ls), NEW f, NEW h, h = H(f)
  PROVE  Given(h, held, ls) /\ h.at = heap.at
<1> DEFINE h0 == H(0)
<1>1. h0.at = heap.at /\ h0.strings = heap.strings
  BY DEF H
<1>2. Given(h0, held, ls)
  BY DEF Now
<1>3. h = Mem(h0.at, h0.strings, f)
  BY <1>1 DEF H, Mem
<1> HIDE DEF h0
<1> QED
  BY <1>1, <1>2, <1>3, Refuels

Tells(o) == o.ok \in BOOLEAN

LEMMA CallDone ==
  ASSUME NEW ls, NEW h, h.at = heap.at, NEW g, NEW R2, NEW o, Tells(o),
         Steps(h, held, ls, g, R2, o), Return(g, R2, o)
  PROVE  Done(ls)
<1> DEFINE h0 == H(0)
           g0 == Afterwards
<1>1. h0.at = h.at
  BY DEF H
<1>2. heap'.at = g.at /\ heap'.strings = g.strings /\ held' = R2 /\ op' = o
  BY DEF Return
<1>3. g0 = Mem(g.at, g.strings, 0)
  BY <1>2 DEF Afterwards
<1> HIDE DEF h0, g0
<1>4. PICK ls2 : Step(h, held, ls, g, R2, ls2, o)
  BY DEF Steps
<1>5. Given(g0, R2, ls2) /\ g0.at = g.at
  BY <1>3, <1>4, Refuels DEF Step
<1>6. Step(h0, held, ls, g0, R2, ls2, o)
  BY <1>1, <1>4, <1>5 DEF Step
<1>7. Steps(h0, held, ls, g0, R2, o)
  BY <1>6 DEF Steps
<1> QED
  BY <1>2, <1>7 DEF Done, Tells, h0, g0

LEMMA TakesDone ==
  ASSUME NEW ls, NEW h, h.at = heap.at, NEW call, NEW a, NEW x, NEW where, NEW d,
         NEW o, o = [call |-> call, ok |-> d.r, list |-> a, item |-> x, where |-> where],
         TakesWell(h, held, ls, d, o), Takes(call, a, x, where, d)
  PROVE  Done(ls)
<1> DEFINE R2 == IF d.r THEN held \ {x} ELSE held
           g == d.h
<1>1. o.ok = d.r /\ o.item = x
  OBVIOUS
<1>2. Return(g, R2, o)
  BY DEF Takes
<1>3. d.r = TRUE => R2 = held \ {x}
  OBVIOUS
<1>4. d.r = FALSE => R2 = held
  OBVIOUS
<1>5. g = d.h
  OBVIOUS
<1> HIDE DEF R2, g
<1>6. Steps(h, held, ls, g, R2, o) /\ Tells(o)
  BY <1>1, <1>3, <1>4, <1>5 DEF TakesWell, Tells
<1> QED
  BY <1>2, <1>6, CallDone

LEMMA RemovesDone ==
  ASSUME NEW ls, Now(ls), NEW h, h.at = heap.at, NEW a, NEW where, NEW d, NEW roots, NEW R2,
         d.r = NULL => roots = held, d.r # NULL => roots = R2,
         NEW o, o = [call |-> "remove", ok |-> d.r # NULL, list |-> a, item |-> d.r, where |-> where],
         RemovesWell(h, held, ls, d, R2, o), Removes("remove", a, where, d, roots)
  PROVE  Done(ls)
<1> DEFINE g == d.h
<1>1. o.ok = (d.r # NULL) /\ o.item = d.r /\ o.ok \in BOOLEAN
  OBVIOUS
<1>2. Return(g, roots, o)
  BY DEF Removes
<1>3. g = d.h
  OBVIOUS
<1> HIDE DEF g
<1>4. Steps(h, held, ls, g, roots, o)
  BY <1>1, <1>3 DEF RemovesWell
<1>5. Tells(o)
  BY <1>1 DEF Tells
<1> QED
  BY <1>2, <1>4, <1>5, CallDone

LEMMA GrowsDone ==
  ASSUME NEW ls, NEW h, h.at = heap.at, NEW call, NEW a, NEW d, NEW ok,
         NEW o, o = [call |-> call, ok |-> ok, list |-> a,
                     item |-> IF ok THEN CHOOSE n \in Live(d.h) : n \notin Live(heap) ELSE NULL],
         GrowsWell(h, held, ls, d, ok, o), Grows(call, a, d, ok)
  PROVE  Done(ls)
<1> DEFINE g == d.h
           new == CHOOSE n \in Live(d.h) : n \notin Live(heap)
<1>1. o.ok = ok
  OBVIOUS
<1>2. Return(g, held, o)
  BY DEF Grows
<1>3. g = d.h
  OBVIOUS
<1>4. ASSUME ok = TRUE, NEW r, r \notin DOMAIN h.at, DOMAIN g.at = DOMAIN h.at \cup {r} PROVE o.item = r
  <2>1. o.item = new
    BY <1>4
  <2>2. r \in Live(g) /\ r \notin Live(heap)
    BY <1>4 DEF Live
  <2>3. new \in Live(g) /\ new \notin Live(heap)
    BY <2>2
  <2> HIDE DEF new
  <2> QED
    BY <1>4, <2>1, <2>3 DEF Live
<1> HIDE DEF g
<1>5. Steps(h, held, ls, g, held, o) /\ Tells(o)
  BY <1>1, <1>3, <1>4 DEF GrowsWell, Tells
<1> QED
  BY <1>2, <1>5, CallDone

LEMMA GivesDone ==
  ASSUME NEW ls, Now(ls), NEW h, h.at = heap.at, NEW call, NEW d,
         NEW o, o = [call |-> call, ok |-> d.r # NULL, r |-> d.r, list |-> NULL],
         GivesWell(h, held, ls, d, o), Gives(call, d)
  PROVE  Done(ls)
<1> DEFINE g == d.h
           R2 == (held \cup {d.r}) \ {NULL}
<1>1. o.ok = (d.r # NULL) /\ o.ok \in BOOLEAN
  OBVIOUS
<1>2. Return(g, R2, o)
  BY DEF Gives
<1>3. g = d.h
  OBVIOUS
<1>4. NULL \notin held
  BY NowFacts
<1>5. d.r = NULL => R2 = held
  BY <1>4
<1>6. d.r # NULL => R2 = held \cup {d.r}
  BY <1>4
<1>7. ASSUME NEW v \in Node PROVE v # NULL
  BY DEF Node, NULL
<1> HIDE DEF g, R2
<1>8. Steps(h, held, ls, g, R2, o)
  BY <1>1, <1>3, <1>5, <1>6, <1>7 DEF GivesWell
<1>9. Tells(o)
  BY <1>1 DEF Tells
<1> QED
  BY <1>2, <1>8, <1>9, CallDone

LEMMA OwnedNow ==
  ASSUME NEW ls, Now(ls)
  PROVE  Owned(heap, held) = Under(ls, held) /\ Owned(heap, held) \subseteq DOMAIN ls
<1>1. Sound(heap.at, ls) /\ held \in SUBSET DOMAIN ls
  BY NowFacts
<1>2. Owned(heap, held) = Under(ls, held)
  BY <1>1, OwnedIs DEF Under
<1>3. Under(ls, held) \subseteq DOMAIN ls
  BY <1>1, UnderOwns DEF Owns
<1> QED
  BY <1>2, <1>3

LEMMA ListMine ==
  ASSUME NEW ls, Now(ls), NEW kind, NEW a \in Lists(kind), NEW f, NEW h, h = H(f)
  PROVE  Mine(h, held, ls, a) /\ h.at[a].type = kind
<1>1. a \in Owned(heap, held) /\ heap.at[a].type = kind /\ ~heap.at[a].ref
  BY DEF Lists
<1>2. h.at = heap.at
  BY NowFuel
<1> QED
  BY <1>1, <1>2, OwnedNow DEF Mine

LEMMA LooseRoot ==
  ASSUME NEW ls, Now(ls), NEW a, NEW n \in Loose(a)
  PROVE  n \in held /\ a \notin Below(ls, n)
<1>1. n \in held /\ ~Reaches(heap, n, a)
  BY DEF Loose
<1>2. Sound(heap.at, ls) /\ n \in DOMAIN ls
  BY <1>1, NowFacts
<1> QED
  BY <1>1, <1>2, ReachCovers

LEMMA TextsChars == Texts \subseteq Chars /\ NoString \notin Texts
<1>1. ASSUME NEW S, NEW T, S \subseteq T PROVE Seq(S) \subseteq Seq(T)
  <2> SUFFICES ASSUME NEW s \in Seq(S) PROVE s \in Seq(T)
    OBVIOUS
  <2>1. Len(s) \in Nat /\ DOMAIN s = 1 .. Len(s) /\ \A i \in 1 .. Len(s) : s[i] \in T
    BY <1>1
  <2>2. s = [i \in 1 .. Len(s) |-> s[i]]
    BY <2>1
  <2>3. [i \in 1 .. Len(s) |-> s[i]] \in Seq(T)
    BY <2>1
  <2> QED
    BY <2>2, <2>3
<1>2. Seq(STRING) \subseteq Seq(STRING \cup {"NULL"})
  BY <1>1
<1> QED
  BY <1>2 DEF Texts, Chars

LEMMA KindType == Kind \subseteq Type \ {"string", "raw"}
BY DEF Kind, Type, Scalar

LEMMA ArraySpotNow ==
  ASSUME NEW ls, Now(ls), NEW a \in Lists("array"), NEW i \in Index(a)
  PROVE  i \in Int /\ Spot(heap.at, ls[a], Nth(i), At(a, i))
<1> DEFINE h == H(0)
<1>1. h = H(0)
  OBVIOUS
<1> HIDE DEF h
<1>2. Given(h, held, ls) /\ h.at = heap.at
  BY <1>1, NowFuel
<1>3. Mine(h, held, ls, a)
  BY <1>1, ListMine
<1>4. a \in DOMAIN ls /\ ~h.at[a].ref
  BY <1>2, <1>3, MineFacts
<1>5. i \in Int
  BY DEF Index
<1>6. Spot(h.at, ls[a], Nth(i), IF i < 0 THEN NULL ELSE get_array_item(h, a, i))
  BY <1>2, <1>4, <1>5, ArraySpot
<1>7. At(a, i) = IF i < 0 THEN NULL ELSE get_array_item(h, a, i)
  BY <1>1 DEF At
<1> QED
  BY <1>2, <1>5, <1>6, <1>7

LEMMA ObjectSpotNow ==
  ASSUME NEW ls, Now(ls), NEW a \in Lists("object"), NEW name, name # NoString, NEW exact \in BOOLEAN
  PROVE  Spot(heap.at, ls[a], Named(name, exact), get_object_item(H(0), a, name, exact))
<1> DEFINE h == H(0)
<1>1. h = H(0)
  OBVIOUS
<1> HIDE DEF h
<1>2. Given(h, held, ls) /\ h.at = heap.at
  BY <1>1, NowFuel
<1>3. Mine(h, held, ls, a) /\ h.at[a].type = "object"
  BY <1>1, ListMine
<1>4. a \in DOMAIN ls /\ ~h.at[a].ref
  BY <1>2, <1>3, MineFacts
<1>5. Spot(h.at, ls[a], Named(name, exact), get_object_item(h, a, name, exact))
  BY <1>2, <1>3, <1>4, ObjectSpot
<1> QED
  BY <1>1, <1>2, <1>5

LEMMA CreatesDone ==
  ASSUME NEW ls, Now(ls), NEW f, Creates(f, Kind, Texts)
  PROVE  Done(ls)
<1> DEFINE h == H(f)
<1>1. h = H(f)
  OBVIOUS
<1> HIDE DEF h
<1>2. Given(h, held, ls) /\ h.at = heap.at
  BY <1>1, NowFuel
<1>3. Tidy(h, ls, held, 0) /\ 0 \in Int
  BY <1>2, GivenFacts
<1>4. NoString \in Chars /\ Texts \subseteq Chars /\ NoString \notin Texts /\ Kind \subseteq Type \ {"string", "raw"}
  BY NoStringIsChars, TextsChars, KindType
<1>5. ASSUME NEW d, NEW x, NewRoot(d, h, ls, held, 0, x), Gives("create", d) PROVE Done(ls)
  <2> DEFINE o == [call |-> "create", ok |-> d.r # NULL, r |-> d.r, list |-> NULL]
  <2>1. o.list = NULL /\ o = [call |-> "create", ok |-> d.r # NULL, r |-> d.r, list |-> NULL]
    OBVIOUS
  <2> HIDE DEF o
  <2>2. GivesWell(h, held, ls, d, o)
    BY <1>2, <1>5, <2>1, RootCall
  <2> QED
    BY <1>2, <1>5, <2>1, <2>2, GivesDone
<1>6. "string" \in Type /\ "array" \in Type /\ "object" \in Type
  BY DEF Type
<1>7. ASSUME NEW t \in Kind, Gives("create", Create(h, t, NoString)) PROVE Done(ls)
  <2> DEFINE none == NoString
             d == Create(h, t, none)
  <2> HIDE DEF none
  <2>1. none \in Chars /\ t \in Type /\ (t \in {"string", "raw"} => none # NoString)
    BY <1>4 DEF none
  <2>2. NewRoot(d, h, ls, held, 0, Made(t, none))
    BY <1>3, <2>1, CreatesItem
  <2>3. Gives("create", d)
    BY <1>7 DEF none
  <2> HIDE DEF d
  <2> QED
    BY <1>5, <2>2, <2>3
<1>8. ASSUME NEW v \in Texts, Gives("create", Create(h, "string", v)) PROVE Done(ls)
  <2> DEFINE t == "string"
             d == Create(h, t, v)
  <2>1. v \in Chars /\ t \in Type /\ (t \in {"string", "raw"} => v # NoString)
    BY <1>4, <1>6
  <2>2. Gives("create", d)
    BY <1>8
  <2> HIDE DEF t
  <2>3. NewRoot(d, h, ls, held, 0, Made(t, v))
    BY <1>3, <2>1, CreatesItem
  <2> HIDE DEF d
  <2> QED
    BY <1>5, <2>2, <2>3
<1>9. ASSUME NEW t \in Type, NEW v \in Chars, NEW child \in Ptr, Gives("create", CreateReference(h, t, v, child))
      PROVE  Done(ls)
  <2> DEFINE d == CreateReference(h, t, v, child)
  <2>1. Gives("create", d)
    BY <1>9
  <2>2. NewRoot(d, h, ls, held, 0, Showing(t, v, child))
    BY <1>3, <1>9, CreatesReference
  <2> HIDE DEF d
  <2> QED
    BY <1>5, <2>1, <2>2
<1>10. ASSUME NEW v \in Texts, Gives("create", CreateReference(h, "string", v, NULL)) PROVE Done(ls)
  <2>1. NULL \in Ptr /\ v \in Chars
    BY <1>4 DEF Ptr
  <2> QED
    BY <1>6, <1>9, <1>10, <2>1
<1>11. ASSUME NEW n \in Owned(heap, held), NEW kind \in Kind \cap {"array", "object"},
              Gives("create", CreateReference(h, kind, NoString, n))
       PROVE  Done(ls)
  <2>1. n \in Ptr
    BY OwnedNow, NowFacts, SoundFacts
  <2> QED
    BY <1>4, <1>6, <1>9, <1>11, <2>1
<1>12. \/ \E t \in Kind : Gives("create", Create(h, t, NoString))
       \/ \E v \in Texts : Gives("create", Create(h, "string", v))
       \/ \E v \in Texts : Gives("create", CreateReference(h, "string", v, NULL))
       \/ \E n \in Owned(heap, held), kind \in Kind \cap {"array", "object"} :
            Gives("create", CreateReference(h, kind, NoString, n))
  BY <1>1 DEF Creates
<1> QED
  BY <1>7, <1>8, <1>10, <1>11, <1>12

LEMMA DeletesDone ==
  ASSUME NEW ls, Now(ls), Deletes
  PROVE  Done(ls)
<1> DEFINE h == H(0)
           o == [call |-> "delete", ok |-> TRUE, list |-> NULL]
<1>1. h = H(0) /\ o.ok = TRUE /\ o.list = NULL
  OBVIOUS
<1>2. PICK n \in held : Return(cJSON_Delete(h, n), held \ {n}, o)
  BY DEF Deletes
<1> DEFINE g == cJSON_Delete(h, n)
           R2 == held \ {n}
<1>3. Return(g, R2, o)
  BY <1>2
<1> HIDE DEF h, o
<1>4. Given(h, held, ls) /\ h.at = heap.at
  BY <1>1, NowFuel
<1>5. Steps(h, held, ls, g, R2, o)
  BY <1>1, <1>4, DeleteCall
<1> HIDE DEF g, R2
<1>6. Tells(o)
  BY <1>1 DEF Tells
<1> QED
  BY <1>3, <1>4, <1>5, <1>6, CallDone

LEMMA SetsDone ==
  ASSUME NEW ls, Now(ls), NEW f, SetsText(f, Texts)
  PROVE  Done(ls)
<1> DEFINE h == H(f)
<1>1. h = H(f)
  OBVIOUS
<1>2. PICK n \in Owned(heap, held), v \in Texts :
        LET d == cJSON_SetValuestring(h, n, v)
        IN  Return(d.h, held, [call |-> "set", ok |-> d.r, list |-> NULL])
  BY DEF SetsText
<1> DEFINE d == cJSON_SetValuestring(h, n, v)
           o == [call |-> "set", ok |-> d.r, list |-> NULL]
           g == d.h
<1>3. Return(g, held, o) /\ o.ok = d.r /\ o.list = NULL /\ g = d.h
  BY <1>2
<1> HIDE DEF h, o
<1>4. Given(h, held, ls) /\ h.at = heap.at
  BY <1>1, NowFuel
<1>5. n \in DOMAIN ls /\ v \in Chars /\ v # NoString
  BY OwnedNow, TextsChars
<1>6. SetsWell(h, held, ls, d, o)
  BY <1>3, <1>4, <1>5, SetCall
<1> HIDE DEF d, g
<1>7. Steps(h, held, ls, g, held, o) /\ Tells(o)
  BY <1>3, <1>6 DEF SetsWell, Tells
<1> QED
  BY <1>3, <1>4, <1>7, CallDone

\* A list of the program, before a call with memory h.
LEMMA CallOn ==
  ASSUME NEW ls, Now(ls), NEW kind, NEW a \in Lists(kind), NEW f, NEW h, h = H(f)
  PROVE  Given(h, held, ls) /\ h.at = heap.at /\ Mine(h, held, ls, a) /\ h.at[a].type = kind /\ NULL \notin held
<1>1. NULL \notin held
  BY NowFacts
<1> QED
  BY <1>1, NowFuel, ListMine

\* An item was found, and taken out or taken out and freed.
LEMMA DetachesDone ==
  ASSUME NEW ls, Now(ls), NEW kind, NEW a \in Lists(kind), NEW f, NEW where, NEW it, Spot(heap.at, ls[a], where, it),
         LET d == cJSON_DetachItemViaPointer(H(f), a, it)
         IN  \/ Removes("remove", a, where, d, (held \cup {d.r}) \ {NULL})
             \/ Removes("remove", a, where, DeleteDetached(d), held)
  PROVE  Done(ls)
<1> DEFINE h == H(f)
           c == cJSON_DetachItemViaPointer(h, a, it)
           d == DeleteDetached(c)
           remove == "remove"
           o == [call |-> remove, ok |-> c.r # NULL, list |-> a, item |-> c.r, where |-> where]
           roots == (held \cup {c.r}) \ {NULL}
           R2 == held \cup {c.r}
<1>1. Removes("remove", a, where, c, roots) \/ Removes("remove", a, where, d, held)
  OBVIOUS
<1>2. d.r = c.r
  BY DEF DeleteDetached
<1>3. h = H(f) /\ o.call = "remove" /\ o.list = a /\ o.where = where
  OBVIOUS
<1>4. o = [call |-> "remove", ok |-> c.r # NULL, list |-> a, item |-> c.r, where |-> where]
  OBVIOUS
<1> HIDE DEF h, o
<1>5. Given(h, held, ls) /\ h.at = heap.at /\ Mine(h, held, ls, a) /\ NULL \notin held
  BY <1>3, CallOn
<1>6. Spot(h.at, ls[a], o.where, it)
  BY <1>3, <1>5
<1>7. DetachesWell(h, held, ls, c, o)
  BY <1>3, <1>5, <1>6, DetachCall
<1> HIDE DEF c
<1>8. RemovesWell(h, held, ls, c, R2, o) /\ RemovesWell(h, held, ls, d, held, o)
  BY <1>7 DEF DetachesWell
<1>9. (c.r = NULL => roots = held) /\ (c.r # NULL => roots = R2)
  BY <1>5
<1> HIDE DEF d, roots, R2
<1>10. CASE Removes("remove", a, where, c, roots)
  BY <1>4, <1>5, <1>8, <1>9, <1>10, RemovesDone
<1>11. CASE Removes("remove", a, where, d, held)
  <2>1. o = [call |-> "remove", ok |-> d.r # NULL, list |-> a, item |-> d.r, where |-> where]
    BY <1>2, <1>4
  <2> QED
    BY <1>5, <1>8, <1>11, <2>1, RemovesDone
<1> QED
  BY <1>1, <1>10, <1>11

LEMMA EditsArrayDone ==
  ASSUME NEW ls, Now(ls), NEW f, EditsArray(f)
  PROVE  Done(ls)
<1> DEFINE h == H(f)
<1>1. h = H(f)
  OBVIOUS
<1>2. PICK a \in Lists("array") :
        \/ \E n \in Loose(a) : Takes("append", a, n, Nth(0), add_item_to_array(h, a, n))
        \/ \E n \in Loose(a), i \in Index(a) : Takes("insert", a, n, Nth(i), cJSON_InsertItemInArray(h, a, i, n))
        \/ \E n \in Loose(a), i \in Index(a) :
             Takes("replace", a, n, Nth(i), cJSON_ReplaceItemViaPointer(h, a, At(a, i), n))
        \/ \E i \in Index(a) :
             LET d == cJSON_DetachItemViaPointer(H(f), a, At(a, i))
             IN  \/ Removes("remove", a, Nth(i), d, (held \cup {d.r}) \ {NULL})
                 \/ Removes("remove", a, Nth(i), DeleteDetached(d), held)
  BY DEF EditsArray
<1> HIDE DEF h
<1>3. Given(h, held, ls) /\ h.at = heap.at /\ Mine(h, held, ls, a) /\ h.at[a].type = "array"
  BY <1>1, CallOn
<1>4. ASSUME NEW n \in Loose(a), Takes("append", a, n, Nth(0), add_item_to_array(h, a, n)) PROVE Done(ls)
  <2> DEFINE d == add_item_to_array(h, a, n)
             where == Nth(0)
             o == [call |-> "append", ok |-> d.r, list |-> a, item |-> n, where |-> where]
  <2>1. o.call = "append" /\ o.list = a /\ o.item = n
    OBVIOUS
  <2>2. o = [call |-> "append", ok |-> d.r, list |-> a, item |-> n, where |-> where]
    OBVIOUS
  <2>3. Takes("append", a, n, where, d)
    BY <1>4
  <2> HIDE DEF o, where
  <2>4. n \in held /\ a \notin Below(ls, n)
    BY LooseRoot
  <2>5. TakesWell(h, held, ls, d, o)
    BY <1>3, <2>1, <2>4, AppendCall
  <2> HIDE DEF d
  <2> QED
    BY <1>3, <2>2, <2>3, <2>5, TakesDone
<1>5. ASSUME NEW n \in Loose(a), NEW i \in Index(a),
             Takes("insert", a, n, Nth(i), cJSON_InsertItemInArray(h, a, i, n))
      PROVE  Done(ls)
  <2> DEFINE d == cJSON_InsertItemInArray(h, a, i, n)
             where == Nth(i)
             o == [call |-> "insert", ok |-> d.r, list |-> a, item |-> n, where |-> where]
  <2>1. o.call = "insert" /\ o.list = a /\ o.item = n /\ o.where = Nth(i)
    OBVIOUS
  <2>2. o = [call |-> "insert", ok |-> d.r, list |-> a, item |-> n, where |-> where]
    OBVIOUS
  <2>3. Takes("insert", a, n, where, d)
    BY <1>5
  <2> HIDE DEF o, where
  <2>4. n \in held /\ a \notin Below(ls, n) /\ i \in Int
    BY LooseRoot, ArraySpotNow
  <2>5. TakesWell(h, held, ls, d, o)
    BY <1>3, <2>1, <2>4, InsertCall
  <2> HIDE DEF d
  <2> QED
    BY <1>3, <2>2, <2>3, <2>5, TakesDone
<1>6. ASSUME NEW n \in Loose(a), NEW i \in Index(a),
             Takes("replace", a, n, Nth(i), cJSON_ReplaceItemViaPointer(h, a, At(a, i), n))
      PROVE  Done(ls)
  <2> DEFINE it == At(a, i)
             d == cJSON_ReplaceItemViaPointer(h, a, it, n)
             where == Nth(i)
             o == [call |-> "replace", ok |-> d.r, list |-> a, item |-> n, where |-> where]
  <2>1. o.call = "replace" /\ o.list = a /\ o.item = n /\ o.where = where
    OBVIOUS
  <2>2. o = [call |-> "replace", ok |-> d.r, list |-> a, item |-> n, where |-> where]
    OBVIOUS
  <2>3. Takes("replace", a, n, where, d)
    BY <1>6
  <2>4. Spot(heap.at, ls[a], where, it)
    BY ArraySpotNow
  <2> HIDE DEF o, where, it
  <2>5. n \in held /\ a \notin Below(ls, n) /\ Spot(h.at, ls[a], o.where, it)
    BY <1>3, <2>1, <2>4, LooseRoot
  <2>6. TakesWell(h, held, ls, d, o)
    BY <1>3, <2>1, <2>5, ReplaceCall
  <2> HIDE DEF d
  <2> QED
    BY <1>3, <2>2, <2>3, <2>6, TakesDone
<1>7. ASSUME NEW i \in Index(a),
             LET d == cJSON_DetachItemViaPointer(H(f), a, At(a, i))
             IN  \/ Removes("remove", a, Nth(i), d, (held \cup {d.r}) \ {NULL})
                 \/ Removes("remove", a, Nth(i), DeleteDetached(d), held)
      PROVE  Done(ls)
  <2> DEFINE it == At(a, i)
             where == Nth(i)
  <2>1. Spot(heap.at, ls[a], where, it)
    BY ArraySpotNow
  <2>2. LET d == cJSON_DetachItemViaPointer(H(f), a, it)
        IN  \/ Removes("remove", a, where, d, (held \cup {d.r}) \ {NULL})
            \/ Removes("remove", a, where, DeleteDetached(d), held)
    BY <1>7
  <2> HIDE DEF where, it
  <2> QED
    BY <2>1, <2>2, DetachesDone
<1> QED
  BY <1>2, <1>4, <1>5, <1>6, <1>7

LEMMA ShowsInArrayDone ==
  ASSUME NEW ls, Now(ls), NEW f, ShowsInArray(f)
  PROVE  Done(ls)
<1> DEFINE h == H(f)
<1>1. h = H(f)
  OBVIOUS
<1>a. PICK a \in Lists("array") : \E n \in Shown(a) :
        LET d == cJSON_AddItemReferenceToArray(h, a, n) IN Grows("append", a, d, d.r)
  BY DEF ShowsInArray
<1>2. PICK n \in Shown(a) : LET d == cJSON_AddItemReferenceToArray(h, a, n) IN Grows("append", a, d, d.r)
  BY <1>a
<1> DEFINE d == cJSON_AddItemReferenceToArray(h, a, n)
           ok == d.r
           o == [call |-> "append", ok |-> ok, list |-> a,
                 item |-> IF ok THEN CHOOSE m \in Live(d.h) : m \notin Live(heap) ELSE NULL]
<1>3. Appending(o, a)
  BY DEF Appending
<1>4. o = [call |-> "append", ok |-> ok, list |-> a,
           item |-> IF ok THEN CHOOSE m \in Live(d.h) : m \notin Live(heap) ELSE NULL]
  OBVIOUS
<1>5. Grows("append", a, d, ok)
  BY <1>2
<1> HIDE DEF h, o
<1>6. Given(h, held, ls) /\ h.at = heap.at /\ Mine(h, held, ls, a) /\ h.at[a].type = "array"
  BY <1>1, CallOn
<1>7. n \in DOMAIN ls
  BY OwnedNow DEF Shown
<1>8. GrowsWell(h, held, ls, d, ok, o)
  BY <1>3, <1>6, <1>7, AddReferenceCall
<1> HIDE DEF d, ok
<1> QED
  BY <1>4, <1>5, <1>6, <1>8, GrowsDone

LEMMA EditsObjectDone ==
  ASSUME NEW ls, Now(ls), NEW f, EditsObject(f, Texts, Texts, Kind)
  PROVE  Done(ls)
<1> DEFINE h == H(f)
<1>1. h = H(f)
  OBVIOUS
<1>2. PICK a \in Lists("object"), k \in Texts :
        \/ \E n \in Loose(a), c \in {FALSE, (k \in Texts)} :
             Takes("append", a, n, Named(k, TRUE), add_item_to_object(h, a, k, n, c))
        \/ \E t \in Kind :
             LET d == AddNewToObject(h, a, k, t, NoString) IN Grows("append", a, d, d.r # NULL)
        \/ \E n \in Shown(a) :
             LET d == cJSON_AddItemReferenceToObject(h, a, k, n) IN Grows("append reference", a, d, d.r)
        \/ \E exact \in BOOLEAN :
             LET it == get_object_item(H(0), a, k, exact)
                 d  == cJSON_DetachItemViaPointer(H(f), a, it)
             IN  \/ Removes("remove", a, Named(k, exact), d, (held \cup {d.r}) \ {NULL})
                 \/ /\ it # NULL => Disposable(it)
                    /\ \/ Removes("remove", a, Named(k, exact), DeleteDetached(d), held)
                       \/ \E n \in Loose(a) :
                            Takes("replace", a, n, Named(k, exact), replace_item_in_object(H(f), a, k, n, exact))
  BY DEF EditsObject
<1> HIDE DEF h
<1>3. Given(h, held, ls) /\ h.at = heap.at /\ Mine(h, held, ls, a) /\ h.at[a].type = "object"
  BY <1>1, CallOn
<1>4. k \in Chars /\ k # NoString
  BY TextsChars
<1>5. ASSUME NEW n \in Loose(a), NEW c \in BOOLEAN,
             Takes("append", a, n, Named(k, TRUE), add_item_to_object(h, a, k, n, c))
      PROVE  Done(ls)
  <2> DEFINE d == add_item_to_object(h, a, k, n, c)
             where == Named(k, TRUE)
             o == [call |-> "append", ok |-> d.r, list |-> a, item |-> n, where |-> where]
  <2>1. o.call = "append" /\ o.list = a /\ o.item = n
    OBVIOUS
  <2>2. o = [call |-> "append", ok |-> d.r, list |-> a, item |-> n, where |-> where]
    OBVIOUS
  <2>3. Takes("append", a, n, where, d)
    BY <1>5
  <2> HIDE DEF o, where
  <2>4. n \in held /\ a \notin Below(ls, n)
    BY LooseRoot
  <2>5. TakesWell(h, held, ls, d, o)
    BY <1>3, <1>4, <2>1, <2>4, AppendNamedCall
  <2> HIDE DEF d
  <2> QED
    BY <1>3, <2>2, <2>3, <2>5, TakesDone
<1>6. ASSUME NEW t \in Kind,
             LET d == AddNewToObject(h, a, k, t, NoString) IN Grows("append", a, d, d.r # NULL)
      PROVE  Done(ls)
  <2> DEFINE d == AddNewToObject(h, a, k, t, NoString)
             ok == d.r # NULL
             o == [call |-> "append", ok |-> ok, list |-> a,
                   item |-> IF ok THEN CHOOSE m \in Live(d.h) : m \notin Live(heap) ELSE NULL]
  <2>1. Appending(o, a)
    BY DEF Appending
  <2>2. o = [call |-> "append", ok |-> ok, list |-> a,
             item |-> IF ok THEN CHOOSE m \in Live(d.h) : m \notin Live(heap) ELSE NULL]
    OBVIOUS
  <2>3. Grows("append", a, d, ok)
    BY <1>6
  <2> HIDE DEF o
  <2>4. t \in Type /\ t \notin {"string", "raw"}
    BY KindType
  <2>5. GrowsWell(h, held, ls, d, ok, o)
    BY <1>3, <1>4, <2>1, <2>4, AddNewCall
  <2> HIDE DEF d, ok
  <2> QED
    BY <1>3, <2>2, <2>3, <2>5, GrowsDone
<1>7. ASSUME NEW n \in Shown(a),
             LET d == cJSON_AddItemReferenceToObject(h, a, k, n) IN Grows("append reference", a, d, d.r)
      PROVE  Done(ls)
  <2> DEFINE d == cJSON_AddItemReferenceToObject(h, a, k, n)
             ok == d.r
             call == "append reference"
             o == [call |-> call, ok |-> ok, list |-> a,
                   item |-> IF ok THEN CHOOSE m \in Live(d.h) : m \notin Live(heap) ELSE NULL]
  <2>1. Referring(o, a)
    BY DEF Referring
  <2>2. o = [call |-> call, ok |-> ok, list |-> a,
             item |-> IF ok THEN CHOOSE m \in Live(d.h) : m \notin Live(heap) ELSE NULL]
    OBVIOUS
  <2>3. Grows(call, a, d, ok)
    BY <1>7
  <2> HIDE DEF o, call
  <2>4. n \in DOMAIN ls
    BY OwnedNow DEF Shown
  <2>5. GrowsWell(h, held, ls, d, ok, o)
    BY <1>3, <1>4, <2>1, <2>4, AddNamedReferenceCall
  <2> HIDE DEF d, ok
  <2> QED
    BY <1>3, <2>2, <2>3, <2>5, GrowsDone
<1>8. ASSUME NEW exact \in BOOLEAN,
             LET it == get_object_item(H(0), a, k, exact)
                 d  == cJSON_DetachItemViaPointer(H(f), a, it)
             IN  \/ Removes("remove", a, Named(k, exact), d, (held \cup {d.r}) \ {NULL})
                 \/ Removes("remove", a, Named(k, exact), DeleteDetached(d), held)
      PROVE  Done(ls)
  <2> DEFINE it == get_object_item(H(0), a, k, exact)
             where == Named(k, exact)
  <2>1. Spot(heap.at, ls[a], where, it)
    BY <1>4, ObjectSpotNow
  <2>2. LET d == cJSON_DetachItemViaPointer(H(f), a, it)
        IN  \/ Removes("remove", a, where, d, (held \cup {d.r}) \ {NULL})
            \/ Removes("remove", a, where, DeleteDetached(d), held)
    BY <1>8
  <2> HIDE DEF where, it
  <2> QED
    BY <2>1, <2>2, DetachesDone
<1>9. ASSUME NEW exact \in BOOLEAN, NEW n \in Loose(a),
             Takes("replace", a, n, Named(k, exact), replace_item_in_object(h, a, k, n, exact))
      PROVE  Done(ls)
  <2> DEFINE d == replace_item_in_object(h, a, k, n, exact)
             where == Named(k, exact)
             o == [call |-> "replace", ok |-> d.r, list |-> a, item |-> n, where |-> where]
  <2>1. o.call = "replace" /\ o.list = a /\ o.item = n /\ o.where = Named(k, exact)
    OBVIOUS
  <2>2. o = [call |-> "replace", ok |-> d.r, list |-> a, item |-> n, where |-> where]
    OBVIOUS
  <2>3. Takes("replace", a, n, where, d)
    BY <1>9
  <2> HIDE DEF o, where
  <2>4. n \in held /\ a \notin Below(ls, n)
    BY LooseRoot
  <2>5. TakesWell(h, held, ls, d, o)
    BY <1>3, <1>4, <2>1, <2>4, ReplaceNamedCall
  <2> HIDE DEF d
  <2> QED
    BY <1>3, <2>2, <2>3, <2>5, TakesDone
<1>10. ASSUME NEW exact \in BOOLEAN,
              LET it == get_object_item(H(0), a, k, exact)
                  d  == cJSON_DetachItemViaPointer(H(f), a, it)
              IN  \/ Removes("remove", a, Named(k, exact), d, (held \cup {d.r}) \ {NULL})
                  \/ /\ it # NULL => Disposable(it)
                     /\ \/ Removes("remove", a, Named(k, exact), DeleteDetached(d), held)
                        \/ \E n \in Loose(a) :
                             Takes("replace", a, n, Named(k, exact), replace_item_in_object(H(f), a, k, n, exact))
       PROVE  Done(ls)
  BY <1>1, <1>8, <1>9, <1>10
<1>11. ASSUME NEW n \in Loose(a), NEW c \in {FALSE, (k \in Texts)},
              Takes("append", a, n, Named(k, TRUE), add_item_to_object(h, a, k, n, c))
       PROVE  Done(ls)
  <2>1. c \in BOOLEAN
    OBVIOUS
  <2> QED
    BY <1>5, <1>11, <2>1
<1> QED
  BY <1>2, <1>6, <1>7, <1>10, <1>11

LEMMA NextDone ==
  ASSUME NEW ls, Now(ls), TreeNext
  PROVE  Done(ls)
<1>1. CASE Deletes
  BY <1>1, DeletesDone
<1>2. ASSUME NEW f \in Nat, Creates(f, Kind, Texts) PROVE Done(ls)
  BY <1>2, CreatesDone
<1>3. ASSUME NEW f \in Nat, SetsText(f, Texts) PROVE Done(ls)
  BY <1>3, SetsDone
<1>4. ASSUME NEW f \in Nat, EditsArray(f) PROVE Done(ls)
  BY <1>4, EditsArrayDone
<1>5. ASSUME NEW f \in Nat, ShowsInArray(f) PROVE Done(ls)
  BY <1>5, ShowsInArrayDone
<1>6. ASSUME NEW f \in Nat, EditsObject(f, Texts, Texts, Kind) PROVE Done(ls)
  BY <1>6, EditsObjectDone
<1> QED
  BY <1>1, <1>2, <1>3, <1>4, <1>5, <1>6 DEF TreeNext

\* The inductive invariant: the items there are make up some lists, every block
\* is the name or text of one, what the program holds is in no list, and all in
\* the list of an object have names.
TreeInv == \E ls : Now(ls)

LEMMA DoneIs ==
  ASSUME NEW ls, Done(ls)
  PROVE  \E ls2 : /\ Now(ls2)' /\ op'.ok \in BOOLEAN
                  /\ Missing(ls2, held') = Missing(ls, held) \/ (op'.call = "append reference" /\ ~op'.ok)
                  /\ ~op'.ok => Unchanged(heap.at, heap'.at, op')
                  /\ Follows(heap.at, ls, heap'.at, ls2, op')
<1> DEFINE h == H(0)
           g == Afterwards
           o == op'
<1>1. h.at = heap.at /\ g.at = heap'.at
  BY DEF H, Afterwards, Mem
<1>2. g = H(0)'
  BY DEF H, Afterwards, Mem
<1>3. op'.ok \in BOOLEAN /\ Steps(h, held, ls, g, held', o)
  BY DEF Done
<1> HIDE DEF h, g, o
<1>4. PICK ls2 : Step(h, held, ls, g, held', ls2, o)
  BY <1>3 DEF Steps
<1>5. /\ Given(g, held', ls2)
      /\ Missing(ls2, held') = Missing(ls, held) \/ (o.call = "append reference" /\ ~o.ok)
      /\ ~o.ok => Unchanged(heap.at, heap'.at, o)
      /\ Follows(heap.at, ls, heap'.at, ls2, o)
  BY <1>1, <1>4 DEF Step
<1>6. Now(ls2)'
  BY <1>2, <1>5 DEF Now
<1> QED
  BY <1>3, <1>5, <1>6 DEF o

LEMMA InitNow == JsonInit => TreeInv
<1> SUFFICES ASSUME JsonInit PROVE Now(<<>>)
  BY DEF TreeInv
<1> DEFINE at == <<>>
           ls == <<>>
           h == H(0)
<1>1. h.at = at /\ h.strings = 0 /\ h.fuel = 0 /\ held = {}
  BY DEF JsonInit, H
<1>2. h = Mem(h.at, h.strings, h.fuel)
  BY <1>1 DEF H, Mem
<1>3. DOMAIN at = {} /\ DOMAIN ls = {}
  OBVIOUS
<1>4. at \in [{} -> Item] /\ ls \in [{} -> Seq({})]
  BY <1>3
<1>5. Typed(at, ls)
  BY <1>3, <1>4 DEF Typed
<1>6. Sound(at, ls)
  BY <1>3, <1>5 DEF Sound, Apart, Acyclic, Chained, RootsLoose
<1>7. Keyed(at) = {} /\ Texted(at) = {}
  BY <1>3 DEF Keyed, Texted
<1>8. Blocks(at) = 0
  BY <1>7, FS_EmptySet DEF Blocks
<1> HIDE DEF at, ls, h
<1>9. Tidy(h, ls, held, 0)
  BY <1>1, <1>2, <1>3, <1>6, <1>8 DEF Tidy
<1>10. NamesInObjects(h.at, ls)
  BY <1>3 DEF NamesInObjects
<1> QED
  BY <1>9, <1>10 DEF Now, Given, h, ls

\* A call of the program, and the lists before and after it.
LEMMA Called ==
  ASSUME TreeInv, TreeNext
  PROVE  \E ls, ls2 :
           /\ Now(ls) /\ Now(ls2)' /\ op'.ok \in BOOLEAN
           /\ Missing(ls2, held') = Missing(ls, held) \/ (op'.call = "append reference" /\ ~op'.ok)
           /\ ~op'.ok => Unchanged(heap.at, heap'.at, op')
           /\ Follows(heap.at, ls, heap'.at, ls2, op')
<1>1. PICK ls : Now(ls)
  BY DEF TreeInv
<1>2. Done(ls)
  BY <1>1, NextDone
<1> QED
  BY <1>1, <1>2, DoneIs

\* Whatever calls the program makes and whichever allocation fails, there are
\* lists that the items make up.
THEOREM AlwaysTree == TreeSpec => []TreeInv
<1>1. TreeInv /\ [TreeNext]_jsonVars => TreeInv'
  <2> SUFFICES ASSUME TreeInv, [TreeNext]_jsonVars PROVE TreeInv'
    OBVIOUS
  <2>1. CASE TreeNext
    <3>1. \E ls2 : Now(ls2)'
      BY <2>1, Called
    <3> QED
      BY <3>1 DEF TreeInv
  <2>2. CASE UNCHANGED jsonVars
    BY <2>2 DEF jsonVars, TreeInv, Now, H
  <2> QED
    BY <2>1, <2>2
<1> QED
  BY <1>1, InitNow, PTL DEF TreeSpec

LEMMA NowSound == TreeInv => HeapSound
<1> SUFFICES ASSUME NEW ls, Now(ls) PROVE HeapSound
  BY DEF TreeInv
<1> DEFINE at == heap.at
<1>1. /\ Sound(at, ls) /\ held \in SUBSET DOMAIN ls /\ DOMAIN at = DOMAIN ls
      /\ \A r \in held : Root(ls, r)
  BY NowFacts
<1>2. ls \in [DOMAIN ls -> Seq(DOMAIN ls)] /\ Apart(ls) /\ Acyclic(ls)
  BY <1>1 DEF Sound, Typed
<1>3. Owned(heap, held) \subseteq DOMAIN ls
  BY OwnedNow
<1>4. ASSUME NEW n \in DOMAIN ls, ~at[n].ref PROVE Items(heap, n) = ls[n] /\ Linked(at, n, ls[n])
  <2>1. Items(heap, n) = ls[n]
    BY <1>1, <1>4, ItemsSound
  <2>2. Linked(at, n, ls[n])
    BY <1>1, <1>4 DEF Sound, Chained
  <2> QED
    BY <2>1, <2>2
<1>5. ASSUME NEW n \in DOMAIN ls PROVE Tree(heap, n) = Below(ls, n)
  BY <1>1, TreeIs
<1>6. \A n \in Live(heap) : ~at[n].ref => Linked(at, n, Items(heap, n))
  BY <1>1, <1>4 DEF Live
<1>7. \A r \in held : at[r].next = NULL /\ at[r].prev = NULL
  BY <1>1 DEF Sound, RootsLoose, LinkedToNothing
<1>8. \A r, s \in held : r # s => Tree(heap, r) \cap Tree(heap, s) = {}
  <2> SUFFICES ASSUME NEW r \in held, NEW s \in held, r # s PROVE Tree(heap, r) \cap Tree(heap, s) = {}
    OBVIOUS
  <2>1. r \in DOMAIN ls /\ s \in DOMAIN ls /\ Root(ls, r) /\ Root(ls, s)
    BY <1>1
  <2>2. Below(ls, r) \cap Below(ls, s) = {}
    BY <1>2, <2>1, RootsApart
  <2> QED
    BY <1>5, <2>1, <2>2
<1>9. \A n \in Owned(heap, held) : ~at[n].ref =>
        \A c, d \in ToSet(Items(heap, n)) : c # d => Tree(heap, c) \cap Tree(heap, d) = {}
  <2> SUFFICES ASSUME NEW n \in Owned(heap, held), ~at[n].ref, NEW c \in ToSet(Items(heap, n)),
                      NEW d \in ToSet(Items(heap, n)), c # d
               PROVE  Tree(heap, c) \cap Tree(heap, d) = {}
    OBVIOUS
  <2>1. n \in DOMAIN ls /\ Items(heap, n) = ls[n]
    BY <1>3, <1>4
  <2>2. c \in ToSet(ls[n]) /\ d \in ToSet(ls[n])
    BY <2>1
  <2>3. c \in DOMAIN ls /\ d \in DOMAIN ls
    BY <1>2, <2>1, <2>2, InSet
  <2>4. Below(ls, c) \cap Below(ls, d) = {}
    BY <1>2, <2>1, <2>2, SiblingsApart
  <2> QED
    BY <1>5, <2>3, <2>4
<1>10. heap.strings = Cardinality({n \in Live(heap) : OwnsKey(at[n])})
                      + Cardinality({n \in Live(heap) : OwnsValue(at[n])})
  <2>1. Tidy(H(0), ls, held, 0)
    BY DEF Now, Given
  <2>2. H(0).strings = heap.strings /\ H(0).at = at
    BY DEF H
  <2>3. heap.strings = Blocks(at) /\ Blocks(at) \in Int
    <3>1. H(0).strings = Blocks(H(0).at) + 0 /\ Blocks(H(0).at) \in Int
      BY <2>1, TidyFacts
    <3> QED
      BY <2>2, <3>1
  <2> QED
    BY <2>3 DEF Blocks, Keyed, Texted, Live
<1>11. \A r \in held : LET s == DeleteOrder(at, r) IN IsInjective(s) /\ ToSet(s) = Freed(at, r)
  <2> SUFFICES ASSUME NEW r \in held PROVE LET s == DeleteOrder(at, r) IN IsInjective(s) /\ ToSet(s) = Freed(at, r)
    OBVIOUS
  <2> DEFINE s == DeleteOrder(at, r)
  <2>1. r \in DOMAIN ls /\ Root(ls, r)
    BY <1>1
  <2>2. Covers(s, DOMAIN ls, Below(ls, r))
    BY <1>1, <2>1, FreesOnce
  <2>3. Freed(at, r) = Below(ls, r)
    BY <1>1, <2>1, FreesBelow
  <2> HIDE DEF s
  <2>4. IsInjective(s) /\ ToSet(s) = Freed(at, r)
    BY <2>2, <2>3 DEF Covers, Once, IsInjective
  <2> QED
    BY <2>4 DEF s
<1> QED
  BY <1>6, <1>7, <1>8, <1>9, <1>10, <1>11 DEF HeapSound

\* Whatever calls a program makes on its trees, with any names and texts, in a
\* memory of any size and whichever allocation fails: every list is linked both
\* ways, no item is in two trees, no block is lost or freed twice, and
\* cJSON_Delete of any root would free what it leads to, each item once
\* (cJSON.c:249-276, 1956-2339, 2545-2787).
THEOREM AlwaysHeapSound == TreeSpec => []HeapSound
BY AlwaysTree, NowSound, PTL

LEMMA LostIs ==
  ASSUME NEW h, NEW R, NEW ls, Sound(h.at, ls), R \in SUBSET DOMAIN ls
  PROVE  Lost(h, R) = Missing(ls, R)
<1>1. Owned(h, R) = Under(ls, R) /\ DOMAIN h.at = DOMAIN ls
  BY OwnedIs, SoundFacts DEF Under
<1> QED
  BY <1>1 DEF Lost, Missing, Live

LEMMA NowAfter ==
  ASSUME NEW ls, Now(ls)'
  PROVE  Sound(heap'.at, ls) /\ held' \in SUBSET DOMAIN ls /\ DOMAIN heap'.at = DOMAIN ls
<1> DEFINE h == H(0)'
           R == held'
<1>1. h.at = heap'.at /\ Given(h, R, ls)
  BY DEF Now, H
<1> HIDE DEF h, R
<1>2. Sound(h.at, ls) /\ R \in SUBSET DOMAIN ls /\ DOMAIN h.at = DOMAIN ls
  BY <1>1, GivenFacts
<1> QED
  BY <1>1, <1>2 DEF R

\* No call makes an item unreachable for the program, but for the reference that
\* AddItemReferenceToObject drops when it has no memory for the name
\* (cJSON.c:2070-2078).
THEOREM NothingIsLost == TreeSpec => NothingLost
<1>1. ASSUME TreeInv, TreeNext
      PROVE  Lost(heap', held') = Lost(heap, held) \/ (op'.call = "append reference" /\ ~op'.ok)
  <2>1. PICK ls, ls2 : /\ Now(ls) /\ Now(ls2)'
                       /\ Missing(ls2, held') = Missing(ls, held) \/ (op'.call = "append reference" /\ ~op'.ok)
    BY <1>1, Called
  <2>2. Lost(heap, held) = Missing(ls, held)
    <3>1. Sound(heap.at, ls) /\ held \in SUBSET DOMAIN ls
      BY <2>1, NowFacts
    <3> QED
      BY <3>1, LostIs
  <2>3. Lost(heap', held') = Missing(ls2, held')
    <3> DEFINE h == heap'
               R == held'
    <3>1. Sound(h.at, ls2) /\ R \in SUBSET DOMAIN ls2
      BY <2>1, NowAfter
    <3> HIDE DEF h, R
    <3>2. Lost(h, R) = Missing(ls2, R)
      BY <3>1, LostIs
    <3> QED
      BY <3>2 DEF h, R
  <2> QED
    BY <2>1, <2>2, <2>3
<1>2. TreeInv => [TreeNext => Lost(heap', held') = Lost(heap, held)
                              \/ (op'.call = "append reference" /\ ~op'.ok)]_jsonVars
  BY <1>1
<1> QED
  BY <1>2, AlwaysTree, PTL DEF TreeSpec, NothingLost

\* A call that fails has changed no item but the name of a replacement
\* (cJSON.c:2351-2371).
THEOREM AlwaysFailsCleanly == TreeSpec => FailsCleanly
<1> DEFINE A == ~op'.ok => \A n \in Live(heap) :
                  /\ n \in Live(heap')
                  /\ \/ heap'.at[n] = heap.at[n]
                     \/ /\ op'.call = "replace" /\ n = op'.item
                        /\ heap'.at[n] = [heap.at[n] EXCEPT !.key = heap'.at[n].key, !.const = heap'.at[n].const]
<1>1. ASSUME TreeInv, TreeNext PROVE A
  <2>1. ~op'.ok => Unchanged(heap.at, heap'.at, op')
    BY <1>1, Called
  <2> QED
    BY <2>1 DEF Unchanged, Live
<1>2. TreeInv => [TreeNext => A]_jsonVars
  BY <1>1
<1> QED
  BY <1>2, AlwaysTree, PTL DEF TreeSpec, FailsCleanly

\* Every call does to its list what its name says, where it says, and leaves
\* every other list as it was (cJSON.c:1851-2382).
THEOREM AlwaysEditsLists == TreeSpec => EditsLists
<1> DEFINE A == \A c \in Live(heap) \cap Live(heap') : ~heap.at[c].ref =>
                  LET s == Items(heap, c)
                  IN  /\ Items(heap', c) = IF c = op'.list /\ op'.ok THEN Edited(s, op') ELSE s
                      /\ c = op'.list /\ op'.call = "remove" =>
                           op'.ok = (Position(s, op'.where) \in DOMAIN s)
<1>1. ASSUME TreeInv, TreeNext PROVE A
  <2> DEFINE at == heap.at
             h2 == heap'
             o == op'
  <2>1. PICK ls, ls2 : /\ Now(ls) /\ Now(ls2)' /\ o.ok \in BOOLEAN
                       /\ Follows(at, ls, h2.at, ls2, o)
    BY <1>1, Called
  <2>2. Sound(at, ls) /\ DOMAIN at = DOMAIN ls
    BY <2>1, NowFacts
  <2>3. Sound(h2.at, ls2) /\ DOMAIN h2.at = DOMAIN ls2
    BY <2>1, NowAfter
  <2>4. ASSUME NEW s PROVE Edited(s, o) = EditedIn(at, s, o) /\ Position(s, o.where) = PositionIn(at, s, o.where)
    BY DEF Edited, EditedIn, Position, PositionIn, NamedIn
  <2> HIDE DEF h2, o
  <2>5. ASSUME NEW c \in DOMAIN at \cap DOMAIN h2.at, ~at[c].ref
        PROVE  /\ Items(h2, c) = IF c = o.list /\ o.ok THEN Edited(Items(heap, c), o) ELSE Items(heap, c)
               /\ c = o.list /\ o.call = "remove" =>
                    o.ok = (Position(Items(heap, c), o.where) \in DOMAIN Items(heap, c))
    <3>1. c \in DOMAIN ls /\ c \in DOMAIN ls2
      BY <2>2, <2>3
    <3>2. Items(heap, c) = ls[c]
      BY <2>2, <2>5, <3>1, ItemsSound
    <3>3. /\ ~h2.at[c].ref
          /\ ls2[c] = IF c = o.list /\ o.ok THEN EditedIn(at, ls[c], o) ELSE ls[c]
          /\ c = o.list /\ o.call = "remove" => (o.ok <=> PositionIn(at, ls[c], o.where) \in DOMAIN ls[c])
      BY <2>1, <2>5, <3>1 DEF Follows
    <3>4. Items(h2, c) = ls2[c]
      BY <2>3, <3>1, <3>3, ItemsSound
    <3>5. Edited(ls[c], o) = EditedIn(at, ls[c], o) /\ Position(ls[c], o.where) = PositionIn(at, ls[c], o.where)
      BY <2>4
    <3>6. c = o.list /\ o.call = "remove" =>
            o.ok = (Position(Items(heap, c), o.where) \in DOMAIN Items(heap, c))
      BY <2>1, <3>2, <3>3, <3>5
    <3> QED
      BY <3>2, <3>3, <3>4, <3>5, <3>6
  <2> QED
    BY <2>5 DEF Live, h2, o
<1>2. TreeInv => [TreeNext => A]_jsonVars
  BY <1>1
<1> QED
  BY <1>2, AlwaysTree, PTL DEF TreeSpec, EditsLists

=============================================================================
