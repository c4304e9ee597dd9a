------------------------------- MODULE CJsonTree -------------------------------
(***************************************************************************)
(* A program that builds, edits and deletes trees with cJSON: it holds      *)
(* roots, and any allocation may be the first to fail.  It keeps to what    *)
(* cJSON.h asks: a root is added once and not below itself, array calls are *)
(* for arrays and object calls for objects, and what a reference shows is   *)
(* neither freed nor relinked.                                              *)
(***************************************************************************)
EXTENDS CJson

VARIABLES
  heap,   \* [at, strings], as in CJson
  held,   \* the roots the program owns
  op      \* the last call and what came of it

jsonVars == <<heap, held, op>>

H(fuel) == [at |-> heap.at, strings |-> heap.strings, fuel |-> fuel]

\* The item and what is below it, and not what a reference shows.
Tree(h, n) ==
  LET tree[m \in Live(h)] ==
        {m} \cup (IF h.at[m].ref THEN {} ELSE UNION {tree[c] : c \in ToSet(Items(h, m))})
  IN  tree[n]

\* m can be reached from n, through references too.
Reaches(h, n, m) ==
  LET shows == UNION {{c} \X ToSet(Items(h, c)) : c \in Live(h)}
  IN  \A S \in SUBSET (Live(h) \ {m}) : n \in S => \E e \in shows : e[1] \in S /\ e[2] \notin S

Owned(h, roots) == UNION {Tree(h, n) : n \in roots}

\* What references outside `gone' show.
Lent(gone) ==
  UNION {ToSet(Items(heap, r)) : r \in {n \in Owned(heap, held) \ gone : heap.at[n].ref}}

Disposable(n) == Tree(heap, n) \cap Lent(Tree(heap, n)) = {}

Lists(kind) ==
  {c \in Owned(heap, held) :
     /\ heap.at[c].type = kind /\ ~heap.at[c].ref
     /\ ToSet(Items(heap, c)) \cap Lent({}) = {}}

\* The roots that may go into list.
Loose(list) == {n \in held : ~Reaches(heap, n, list)}

\* What a reference may show.  A text has no identity here, so a string is left
\* to CreateReference.
Shown(list) ==
  {n \in Owned(heap, held) : heap.at[n].type # "string" /\ ~Reaches(heap, n, list)}

NoCall == [call |-> "none", ok |-> TRUE, list |-> NULL]

JsonInit ==
  /\ heap = [at |-> <<>>, strings |-> 0]
  /\ held = {}
  /\ op = NoCall

-----------------------------------------------------------------------------
(* The calls.  `edit' names what list should go through, at the place where. *)

Return(h, roots, call) ==
  /\ heap' = [at |-> h.at, strings |-> h.strings]
  /\ held' = roots
  /\ op' = call

\* A call that returns a new root, or NULL.
Gives(call, d) ==
  Return(d.h, (held \cup {d.r}) \ {NULL}, [call |-> call, ok |-> d.r # NULL, r |-> d.r, list |-> NULL])

\* A call on list that is given the root item and keeps it if it succeeds.
Takes(edit, list, item, where, d) ==
  Return(d.h, IF d.r THEN held \ {item} ELSE held,
         [call |-> edit, ok |-> d.r, list |-> list, item |-> item, where |-> where])

\* A call that puts an item of its own into list.
Grows(call, list, d, ok) ==
  Return(d.h, held, [call |-> call, ok |-> ok, list |-> list,
                     item |-> IF ok THEN CHOOSE n \in Live(d.h) : n \notin Live(heap) ELSE NULL])

\* A call that removes an item from list: the program gets it, or it is freed.
Removes(call, list, where, d, roots) ==
  Return(d.h, roots, [call |-> call, ok |-> d.r # NULL, list |-> list, item |-> d.r, where |-> where])

Creates(f, types, values) ==
  \/ \E t \in types : Gives("create", Create(H(f), t, NoString))
  \/ \E v \in values : Gives("create", Create(H(f), "string", v))
  \/ \E v \in values : Gives("create", CreateReference(H(f), "string", v, NULL))
  \/ \E n \in Owned(heap, held), kind \in types \cap {"array", "object"} :
       /\ (kind = "object") = (heap.at[n].key # NoString)
       /\ n \notin held
       /\ Gives("create", CreateReference(H(f), kind, NoString, n))

Deletes ==
  \E n \in held : Disposable(n) /\
    Return(cJSON_Delete(H(0), n), held \ {n}, [call |-> "delete", ok |-> TRUE, list |-> NULL])

SetsText(f, values) ==
  \E n \in Owned(heap, held), v \in values :
    /\ heap.at[n].type = "string"
    /\ LET d == cJSON_SetValuestring(H(f), n, v)
       IN  Return(d.h, held, [call |-> "set", ok |-> d.r, list |-> NULL])

\* An index out of range, and one past the end, are tried too.
Index(list) == -1 .. Len(Items(heap, list))

Nth(i)             == [index |-> i, name |-> NoString, exact |-> TRUE]
Named(name, exact) == [index |-> 0, name |-> name, exact |-> exact]

At(list, which) == IF which < 0 THEN NULL ELSE get_array_item(H(0), list, which)

EditsArray(f) ==
  \E a \in Lists("array") :
    \/ \E n \in Loose(a) : Takes("append", a, n, Nth(0), add_item_to_array(H(f), a, n))
    \/ \E n \in Loose(a), i \in Index(a) : Takes("insert", a, n, Nth(i), cJSON_InsertItemInArray(H(f), a, i, n))
    \/ \E n \in Loose(a), i \in Index(a) :
         /\ At(a, i) # NULL => Disposable(At(a, i))
         /\ Takes("replace", a, n, Nth(i), cJSON_ReplaceItemViaPointer(H(f), a, At(a, i), n))
    \/ \E i \in Index(a) :
         LET d == cJSON_DetachItemViaPointer(H(f), a, At(a, i))
         IN  \/ Removes("remove", a, Nth(i), d, (held \cup {d.r}) \ {NULL})
             \/ /\ At(a, i) # NULL => Disposable(At(a, i))
                /\ Removes("remove", a, Nth(i), DeleteDetached(d), held)

ShowsInArray(f) ==
  \E a \in Lists("array") : \E n \in Shown(a) :
    LET d == cJSON_AddItemReferenceToArray(H(f), a, n) IN Grows("append", a, d, d.r)

EditsObject(f, names, literals, types) ==
  \E o \in Lists("object"), k \in names :
    \/ \E n \in Loose(o), c \in {FALSE, (k \in literals)} :
         Takes("append", o, n, Named(k, TRUE), add_item_to_object(H(f), o, k, n, c))
    \/ \E t \in types :
         LET d == AddNewToObject(H(f), o, k, t, NoString) IN Grows("append", o, d, d.r # NULL)
    \/ \E n \in Shown(o) :
         LET d == cJSON_AddItemReferenceToObject(H(f), o, k, n) IN Grows("append reference", o, d, d.r)
    \/ \E exact \in BOOLEAN :
         LET it == get_object_item(H(0), o, k, exact)
             d  == cJSON_DetachItemViaPointer(H(f), o, it)
         IN  \/ Removes("remove", o, Named(k, exact), d, (held \cup {d.r}) \ {NULL})
             \/ /\ it # NULL => Disposable(it)
                /\ \/ Removes("remove", o, Named(k, exact), DeleteDetached(d), held)
                   \/ \E n \in Loose(o) :
                        Takes("replace", o, n, Named(k, exact), replace_item_in_object(H(f), o, k, n, exact))

-----------------------------------------------------------------------------
(* The program, with any names and texts.                                  *)

Kind == Scalar \cup {"array", "object"}
Texts == Seq(STRING) \ {NoString}

TreeNext ==
  \/ Deletes
  \/ \E f \in Nat :
       \/ Creates(f, Kind, Texts)
       \/ SetsText(f, Texts)
       \/ EditsArray(f)
       \/ ShowsInArray(f)
       \/ EditsObject(f, Texts, Texts, Kind)

TreeSpec == JsonInit /\ [][TreeNext]_jsonVars

-----------------------------------------------------------------------------
(* The heap.                                                               *)

\* Every list is linked both ways with its tail at the head's prev, roots are
\* linked to nothing, no item is in two trees, the blocks allocated are the
\* names and texts of the items there are, and deleting a root would free what
\* it leads to, each item once: after any calls, those that failed half way included
\* (cJSON.c:249-276, 1956-2339, 2545-2787).
HeapSound ==
  /\ \A n \in Live(heap) : ~heap.at[n].ref => Linked(heap.at, n, Items(heap, n))
  /\ \A r \in held : heap.at[r].next = NULL /\ heap.at[r].prev = NULL
  /\ \A r, s \in held : r # s => Tree(heap, r) \cap Tree(heap, s) = {}
  /\ \A n \in Owned(heap, held) : ~heap.at[n].ref =>
       \A c, d \in ToSet(Items(heap, n)) : c # d => Tree(heap, c) \cap Tree(heap, d) = {}
  /\ heap.strings = Cardinality({n \in Live(heap) : OwnsKey(heap.at[n])})
                    + Cardinality({n \in Live(heap) : OwnsValue(heap.at[n])})
  /\ \A r \in held : LET s == DeleteOrder(heap.at, r)
                     IN  IsInjective(s) /\ ToSet(s) = Freed(heap.at, r)

Lost(h, roots) == Live(h) \ Owned(h, roots)

\* No call makes an item unreachable for the program that has to free it, with
\* one exception: AddItemReferenceToObject drops the reference it made when it
\* has no memory for the name (cJSON.c:2070-2078).
NothingLost ==
  [][Lost(heap', held') = Lost(heap, held)
     \/ (op'.call = "append reference" /\ ~op'.ok)]_jsonVars

Position(s, where) ==
  IF where.name = NoString THEN where.index + 1
  ELSE LET named == {i \in DOMAIN s : IF where.exact THEN heap.at[s[i]].key = where.name
                                      ELSE Fold(heap.at[s[i]].key) = Fold(where.name)}
       IN  IF named = {} THEN 0 ELSE Min(named)

Edited(s, o) ==
  CASE o.call \in {"append", "append reference"} -> Append(s, o.item)
    [] o.call = "insert"  -> InsertAt(s, Min({Position(s, o.where), Len(s) + 1}), o.item)
    [] o.call = "remove"  -> RemoveAt(s, Position(s, o.where))
    [] o.call = "replace" -> ReplaceAt(s, Position(s, o.where), o.item)

\* Every call does to the list it is given what its name says, finds the item
\* it says, and leaves every other list as it was (cJSON.c:1851-2382).
EditsLists ==
  [][\A c \in Live(heap) \cap Live(heap') : ~heap.at[c].ref =>
       LET s == Items(heap, c)
       IN  /\ Items(heap', c) = IF c = op'.list /\ op'.ok THEN Edited(s, op') ELSE s
           /\ c = op'.list /\ op'.call = "remove" =>
                op'.ok = (Position(s, op'.where) \in DOMAIN s)]_jsonVars

\* A call that fails leaves every item as it was: nothing half done, nothing
\* gone.  Only the replacement of a replace has its name changed
\* (cJSON.c:2351-2371).
FailsCleanly ==
  [][~op'.ok => \A n \in Live(heap) :
       /\ n \in Live(heap')
       /\ \/ heap'.at[n] = heap.at[n]
          \/ /\ op'.call = "replace" /\ n = op'.item
             /\ heap'.at[n] = [heap.at[n] EXCEPT !.key = heap'.at[n].key, !.const = heap'.at[n].const]]_jsonVars

=============================================================================
