------------------------------ MODULE CJsonLinks ------------------------------
(***************************************************************************)
(* The links of cJSON.c: how items are allocated, found in a list, added   *)
(* to it and taken out of it.                                              *)
(* A function takes the memory h and returns [h |-> memory after, r |->    *)
(* result].  h.at holds the items allocated, by address; h.strings counts  *)
(* the other blocks (names, texts, print buffers); h.fuel is how many more *)
(* allocations succeed.  Reading a freed item is no value of the model.    *)
(***************************************************************************)
EXTENDS Integers, Sequences, FiniteSets, FiniteSetsExt

CONSTANT MaxItems   \* addresses there are

NULL == 0
Node == 1 .. MaxItems
NoString == <<"NULL">>    \* a char pointer that is NULL

ASSUME CJsonAssumption == MaxItems \in Nat

\* An item after memset.  `ref' and `const' are the flags of its type; value
\* is valuestring or valuedouble, as the type says.
Blank == [type |-> "invalid", ref |-> FALSE, const |-> FALSE, key |-> NoString,
          value |-> NoString, next |-> NULL, prev |-> NULL, child |-> NULL]

Live(h) == DOMAIN h.at

-----------------------------------------------------------------------------
(* Lists.  An item links to its children's head; the head's prev is the    *)
(* tail.                                                                   *)

\* The item that follows s in the list of n.
Following(h, n, s) == IF s = <<>> THEN h.at[n].child ELSE h.at[s[Len(s)]].next

\* The children of n, along next.
Items(h, n) ==
  LET chain[k \in 0 .. Cardinality(Live(h))] ==
        IF k = 0 THEN <<>>
        ELSE LET s == chain[k - 1]
                 item == Following(h, n, s)
             IN  IF item = NULL THEN s ELSE Append(s, item)
  IN  chain[Cardinality(Live(h))]

\* The children of n are s, linked in both directions.
Linked(at, n, s) ==
  /\ at[n].child = IF s = <<>> THEN NULL ELSE s[1]
  /\ \A i \in DOMAIN s :
       /\ at[s[i]].next = IF i = Len(s) THEN NULL ELSE s[i + 1]
       /\ at[s[i]].prev = IF i = 1 THEN s[Len(s)] ELSE s[i - 1]

\* The loop over current_child.
get_array_item(h, array, index) ==
  LET current_child[k \in 0 .. index] ==
        IF k = 0 THEN h.at[array].child
        ELSE IF current_child[k - 1] = NULL THEN NULL ELSE h.at[current_child[k - 1]].next
  IN  current_child[index]

-----------------------------------------------------------------------------
(* Allocation.                                                             *)

cJSON_New_Item(h) ==
  LET free == Node \ Live(h)
      n    == Min(free)
  IN  IF h.fuel = 0 \/ free = {} THEN [h |-> h, r |-> NULL]
      ELSE [h |-> [h EXCEPT !.at = [m \in Live(h) \cup {n} |-> IF m = n THEN Blank ELSE h.at[m]],
                            !.fuel = @ - 1],
            r |-> n]

-----------------------------------------------------------------------------
(* Adding.                                                                 *)

suffix_object(h, prev, item) == [h EXCEPT !.at[prev].next = item, !.at[item].prev = prev]

create_reference(h, item) ==
  LET n == cJSON_New_Item(h)
  IN  IF item = NULL \/ n.r = NULL THEN [h |-> h, r |-> NULL]
      ELSE [h |-> [n.h EXCEPT !.at[n.r] = [h.at[item] EXCEPT !.key = NoString, !.ref = TRUE,
                                                             !.next = NULL, !.prev = NULL]],
            r |-> n.r]

\* Mutant of add_item_to_array: the head's prev is left where it was.
add_item_to_array_NoTail(h, array, item) ==
  LET child == h.at[array].child
  IN  IF NULL \in {array, item} \/ array = item THEN [h |-> h, r |-> FALSE]
      ELSE [h |-> IF child = NULL
                  THEN [h EXCEPT !.at[array].child = item, !.at[item].prev = item, !.at[item].next = NULL]
                  ELSE suffix_object(h, h.at[child].prev, item),
            r |-> TRUE]

\* The tail is the head's prev; without one the item is dropped, and TRUE.
add_item_to_array(h, array, item) ==
  IF NULL \in {array, item} \/ array = item THEN [h |-> h, r |-> FALSE]
  ELSE LET child == h.at[array].child
       IN  [h |-> IF child = NULL
                  THEN [h EXCEPT !.at[array].child = item, !.at[item].prev = item, !.at[item].next = NULL]
                  ELSE IF h.at[child].prev = NULL THEN h
                  ELSE [suffix_object(h, h.at[child].prev, item) EXCEPT !.at[child].prev = item],
            r |-> TRUE]

cJSON_AddItemReferenceToArray(h, array, item) ==
  LET n == create_reference(h, item) IN add_item_to_array(n.h, array, n.r)

-----------------------------------------------------------------------------
(* Detaching, inserting, replacing.                                        *)

\* Mutant of cJSON_DetachItemViaPointer: the new tail is not noted.
cJSON_DetachItemViaPointer_NoTail(h, parent, item) ==
  LET i == h.at[item]
      h1 == IF item = h.at[parent].child THEN [h EXCEPT !.at[parent].child = i.next]
            ELSE [h EXCEPT !.at[i.prev].next = i.next]
      h2 == IF i.next = NULL THEN h1 ELSE [h1 EXCEPT !.at[i.next].prev = i.prev]
  IN  IF NULL \in {parent, item} THEN [h |-> h, r |-> NULL]
      ELSE [h |-> [h2 EXCEPT !.at[item].prev = NULL, !.at[item].next = NULL], r |-> item]

cJSON_DetachItemViaPointer(h, parent, item) ==
  LET i == h.at[item]
      head == h.at[parent].child
      h1 == IF item = head THEN [h EXCEPT !.at[parent].child = i.next]
            ELSE [h EXCEPT !.at[i.prev].next = i.next]
      h2 == IF i.next = NULL THEN h1 ELSE [h1 EXCEPT !.at[i.next].prev = i.prev]
      h3 == IF item # head /\ i.next = NULL THEN [h2 EXCEPT !.at[head].prev = i.prev] ELSE h2
  IN  IF NULL \in {parent, item} THEN [h |-> h, r |-> NULL]
      ELSE [h |-> [h3 EXCEPT !.at[item].prev = NULL, !.at[item].next = NULL], r |-> item]

\* Past the end an item is appended.
cJSON_InsertItemInArray(h, array, which, newitem) ==
  LET after == get_array_item(h, array, which)
      before == h.at[after].prev
      h1 == [h EXCEPT !.at[newitem].next = after, !.at[newitem].prev = before, !.at[after].prev = newitem]
  IN  IF which < 0 THEN [h |-> h, r |-> FALSE]
      ELSE IF after = NULL THEN add_item_to_array(h, array, newitem)
      ELSE [h |-> IF after = h.at[array].child THEN [h1 EXCEPT !.at[array].child = newitem]
                  ELSE [h1 EXCEPT !.at[before].next = newitem],
            r |-> TRUE]

\* cJSON_ReplaceItemViaPointer, up to the delete: the replacement stands where
\* the item was.
PutInPlace(h, parent, item, replacement) ==
  LET i    == h.at[item]
      head == h.at[parent].child
      h1 == [h EXCEPT !.at[replacement].next = i.next, !.at[replacement].prev = i.prev]
      h2 == IF i.next = NULL THEN h1 ELSE [h1 EXCEPT !.at[i.next].prev = replacement]
      first == [h2 EXCEPT !.at[parent].child = replacement,
                          !.at[replacement].prev = IF h2.at[head].prev = head THEN replacement ELSE @]
      inner == IF i.prev = NULL THEN h2 ELSE [h2 EXCEPT !.at[i.prev].next = replacement]
      h3 == IF head = item THEN first
            ELSE IF i.next = NULL THEN [inner EXCEPT !.at[head].prev = replacement]
            ELSE inner
  IN  [h3 EXCEPT !.at[item].next = NULL, !.at[item].prev = NULL]

-----------------------------------------------------------------------------
(* Freeing.                                                                *)

\* The items cJSON_Delete goes on to from n: the next one, and the children
\* unless n is a reference.
Onward(at, n) == ({at[n].next} \cup (IF at[n].ref THEN {} ELSE {at[n].child})) \ {NULL}

\* Mutant of Freed: what a reference shows is freed too.
Freed_Referenced(at, n) ==
  {m \in DOMAIN at :
     \A S \in SUBSET DOMAIN at :
       n \in S /\ (\A c \in S : {at[c].next, at[c].child} \ {NULL} \subseteq S) => m \in S}

\* What cJSON_Delete frees: all its loop and its calls of itself come to.
Freed(at, n) ==
  {m \in DOMAIN at :
     \A S \in SUBSET DOMAIN at : n \in S /\ (\A c \in S : Onward(at, c) \subseteq S) => m \in S}

Deleted(at, n) == [m \in DOMAIN at \ Freed(at, n) |-> at[m]]

=============================================================================
