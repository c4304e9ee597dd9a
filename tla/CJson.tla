-------------------------------- MODULE CJson --------------------------------
(***************************************************************************)
(* The items of cJSON.c: what each function of the tree does to memory,    *)
(* over the links of CJsonLinks.                                           *)
(* A name or a text is a sequence of characters; a number is its digits.   *)
(***************************************************************************)
EXTENDS CJsonLinks, TLC, SequencesExt

Scalar == {"null", "true", "false"}

OwnsKey(i)   == ~i.const /\ i.key # NoString
OwnsValue(i) == ~i.ref /\ i.type \in {"string", "raw"} /\ i.value # NoString

-----------------------------------------------------------------------------
(* Allocation.                                                             *)

cJSON_strdup(h) ==
  IF h.fuel = 0 THEN [h |-> h, r |-> FALSE]
  ELSE [h |-> [h EXCEPT !.strings = @ + 1, !.fuel = @ - 1], r |-> TRUE]

\* The items cJSON_Delete comes to, in the order it frees them: what is below an
\* item, the item, and what follows it.
DeleteOrder(at, item) ==
  LET order[k \in 0 .. Cardinality(DOMAIN at) + 1] ==
        [n \in DOMAIN at \cup {NULL} |->
           IF k = 0 \/ n = NULL THEN <<>>
           ELSE (IF at[n].ref THEN <<>> ELSE order[k - 1][at[n].child])
                \o <<n>> \o order[k - 1][at[n].next]]
  IN  order[Cardinality(DOMAIN at) + 1][item]

cJSON_Delete(h, item) ==
  LET s == DeleteOrder(h.at, item)
      texts == Cardinality({i \in DOMAIN s : OwnsKey(h.at[s[i]])})
               + Cardinality({i \in DOMAIN s : OwnsValue(h.at[s[i]])})
  IN  [h EXCEPT !.at = [n \in Live(h) \ ToSet(s) |-> h.at[n]], !.strings = @ - texts]

\* cJSON_CreateNull ... cJSON_CreateObject; a string or raw item copies its text.
Create(h, type, value) ==
  LET n == cJSON_New_Item(h)
      d == cJSON_strdup(n.h)
      made(m) == [h |-> [m EXCEPT !.at[n.r].type = type, !.at[n.r].value = value], r |-> n.r]
  IN  IF n.r = NULL THEN n
      ELSE IF type \notin {"string", "raw"} THEN made(n.h)
      ELSE IF d.r THEN made(d.h)
      ELSE [h |-> cJSON_Delete(d.h, n.r), r |-> NULL]

\* cJSON_CreateStringReference, ObjectReference, ArrayReference.
CreateReference(h, type, value, child) ==
  LET n == cJSON_New_Item(h)
  IN  IF n.r = NULL THEN n
      ELSE [h |-> [n.h EXCEPT !.at[n.r] = [Blank EXCEPT !.type = type, !.ref = TRUE,
                                                        !.value = value, !.child = child]],
            r |-> n.r]

\* A text that fits is copied in place.
cJSON_SetValuestring(h, item, text) ==
  LET i == h.at[item]
      d == IF Len(text) <= Len(i.value) THEN [h |-> h, r |-> TRUE] ELSE cJSON_strdup(h)
      freed == IF Len(text) <= Len(i.value) THEN 0 ELSE 1
  IN  IF i.type # "string" \/ i.ref \/ ~d.r THEN [h |-> h, r |-> FALSE]
      ELSE [h |-> [d.h EXCEPT !.at[item].value = text, !.strings = @ - freed], r |-> TRUE]

-----------------------------------------------------------------------------
(* Looking up.                                                             *)

Fold(key) == [i \in DOMAIN key |-> IF key[i] = "A" THEN "a" ELSE key[i]]

\* The first item with the name; one without a name ends the exact search.
get_object_item(h, object, name, case_sensitive) ==
  LET s == Items(h, object)
      key(i) == h.at[s[i]].key
      stops == {i \in DOMAIN s :
                  IF case_sensitive THEN key(i) \in {NoString, name} ELSE Fold(key(i)) = Fold(name)}
  IN  IF stops = {} THEN NULL ELSE IF key(Min(stops)) = NoString THEN NULL ELSE s[Min(stops)]

-----------------------------------------------------------------------------
(* Adding.                                                                 *)

\* Mutant of add_item_to_object: the old name is freed first.
add_item_to_object_FreesFirst(h, object, name, item, constant_key) ==
  LET unnamed == [h EXCEPT !.strings = @ - (IF OwnsKey(h.at[item]) THEN 1 ELSE 0), !.at[item].key = NoString]
      d == IF constant_key THEN [h |-> unnamed, r |-> TRUE] ELSE cJSON_strdup(unnamed)
  IN  IF NULL \in {object, item} \/ object = item THEN [h |-> h, r |-> FALSE]
      ELSE IF ~d.r THEN d
      ELSE add_item_to_array([d.h EXCEPT !.at[item].key = name, !.at[item].const = constant_key], object, item)

add_item_to_object(h, object, name, item, constant_key) ==
  LET d == IF constant_key THEN [h |-> h, r |-> TRUE] ELSE cJSON_strdup(h)
  IN  IF NULL \in {object, item} \/ object = item \/ ~d.r THEN [h |-> h, r |-> FALSE]
      ELSE add_item_to_array([d.h EXCEPT !.strings = @ - (IF OwnsKey(h.at[item]) THEN 1 ELSE 0),
                                         !.at[item].key = name, !.at[item].const = constant_key],
                             object, item)

\* A reference whose name cannot be copied is neither added nor freed.
cJSON_AddItemReferenceToObject(h, object, name, item) ==
  LET n == create_reference(h, item) IN add_item_to_object(n.h, object, name, n.r, FALSE)

\* cJSON_AddNullToObject ... cJSON_AddArrayToObject.
AddNewToObject(h, object, name, type, value) ==
  LET n == Create(h, type, value)
      a == add_item_to_object(n.h, object, name, n.r, FALSE)
  IN  IF a.r THEN [h |-> a.h, r |-> n.r] ELSE [h |-> cJSON_Delete(a.h, n.r), r |-> NULL]

-----------------------------------------------------------------------------
(* Detaching, inserting, replacing.                                        *)

\* cJSON_DeleteItemFromArray, FromObject: without a result.
DeleteDetached(d) == [h |-> cJSON_Delete(d.h, d.r), r |-> d.r]

cJSON_ReplaceItemViaPointer(h, parent, item, replacement) ==
  IF NULL \in {parent, item, replacement} THEN [h |-> h, r |-> FALSE]
  ELSE IF replacement = item THEN [h |-> h, r |-> TRUE]
  ELSE [h |-> cJSON_Delete(PutInPlace(h, parent, item, replacement), item), r |-> TRUE]

\* The replacement has lost its name before the new one is there.
replace_item_in_object(h, object, name, replacement, case_sensitive) ==
  LET unnamed == [h EXCEPT !.strings = @ - (IF OwnsKey(h.at[replacement]) THEN 1 ELSE 0),
                           !.at[replacement].key = NoString]
      d == cJSON_strdup(unnamed)
      named == [d.h EXCEPT !.at[replacement].key = name, !.at[replacement].const = FALSE]
  IN  IF ~d.r THEN d
      ELSE cJSON_ReplaceItemViaPointer(named, object, get_object_item(named, object, name, case_sensitive),
                                       replacement)

=============================================================================
