------------------------------ MODULE CJsonCopy ------------------------------
(***************************************************************************)
(* The functions of cJSON.c that walk a whole tree and return a new one, or *)
(* whether two are equal.                                                  *)
(***************************************************************************)
EXTENDS CJson

\* The loop of cJSON_CreateIntArray and its like, p being the last item so far.
RECURSIVE Filled(_, _, _, _, _)
Filled(h, a, p, type, values) ==
  IF values = <<>>
  THEN [h |-> IF p = NULL THEN h ELSE [h EXCEPT !.at[h.at[a].child].prev = p], r |-> a]
  ELSE LET n == Create(h, type, Head(values))
           linked == IF p = NULL THEN [n.h EXCEPT !.at[a].child = n.r] ELSE suffix_object(n.h, p, n.r)
       IN  IF n.r = NULL THEN [h |-> cJSON_Delete(n.h, a), r |-> NULL]
           ELSE Filled(linked, a, n.r, type, Tail(values))

CreateArrayOf(h, type, values) ==
  LET a == Create(h, "array", NoString)
  IN  IF a.r = NULL THEN a ELSE Filled(a.h, a.r, NULL, type, values)

RECURSIVE cJSON_Duplicate(_, _, _)

\* The children from s on copied below newitem, `last' being the copy before.
RECURSIVE DuplicateChildren(_, _, _, _)
DuplicateChildren(h, newitem, last, s) ==
  IF s = <<>>
  THEN [h |-> IF last = NULL THEN h ELSE [h EXCEPT !.at[h.at[newitem].child].prev = last], r |-> newitem]
  ELSE LET n == cJSON_Duplicate(h, Head(s), TRUE)
           linked == IF last = NULL THEN [n.h EXCEPT !.at[newitem].child = n.r]
                     ELSE suffix_object(n.h, last, n.r)
       IN  IF n.r = NULL THEN [h |-> cJSON_Delete(n.h, newitem), r |-> NULL]
           ELSE DuplicateChildren(linked, newitem, n.r, Tail(s))

cJSON_Duplicate(h, item, recurse) ==
  LET i == h.at[item]
      n == cJSON_New_Item(h)
      bare == [n.h EXCEPT !.at[n.r].type = i.type, !.at[n.r].const = i.const]
      has_text == i.type \in {"string", "raw"} /\ i.value # NoString
      v == IF has_text THEN cJSON_strdup(bare) ELSE [h |-> bare, r |-> TRUE]
      valued == [v.h EXCEPT !.at[n.r].value = i.value]
      k == IF OwnsKey(i) THEN cJSON_strdup(valued) ELSE [h |-> valued, r |-> TRUE]
      named == [k.h EXCEPT !.at[n.r].key = i.key]
  IN  IF item = NULL THEN [h |-> h, r |-> NULL]
      ELSE IF n.r = NULL THEN n
      ELSE IF ~v.r THEN [h |-> cJSON_Delete(v.h, n.r), r |-> NULL]
      ELSE IF ~k.r THEN [h |-> cJSON_Delete(k.h, n.r), r |-> NULL]
      ELSE IF recurse THEN DuplicateChildren(named, n.r, NULL, Items(h, item))
      ELSE [h |-> named, r |-> n.r]

\* Mutant of cJSON_Compare: the second pass over the objects is left out.
RECURSIVE cJSON_Compare_OneWay(_, _, _, _)
cJSON_Compare_OneWay(h, a, b, case_sensitive) ==
  IF NULL \in {a, b} THEN FALSE
  ELSE LET x == Items(h, a)
           y == Items(h, b)
       IN  /\ h.at[a].type = h.at[b].type
           /\ h.at[a].value = h.at[b].value
           /\ h.at[a].type = "array" =>
                /\ Len(x) = Len(y)
                /\ \A i \in DOMAIN x : cJSON_Compare_OneWay(h, x[i], y[i], case_sensitive)
           /\ h.at[a].type = "object" =>
                \A i \in DOMAIN x : cJSON_Compare_OneWay(h, x[i],
                   get_object_item(h, b, h.at[x[i]].key, case_sensitive), case_sensitive)

RECURSIVE cJSON_Compare(_, _, _, _)
cJSON_Compare(h, a, b, case_sensitive) ==
  LET x == Items(h, a)
      y == Items(h, b)
      found(c, i) == get_object_item(h, c, h.at[i].key, case_sensitive)
  IN  /\ NULL \notin {a, b}
      /\ h.at[a].type = h.at[b].type
      /\ h.at[a].type # "invalid"
      /\ \/ a = b
         \/ CASE h.at[a].type \in Scalar -> TRUE
              [] h.at[a].type = "number" -> h.at[a].value = h.at[b].value
              [] h.at[a].type \in {"string", "raw"} ->
                   NoString \notin {h.at[a].value, h.at[b].value} /\ h.at[a].value = h.at[b].value
              [] h.at[a].type = "array" ->
                   /\ Len(x) = Len(y)
                   /\ \A i \in DOMAIN x : cJSON_Compare(h, x[i], y[i], case_sensitive)
              [] h.at[a].type = "object" ->
                   /\ \A i \in DOMAIN x : cJSON_Compare(h, x[i], found(b, x[i]), case_sensitive)
                   /\ \A i \in DOMAIN y : cJSON_Compare(h, y[i], found(a, y[i]), case_sensitive)

=============================================================================
