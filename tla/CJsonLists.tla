------------------------------ MODULE CJsonLists ------------------------------
(***************************************************************************)
(* A program that keeps lists of lists in cJSON.  `memory' is what the     *)
(* pointers of cJSON.c say, `lists' what the calls promise: each call is   *)
(* made on both, and neither looks at the other.  Names and texts are left *)
(* to CJsonApi.                                                            *)
(***************************************************************************)
EXTENDS CJsonLinks, SequencesExt

VARIABLES
  memory,   \* the items allocated, by address
  lists     \* the children each of them should have

listVars == <<memory, lists>>

Memory(fuel) == [at |-> memory, strings |-> 0, fuel |-> fuel]
Fuel == {0, 1}    \* the allocation of a call fails, or not

\* What is n or below n in the lists ls, in any number of steps.
Below(ls, n) ==
  LET holds  == UNION {{c} \X ToSet(ls[c]) : c \in DOMAIN ls}
      closed == {S \in SUBSET DOMAIN ls : n \in S /\ \A e \in holds : e[1] \in S => e[2] \in S}
  IN  {m \in DOMAIN ls : \A S \in closed : m \in S}

Root(ls, n) == \A c \in DOMAIN ls : n \notin ToSet(ls[c])

\* cJSON.h: an item is added once, and not below itself; what a reference shows
\* belongs to another list.
MayAdd(n, array) ==
  /\ n \in DOMAIN lists /\ array \in DOMAIN lists
  /\ Root(lists, n) /\ ~memory[array].ref /\ array \notin Below(lists, n)

Returns(at, expected) == memory' = at /\ lists' = expected

\* The lists with a new item n, at the end of array if there is one.
With(n, array) ==
  [m \in DOMAIN lists \cup {n} |->
     IF m = n THEN <<>> ELSE IF m = array THEN Append(lists[m], n) ELSE lists[m]]

\* The lists without n and all below it.
Without(ls, n) == [m \in DOMAIN ls \ Below(ls, n) |-> ls[m]]

ListsInit == memory = <<>> /\ lists = <<>>

NewItem ==
  \E f \in Fuel :
    LET n == cJSON_New_Item(Memory(f))
    IN  Returns(n.h.at, IF n.r = NULL THEN lists ELSE With(n.r, NULL))

AddReference ==
  \E f \in Fuel, array, item \in DOMAIN lists :
    LET n == create_reference(Memory(f), item)
    IN  /\ ~memory[array].ref
        /\ Returns(cJSON_AddItemReferenceToArray(Memory(f), array, item).h.at,
                   IF n.r = NULL THEN lists ELSE With(n.r, array))

AddItem ==
  \E array, item \in DOMAIN lists :
    /\ MayAdd(item, array)
    /\ Returns(add_item_to_array(Memory(0), array, item).h.at,
               [lists EXCEPT ![array] = Append(@, item)])

\* An index below 0 and one past the end are tried too.
Places(array) == -1 .. Len(lists[array])

InsertItem ==
  \E array, item \in DOMAIN lists :
    /\ MayAdd(item, array)
    /\ \E which \in Places(array) :
         Returns(cJSON_InsertItemInArray(Memory(0), array, which, item).h.at,
                 IF which < 0 THEN lists ELSE [lists EXCEPT ![array] = InsertAt(@, which + 1, item)])

Found(array, which) == IF which < 0 THEN NULL ELSE get_array_item(Memory(0), array, which)

\* cJSON_DetachItemFromArray
DetachItem ==
  \E array \in DOMAIN lists : \E which \in Places(array) :
    /\ ~memory[array].ref
    /\ Returns(cJSON_DetachItemViaPointer(Memory(0), array, Found(array, which)).h.at,
               IF which + 1 \notin DOMAIN lists[array] THEN lists
               ELSE [lists EXCEPT ![array] = RemoveAt(@, which + 1)])

\* cJSON_ReplaceItemInArray
ReplaceItem ==
  \E array, item \in DOMAIN lists :
    /\ MayAdd(item, array)
    /\ \E which \in Places(array) :
         LET old == Found(array, which)
             put == PutInPlace(Memory(0), array, old, item)
         IN  Returns(IF old = NULL THEN memory ELSE Deleted(put.at, old),
                     IF which + 1 \notin DOMAIN lists[array] THEN lists
                     ELSE Without([lists EXCEPT ![array] = ReplaceAt(@, which + 1, item)],
                                  lists[array][which + 1]))

DeleteItem ==
  \E n \in DOMAIN lists :
    /\ Root(lists, n)
    /\ Returns(Deleted(memory, n), Without(lists, n))

ListsNext ==
  NewItem \/ AddReference \/ AddItem \/ InsertItem \/ DetachItem \/ ReplaceItem \/ DeleteItem

ListsSpec == ListsInit /\ [][ListsNext]_listVars

-----------------------------------------------------------------------------
(* Properties.                                                             *)

\* No item is in two places, and none below itself.
Forest ==
  /\ \A c, d \in DOMAIN lists : \A i \in DOMAIN lists[c], j \in DOMAIN lists[d] :
       lists[c][i] = lists[d][j] => c = d /\ i = j
  /\ \A c \in DOMAIN lists : \A i \in DOMAIN lists[c] :
       lists[c][i] \in DOMAIN lists /\ c \notin Below(lists, lists[c][i])

\* After any calls every list is linked in both directions and holds what the
\* calls put there, in their order; its tail is where the next append looks
\* for it; and an item that is in no list is linked to nothing
\* (cJSON.c:1851-1869, 1928-1992, 2185-2339).
ListsLinked ==
  /\ DOMAIN memory = DOMAIN lists
  /\ Forest
  /\ \A c \in DOMAIN lists : ~memory[c].ref =>
       /\ Linked(memory, c, lists[c])
       /\ Items(Memory(0), c) = lists[c]
  /\ \A n \in DOMAIN lists : Root(lists, n) => memory[n].next = NULL /\ memory[n].prev = NULL

=============================================================================
