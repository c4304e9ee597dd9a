--------------------------------- MODULE MCJson ---------------------------------
(* cJSON for TLC.  One program cannot do everything at once, so `part' says *)
(* what it is about: lists of up to MaxList items, objects with names that  *)
(* differ in case, texts, printing, or the lists of lists of CJsonLists.    *)
EXTENDS CJsonApi, CJsonLists

CONSTANTS MaxList, MaxMembers, MaxText, MaxLinks

VARIABLE part

Unit == {"{", "}", "[", "]", ",", ":", "\"", "\\", " ", "NUL", "1", "-", "true", "a", "u", "u+", "BOM"}

\* Documents, and the texts one edit away from them.
Document ==
  {<<"[", "1", ",", "\"", "a", "\"", " ", "]", "NUL">>,
   <<" ", "{", "\"", "a", "\"", ":", "-", "1", "}", "NUL">>,
   <<"BOM", "\"", "\\", "\"", "\\", "u+", "\\", "u-", "\"">>,
   <<"[", "[", " ", "]", ",", "{", "}", "]">>}

Edits(t) ==
  {t} \cup {RemoveAt(t, i) : i \in DOMAIN t} \cup {SubSeq(t, 1, i) : i \in 0 .. Len(t)}
      \cup {[t EXCEPT ![i] = u] : i \in DOMAIN t, u \in Unit}
      \cup {InsertAt(t, i, u) : i \in DOMAIN t, u \in Unit \cup {"u0", "u-", "null"}}

Short == UNION {[1 .. n -> Unit] : n \in 0 .. MaxText}

Text == Short \cup UNION {Edits(t) : t \in Document}

\* Texts of trees to print.
Printable ==
  {<<"[", "1", ",", "[", "]", ",", "true", "]">>,
   <<"{", "\"", "a", "\"", ":", "[", "1", "]", ",", "\"", "\\", "\"", "\"", ":", "{", "}", "}">>,
   <<"{", "\"", "a", "\"", ":", "{", "\"", "\\", "u", "\"", ":", "false", "}", "}">>,
   <<"\"", "\\", "\\", "\\", "n", "a", "\\", "u+", "\\", "u-", "\"">>,
   <<"-", "1">>, <<"null">>, <<"\"", "\"">>, <<"{", "}">>}

a == <<"a">>
Names == {a, <<"A">>}
Plenty == 20

Init ==
  /\ part \in {"lists", "objects", "members", "texts", "prints", "links"}
  /\ JsonInit /\ ListsInit

Size == Cardinality(Live(heap))

\* No call depends on the last one, so states are told apart without it (VIEW).
Memories == <<part, heap, held, listVars>>

Calling(parts) == part \in parts /\ UNCHANGED <<part, listVars>>

ListCalls ==
  /\ Calling({"lists"})
  /\ \/ Size < MaxList /\ Creates(Plenty, IF Size = 0 THEN {"array"} ELSE {"true"}, {})
     \/ Size < 2 /\ CreatesArray(Plenty, <<<<"1">>, <<"1">>, <<"1">>>>)
     \/ Size < 3 /\ \E f \in {0, Plenty} : ShowsInArray(f)
     \/ EditsArray(Plenty) /\ Cardinality(Live(heap')) <= MaxList
     \/ Deletes

Scarce == {0, 1, 2, Plenty}

\* Objects with constant names, or with texts among their members.
ObjectCalls ==
  /\ Calling({"objects", "members"})
  /\ \/ \E f \in Scarce : Copies(f) \/ CreatesArray(f, <<<<"1">>, <<"1">>>>)
     \/ Deletes \/ (Compares /\ op'.a <= op'.b)
     \/ \E f \in 0 .. 2 :  \* none of these allocates more
       \/ Creates(f, {"object"}, IF part = "members" THEN {<<>>} ELSE {})
       \/ EditsObject(f, Names, IF part = "objects" THEN {a} ELSE {}, {"object"})
       \/ SetsText(f, {a})
  /\ Cardinality(Live(heap')) <= MaxMembers

TextCalls ==
  /\ Calling({"texts"})
  /\ \/ held = {} /\ \E t \in Text, r \in BOOLEAN : Parses(Plenty, t, r)
     \/ held = {} /\ \E t \in Document, f \in 0 .. 6 : Parses(f, t, FALSE)
     \/ Deletes

PrintCalls ==
  /\ Calling({"prints"})
  /\ \/ held = {} /\ \E t \in Printable : Parses(Plenty, t, FALSE)
     \/ held = {} /\ Gives("create", Create(H(Plenty), "number", <<"inf">>))
     \/ held = {} /\ Gives("create", Create(H(Plenty), "raw", a))
     \/ \E f \in Scarce : Prints(f, -1 .. 24)
     \/ Deletes

LinkCalls ==
  /\ part = "links" /\ UNCHANGED <<part, jsonVars>>
  /\ ListsNext /\ Cardinality(DOMAIN memory') <= MaxLinks

Next == ListCalls \/ ObjectCalls \/ TextCalls \/ PrintCalls \/ LinkCalls

Spec == Init /\ [][Next]_<<part, jsonVars, listVars>>
=============================================================================
