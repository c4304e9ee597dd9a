------------------------------- MODULE CJsonApi -------------------------------
(***************************************************************************)
(* The rest of what a program does with cJSON: besides the calls of         *)
(* CJsonTree it copies, compares, parses and prints, from any memory.       *)
(***************************************************************************)
EXTENDS CJsonText, CJsonCopy, CJsonTree

CreatesArray(f, numbers) ==
  Gives("create", CreateArrayOf(H(f), "number", numbers))

Copies(f) ==
  \E n \in Owned(heap, held), recurse \in BOOLEAN :
    LET d == cJSON_Duplicate(H(f), n, recurse)
    IN  Return(d.h, (held \cup {d.r}) \ {NULL},
               [call |-> "duplicate", ok |-> d.r # NULL, list |-> NULL, item |-> n, r |-> d.r, deep |-> recurse])

Compares ==
  \E a, b \in Owned(heap, held), exact \in BOOLEAN :
    Return(H(0), held, [call |-> "compare", ok |-> TRUE, list |-> NULL, a |-> a, b |-> b, exact |-> exact,
                        equal |-> cJSON_Compare(H(0), a, b, exact)])

Parses(f, text, require) ==
  LET p == cJSON_ParseWithLengthOpts(H(f), text, require)
  IN  Return(p.h, (held \cup {p.r}) \ {NULL},
             [call |-> "parse", ok |-> p.r # NULL, list |-> NULL, r |-> p.r, end |-> p.end,
              text |-> text, require |-> require, fuel |-> f])

\* A text that was printed is read and freed.
Prints(f, lengths) ==
  \E n \in held, format \in BOOLEAN :
    LET shown(call, length, p, blocks) ==
          Return(Free(p.h, IF p.r THEN blocks ELSE 0), held,
                 [call |-> call, ok |-> p.r, list |-> NULL, item |-> n, text |-> p.text, fits |-> p.fits,
                  length |-> length, format |-> format])
    IN  \/ shown("print", 0, print(H(f), n, format), 1)
        \/ \E l \in lengths : shown("print", l, cJSON_PrintBuffered(H(f), n, l, format), 1)
        \/ \E l \in lengths : shown("preallocated", l, cJSON_PrintPreallocated(H(f), n, l, format), 0)

RECURSIVE Value(_, _)
Value(h, n) ==
  LET s == Items(h, n)
      named == h.at[n].type = "object"
  IN  [type |-> h.at[n].type, value |-> h.at[n].value,
       items |-> [i \in DOMAIN s |-> <<IF named THEN h.at[s[i]].key ELSE NoString, Value(h, s[i])>>]]

\* The order of an object's members means nothing, nor does case if not exact.
RECURSIVE Meaning(_, _)
Meaning(v, exact) ==
  LET member(m) == <<IF exact THEN m[1] ELSE Fold(m[1]), Meaning(m[2], exact)>>
      named == v.type = "object"
  IN  [type |-> v.type, value |-> v.value,
       list |-> IF named THEN <<>> ELSE [i \in DOMAIN v.items |-> Meaning(v.items[i][2], exact)],
       members |-> IF named THEN {member(v.items[i]) : i \in DOMAIN v.items} ELSE {}]

RECURSIVE NamesUnique(_, _)
NamesUnique(v, exact) ==
  LET name(i) == IF exact THEN v.items[i][1] ELSE Fold(v.items[i][1])
  IN  /\ v.type = "object" => \A i, j \in DOMAIN v.items : name(i) = name(j) => i = j
      /\ \A i \in DOMAIN v.items : NamesUnique(v.items[i][2], exact)

\* A duplicate means what the original means, references resolved, and shares
\* no item with it; two items compare equal when they mean the same
\* (cJSON.c:2706-2787, 2986-3109; cJSON.h: "create a new, identical cJSON item").
CopiesAndCompares ==
  [][/\ op'.call = "duplicate" /\ op'.ok =>
          LET v == Value(heap, op'.item)
          IN  /\ Value(heap', op'.r) = IF op'.deep THEN v ELSE [v EXCEPT !.items = <<>>]
              /\ Tree(heap', op'.r) \cap Live(heap) = {}
              /\ ~\E n \in Tree(heap', op'.r) : heap'.at[n].ref
     /\ op'.call = "compare" =>
          LET a == Value(heap, op'.a)
              b == Value(heap, op'.b)
          IN  NamesUnique(a, op'.exact) /\ NamesUnique(b, op'.exact) =>
                op'.equal = (Meaning(a, op'.exact) = Meaning(b, op'.exact))]_jsonVars

-----------------------------------------------------------------------------
(* The texts: what a text denotes, as a set of <<end, value>>.  The grammar *)
(* is JSON with the three quirks of this parser.                           *)

Skip(t, i) == Min({j \in i .. Len(t) : j = Len(t) \/ Char(t, j) \notin White})

Escapes == {<<<<"\\", "\"">>, "\"">>, <<<<"\\", "\\">>, "\\">>, <<<<"\\", "n">>, "nl">>,
            <<<<"\\", "u">>, "ctl">>, <<<<"\\", "u0">>, "NUL">>, <<<<"\\", "u+", "\\", "u-">>, "astral">>}

RECURSIVE Characters(_)
Characters(s) ==
  IF s = <<>> THEN {<<>>}
  ELSE UNION {{<<e[2]>> \o rest : rest \in Characters(SubSeq(s, Len(e[1]) + 1, Len(s)))} :
                e \in {x \in Escapes : IsPrefix(x[1], s)}
                      \cup (IF Head(s) \in {"\"", "\\"} THEN {} ELSE {<<<<Head(s)>>, Head(s)>>})}

Quoted(t, i) ==
  IF Char(t, i) # "\"" THEN {}
  ELSE UNION {{<<j + 1, CString(c)>> : c \in Characters(SubSeq(t, i + 2, j))} :
                j \in {k \in i + 1 .. Len(t) - 1 : Char(t, k) = "\""}}

Leaf(type, value) == [type |-> type, value |-> value, items |-> <<>>]

Digits(t, i) ==
  LET sign == IF Char(t, i) = "-" THEN 1 ELSE 0
  IN  {j \in i + sign + 1 .. Len(t) :
         /\ \A k \in i + sign .. j - 1 : Char(t, k) = "1"
         /\ j - i = NumberRoom \/ (j - i < NumberRoom /\ Char(t, j) # "1")}

RECURSIVE Denoted(_, _, _)
Member(t, i, kind, depth) ==
  IF kind = "array" THEN {<<v[1], <<NoString, v[2]>>>> : v \in Denoted(t, i, depth)}
  ELSE UNION {{<<v[1], <<k[2], v[2]>>>> : v \in Denoted(t, Skip(t, Skip(t, k[1]) + 1), depth)} :
                k \in {q \in Quoted(t, i) : Char(t, Skip(t, q[1])) = ":"}}

RECURSIVE Members(_, _, _, _)
Members(t, i, kind, depth) ==
  LET more(e) == CASE Char(t, Skip(t, e[1])) = Closing(kind) -> {<<Skip(t, e[1]) + 1, <<>>>>}
                   [] Char(t, Skip(t, e[1])) = "," -> Members(t, Skip(t, e[1]) + 1, kind, depth)
                   [] OTHER -> {}
  IN  UNION {{<<m[1], <<e[2]>> \o m[2]>> : m \in more(e)} : e \in Member(t, Skip(t, i), kind, depth)}

Denoted(t, i, depth) ==
  LET kind == IF Char(t, i) = "[" THEN "array" ELSE "object"
      empty == IF Char(t, Skip(t, i + 1)) = Closing(kind) THEN {<<Skip(t, i + 1) + 1, <<>>>>} ELSE {}
  IN  CASE Char(t, i) \in Scalar -> {<<i + 1, Leaf(Char(t, i), NoString)>>}
        [] Char(t, i) = "\""     -> {<<q[1], Leaf("string", q[2])>> : q \in Quoted(t, i)}
        [] Char(t, i) \in NumberChar -> {<<j, Leaf("number", SubSeq(t, i + 1, j))>> : j \in Digits(t, i)}
        [] Char(t, i) \in {"[", "{"} /\ depth > 0 ->
             {<<m[1], [type |-> kind, value |-> NoString, items |-> m[2]]>> :
                m \in empty \cup Members(t, i + 1, kind, depth - 1)}
        [] OTHER -> {}

\* Items and allocations a value takes.
RECURSIVE Needs(_)
Needs(v) ==
  LET sub == [i \in DOMAIN v.items |-> Needs(v.items[i][2])]
      names == IF v.type = "object" THEN Len(v.items) ELSE 0
      texts == IF v.type = "string" THEN 1 ELSE 0
  IN  <<1 + FoldSeq(LAMBDA s, n : s[1] + n, 0, sub),
        1 + names + texts + FoldSeq(LAMBDA s, n : s[2] + n, 0, sub)>>


\* A tree that is printed and parsed again is the same tree, formatted or not,
\* whatever its texts hold and however the buffer grew (cJSON.c:545-612,
\* 902-1021, 1187-1438, 1539-1825).
RoundTrips ==
  [][op'.call \in {"print", "preallocated"} /\ op'.ok
     /\ (\A n \in Live(heap) : heap.at[n].type = "raw" \/ heap.at[n].value = <<"inf">> =>
           ~Reaches(heap, op'.item, n)) =>
       Denoted(op'.text, 0, MaxItems) = {<<Len(op'.text), Value(heap, op'.item)>>}]_jsonVars

\* No byte is written outside the buffer, however long it was to begin with and
\* whenever it cannot grow, since every piece asks for what it writes; and a
\* buffer with five bytes more than the text and its NUL is long enough
\* (cJSON.c:439-522, 1292-1309; cJSON.h: "to be safe allocate 5 bytes more than
\* you actually need").
PrintFits ==
  [][op'.call \in {"print", "preallocated"} =>
       /\ op'.fits
       /\ \A piece \in ToSet(print_value(H(0), op'.item, 0, op'.format)) :
            <<piece>> = Unprintable \/ Asks(piece)
       /\ op'.call = "preallocated" /\ ~op'.ok =>
            op'.length < 6 + Width(cJSON_PrintPreallocated(H(0), op'.item, 9 * INT_MAX, op'.format).text)]_jsonVars

=============================================================================
