------------------------------- MODULE CJsonText -------------------------------
(***************************************************************************)
(* The parser and the printer of cJSON.c, over the memory of CJson.  A     *)
(* text is a sequence of units: one character each, except the words true, *)
(* false and null, the byte order mark, and the u of an escape with its    *)
(* four hex digits: "u" is a control character, "u+" and "u-" the halves   *)
(* of a surrogate pair, "u0" digits that are zero or no hex.  The digit is *)
(* "1", the blank " ", "NUL" the terminator.  Offsets count units from 0.  *)
(***************************************************************************)
EXTENDS CJson, CJsonBuffer

CONSTANTS
  NestingLimit,   \* CJSON_NESTING_LIMIT
  NumberRoom,     \* characters of a number that are read: 63
  DefaultSize     \* default_buffer_size

ASSUME CJsonTextAssumption == {NestingLimit, NumberRoom, DefaultSize} \subseteq Nat

White == {" ", "NUL"}      \* characters up to 32
NumberChar == {"1", "-"}
Closing(kind) == IF kind = "array" THEN "]" ELSE "}"

Char(t, offset) == IF offset < Len(t) THEN t[offset + 1] ELSE "beyond"

-----------------------------------------------------------------------------
(* Parsing.  A parse_buffer is b = [h, at (offset), depth]; a function      *)
(* returns [ok, b].                                                        *)

Parsed(b) == [ok |-> TRUE, b |-> b]
Refused(b) == [ok |-> FALSE, b |-> b]
Then(p, F(_)) == IF p.ok THEN F(p.b) ELSE p


\* Steps back when there is nothing else.
buffer_skip_whitespace(t, at) ==
  LET stops == {i \in at .. Len(t) - 1 : t[i + 1] \notin White}
  IN  IF at >= Len(t) THEN at ELSE IF stops = {} THEN Len(t) - 1 ELSE Min(stops)

\* The mark counts only in front of two bytes or more.
skip_utf8_bom(t) == IF Char(t, 0) = "BOM" /\ Width(t) > 4 THEN 1 ELSE 0

\* The longest number strtod finds in what parse_number copies.
parse_number(t, b, item) ==
  LET sign   == IF Char(t, b.at) = "-" THEN 1 ELSE 0
      digits == {n \in 0 .. NumberRoom - sign : \A i \in 1 .. n : Char(t, b.at + sign + i - 1) = "1"}
      length == sign + Max(digits)
  IN  IF Max(digits) = 0 THEN Refused(b)
      ELSE Parsed([b EXCEPT !.at = @ + length, !.h.at[item].type = "number",
                            !.h.at[item].value = SubSeq(t, b.at + 1, b.at + length)])

\* What an escape stands for, and its units; none for one that is no escape.
utf16_literal_to_utf8(t, i, end) ==
  CASE Char(t, i + 1) = "u0" -> <<"NUL", 2>>
    [] Char(t, i + 1) = "u"  -> <<"ctl", 2>>
    [] Char(t, i + 1) = "u+" /\ i + 3 < end /\ Char(t, i + 2) = "\\" /\ Char(t, i + 3) = "u-" -> <<"astral", 4>>
    [] OTHER -> <<"", 0>>

Escape(t, i, end) ==
  CASE Char(t, i + 1) \in {"\"", "\\"} -> <<Char(t, i + 1), 2>>
    [] Char(t, i + 1) = "n" -> <<"nl", 2>>
    [] OTHER -> utf16_literal_to_utf8(t, i, end)

\* Where the string with its first character at i ends, Len(t) if it does not.
RECURSIVE EndOfString(_, _)
EndOfString(t, i) ==
  IF i >= Len(t) THEN Len(t)
  ELSE CASE Char(t, i) = "\"" -> i
         [] Char(t, i) = "\\" -> EndOfString(t, i + 2)
         [] OTHER -> EndOfString(t, i + 1)

\* [ok, at (input_pointer), out] of the characters from i to end.
RECURSIVE Unescaped(_, _, _, _)
Unescaped(t, i, end, out) ==
  LET e == Escape(t, i, end)
  IN  CASE i >= end -> [ok |-> TRUE, at |-> i, out |-> out]
        [] i < end /\ Char(t, i) # "\\" -> Unescaped(t, i + 1, end, Append(out, Char(t, i)))
        [] OTHER -> IF e[2] = 0 THEN [ok |-> FALSE, at |-> i, out |-> out]
                    ELSE Unescaped(t, i + e[2], end, Append(out, e[1]))

\* What a C string holds: the characters before the first NUL.
CString(out) ==
  LET nul == {i \in DOMAIN out : out[i] = "NUL"}
  IN  IF nul = {} THEN out ELSE SubSeq(out, 1, Min(nul) - 1)

parse_string(t, b, item) ==
  LET end == EndOfString(t, b.at + 1)
      d   == cJSON_strdup(b.h)
      u   == Unescaped(t, b.at + 1, end, <<>>)
  IN  IF Char(t, b.at) # "\"" \/ end >= Len(t) \/ ~d.r THEN Refused([b EXCEPT !.at = @ + 1])
      ELSE IF ~u.ok THEN Refused([b EXCEPT !.at = u.at])
      ELSE Parsed([b EXCEPT !.at = end + 1, !.h = [d.h EXCEPT !.at[item].type = "string",
                                                              !.at[item].value = CString(u.out)]])

Colon(t, b) ==
  IF Char(t, b.at) = ":" THEN Parsed([b EXCEPT !.at = buffer_skip_whitespace(t, @ + 1)]) ELSE Refused(b)

\* A name, and the colon: the text of the item becomes its name.
Name(t, b, item) ==
  Then(parse_string(t, b, item),
       LAMBDA c : Colon(t, [c EXCEPT !.at = buffer_skip_whitespace(t, @),
                                     !.h.at[item].key = c.h.at[item].value, !.h.at[item].value = NoString]))

\* Mutant of Abandon: the items parsed so far are forgotten.
Abandon_Leaks(b, head) == Refused(b)

Abandon(b, head) == Refused([b EXCEPT !.h = cJSON_Delete(@, head)])

\* The end of a container: last is its tail, NULL if it is empty.
Closed(b, item, kind, head, last) ==
  LET tailed == IF head = NULL THEN b ELSE [b EXCEPT !.h.at[head].prev = last]
  IN  Parsed([tailed EXCEPT !.h.at[item].type = kind, !.h.at[item].child = head,
                            !.at = @ + 1, !.depth = @ - 1])

RECURSIVE parse_value(_, _, _), Elements(_, _, _, _, _, _)

\* What follows the value of the item n, the last of the list from head on.
Continue(t, value, item, kind, head, n) ==
  LET b == [value.b EXCEPT !.at = buffer_skip_whitespace(t, @)]
  IN  IF ~value.ok THEN Abandon(value.b, head)
      ELSE IF Char(t, b.at) = "," THEN Elements(t, b, item, kind, head, n)
      ELSE IF Char(t, b.at) = Closing(kind) THEN Closed(b, item, kind, head, n)
      ELSE Abandon(b, head)

\* A round of the loop of parse_array and parse_object; b.at is one before
\* the next item.
Elements(t, b, item, kind, head, current) ==
  LET n      == cJSON_New_Item(b.h)
      first  == IF head = NULL THEN n.r ELSE head
      linked == IF head = NULL THEN n.h ELSE suffix_object(n.h, current, n.r)
      b1     == [b EXCEPT !.h = linked, !.at = buffer_skip_whitespace(t, @ + 1)]
      name   == IF kind = "array" THEN Parsed(b1) ELSE Name(t, b1, n.r)
  IN  IF n.r = NULL THEN Abandon(b, head)
      ELSE Continue(t, Then(name, LAMBDA c : parse_value(t, c, n.r)), item, kind, first, n.r)

Container(t, b, item, kind) ==
  LET inside == [b EXCEPT !.depth = @ + 1, !.at = buffer_skip_whitespace(t, @ + 1)]
  IN  IF b.depth >= NestingLimit THEN Refused(b)
      ELSE IF Char(t, inside.at) = Closing(kind) THEN Closed(inside, item, kind, NULL, NULL)
      ELSE IF inside.at >= Len(t) THEN Refused([inside EXCEPT !.at = @ - 1])
      ELSE Elements(t, [inside EXCEPT !.at = @ - 1], item, kind, NULL, NULL)

parse_array(t, b, item)  == Container(t, b, item, "array")
parse_object(t, b, item) == Container(t, b, item, "object")

parse_value(t, b, item) ==
  LET c == Char(t, b.at)
  IN  CASE c \in Scalar -> Parsed([b EXCEPT !.at = @ + 1, !.h.at[item].type = c])
        [] c = "\""     -> parse_string(t, b, item)
        [] c \in NumberChar -> parse_number(t, b, item)
        [] c = "["      -> parse_array(t, b, item)
        [] c = "{"      -> parse_object(t, b, item)
        [] OTHER        -> Refused(b)

\* What is returned for the item n when p came of it.
Returned(t, n, p, require_null_terminated) ==
  LET end == IF p.ok /\ require_null_terminated THEN buffer_skip_whitespace(t, p.b.at) ELSE p.b.at
  IN  IF p.ok /\ (require_null_terminated => Char(t, end) = "NUL")
      THEN [h |-> p.b.h, r |-> n, end |-> end]
      ELSE [h |-> cJSON_Delete(p.b.h, n), r |-> NULL, end |-> IF end < Len(t) THEN end ELSE Len(t) - 1]

\* Returns [h, r, end]: end is return_parse_end, the place of the error if any.
cJSON_ParseWithLengthOpts(h, t, require_null_terminated) ==
  LET n == cJSON_New_Item(h)
      b == [h |-> n.h, at |-> buffer_skip_whitespace(t, skip_utf8_bom(t)), depth |-> 0]
  IN  IF t = <<>> \/ n.r = NULL THEN [h |-> h, r |-> NULL, end |-> 0]
      ELSE Returned(t, n.r, parse_value(t, b, n.r), require_null_terminated)

-----------------------------------------------------------------------------
(* Printing.  What is printed is a sequence of pieces for Write.           *)

print_number(value) ==
  LET digits == IF value = <<"inf">> THEN <<"null">> ELSE value IN Piece(Width(digits) + 1, digits)

Escaped(s) ==
  FlattenSeq([i \in DOMAIN s |-> CASE s[i] \in {"\"", "\\"} -> <<"\\", s[i]>>
                                   [] s[i] = "nl"  -> <<"\\", "n">>
                                   [] s[i] = "ctl" -> <<"\\", "u">>
                                   [] OTHER        -> <<s[i]>>])

\* Mutant of print_string_ptr: nothing is escaped.
print_string_ptr_Raw(s) == Piece(Width(s) + 3, <<"\"">> \o s \o <<"\"">>)

print_string_ptr(s) ==
  LET text == IF s = NoString THEN <<>> ELSE Escaped(s)
  IN  Piece(Width(text) + 3, <<"\"">> \o text \o <<"\"">>)

Tabs(n) == [i \in 1 .. n |-> " "]
If(condition, units) == IF condition THEN units ELSE <<>>

RECURSIVE print_value(_, _, _, _)

print_array(h, item, depth, format) ==
  LET s == Items(h, item)
      comma == <<",">> \o If(format, <<" ">>)
      element(i) == print_value(h, s[i], depth + 1, format) \o If(i < Len(s), Piece(Len(comma) + 1, comma))
  IN  Piece(1, <<"[">>) \o FlattenSeq([i \in DOMAIN s |-> element(i)]) \o Piece(2, <<"]">>)

print_object(h, item, depth, format) ==
  LET s == Items(h, item)
      line  == If(format, <<" ">>)
      open  == <<"{">> \o line
      colon == <<":">> \o line
      end(i) == If(i < Len(s), <<",">>) \o line
      member(i) == If(format, Piece(depth + 1, Tabs(depth + 1))) \o print_string_ptr(h.at[s[i]].key)
                   \o Piece(Len(colon), colon) \o print_value(h, s[i], depth + 1, format)
                   \o Piece(Len(end(i)) + 1, end(i))
  IN  Piece(Len(open) + 1, open) \o FlattenSeq([i \in DOMAIN s |-> member(i)])
      \o Piece(IF format THEN depth + 2 ELSE 2, If(format, Tabs(depth)) \o <<"}">>)

print_value(h, item, depth, format) ==
  LET i == h.at[item]
  IN  CASE i.type \in Scalar -> Piece(Width(<<i.type>>) + 1, <<i.type>>)
        [] i.type = "number" -> print_number(i.value)
        [] i.type = "string" -> print_string_ptr(i.value)
        [] i.type = "array"  -> print_array(h, item, depth, format)
        [] i.type = "object" -> print_object(h, item, depth, format)
        [] i.type = "raw"    -> IF i.value = NoString THEN Unprintable ELSE Piece(Width(i.value) + 1, i.value)
        [] OTHER             -> Unprintable

\* print_value into the buffer p.
Rendered(p, item, format) == FoldLeft(Write, p, print_value(p.h, item, 0, format))

\* Each printer returns [h, r, text, fits]; the caller frees the text it got.
Printed(p) == [h |-> p.h, r |-> TRUE, text |-> p.text, fits |-> p.fits]
NotPrinted(h, fits) == [h |-> h, r |-> FALSE, text |-> <<>>, fits |-> fits]

Free(h, blocks) == [h EXCEPT !.strings = @ - blocks]

\* The text of p if `good', its buffer freed if not.
Delivered(p, good) ==
  IF good THEN Printed(p) ELSE NotPrinted(Free(p.h, IF p.buffer THEN 1 ELSE 0), p.fits)

\* The text is moved to a block of its size at the end.
Moved(p) == Delivered(p, p.ok /\ p.h.fuel > 0)

\* cJSON_Print and cJSON_PrintUnformatted.
print(h, item, format) ==
  LET d == cJSON_strdup(h)
  IN  IF d.r THEN Moved(Rendered(Printbuffer(d.h, DefaultSize, FALSE), item, format)) ELSE NotPrinted(h, TRUE)

Kept(p) == Delivered(p, p.ok)

cJSON_PrintBuffered(h, item, prebuffer, fmt) ==
  LET d == cJSON_strdup(h)
  IN  IF prebuffer < 0 \/ ~d.r THEN NotPrinted(h, TRUE)
      ELSE Kept(Rendered(Printbuffer(d.h, prebuffer, FALSE), item, fmt))

\* The buffer is the caller's.
Preallocated(p) == IF p.ok THEN Printed(p) ELSE NotPrinted(p.h, p.fits)

cJSON_PrintPreallocated(h, item, length, format) ==
  IF length < 0 THEN NotPrinted(h, TRUE) ELSE Preallocated(Rendered(Printbuffer(h, length, TRUE), item, format))

=============================================================================
