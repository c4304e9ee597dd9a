----------------------------- MODULE CJsonBuffer -----------------------------
(***************************************************************************)
(* The buffer cJSON.c prints into.  A printbuffer p is [h (the memory, as  *)
(* in CJson), text (what it holds), offset, length, noalloc, buffer (FALSE *)
(* when the pointer is NULL), ok (no call failed so far), fits (no write   *)
(* ended outside)].  A piece is the room that is asked for and the units   *)
(* that are written there.                                                 *)
(***************************************************************************)
EXTENDS Integers, Sequences, SequencesExt

CONSTANT INT_MAX

ASSUME CJsonBufferAssumption == INT_MAX \in Nat

\* Bytes of a unit.
Width(text) ==
  LET w(u) == CASE u \in {"true", "null", "astral"} -> 4
                [] u = "BOM" -> 3
                [] u \in {"false", "u", "u+", "u-", "u0"} -> 5
                [] OTHER -> 1
  IN  FoldSeq(LAMBDA u, n : n + w(u), 0, text)

Printbuffer(h, length, noalloc) ==
  [h |-> h, text |-> <<>>, offset |-> 0, length |-> length, noalloc |-> noalloc,
   buffer |-> TRUE, ok |-> TRUE, fits |-> TRUE]

Fail(p) == [p EXCEPT !.ok = FALSE]

\* Mutant of ensure: the room for the NUL is forgotten.
ensure_NoNul(p, needed) ==
  LET total == needed + p.offset - 1
  IN  IF ~p.buffer THEN Fail(p)
      ELSE IF total <= p.length THEN p
      ELSE IF p.noalloc THEN Fail(p) ELSE [p EXCEPT !.length = 2 * total]

\* A buffer that cannot grow is freed.
ensure(p, needed) ==
  LET total == needed + p.offset + 1
      newsize == IF total > INT_MAX \div 2 THEN INT_MAX ELSE 2 * total
  IN  IF ~p.buffer \/ (p.length > 0 /\ p.offset >= p.length) \/ needed > INT_MAX THEN Fail(p)
      ELSE IF total <= p.length THEN p
      ELSE IF p.noalloc \/ total > INT_MAX THEN Fail(p)
      ELSE IF p.h.fuel = 0
      THEN [Fail(p) EXCEPT !.buffer = FALSE, !.length = 0, !.h.strings = @ - 1]
      ELSE [p EXCEPT !.length = newsize, !.h.fuel = @ - 1]

update_offset(p, units) ==
  [p EXCEPT !.fits = @ /\ p.offset + Width(units) + 1 <= p.length,
            !.offset = @ + Width(units), !.text = @ \o units]

Piece(needed, units) == <<[needed |-> needed, units |-> units]>>
Unprintable == Piece(-1, <<>>)

\* A piece asks for the bytes it writes, or more; the NUL is not among them.
Asks(piece) == piece.needed \in Nat /\ Width(piece.units) \in 0 .. piece.needed

\* A call that fails ends the rest.
Write(p, piece) ==
  LET q == IF <<piece>> = Unprintable THEN Fail(p) ELSE ensure(p, piece.needed)
  IN  IF ~p.ok THEN p ELSE IF q.ok THEN update_offset(q, piece.units) ELSE q

=============================================================================
