----------------------------- MODULE RegisterBank -----------------------------
(***************************************************************************)
(* The data path of json-modbus-server.c: what process_json() does with a  *)
(* data update, from the numbers cJSON hands it to the holding registers   *)
(* masters read.  ModbusServer sees an update as one event that touches    *)
(* nothing; here is what it writes.                                        *)
(*                                                                         *)
(* A byte has Base values, so that a small Base brings every overflow and  *)
(* every boundary of the 16- and 32-bit conversions within reach.  The     *)
(* program is the instance Base = 256.                                     *)
(***************************************************************************)
EXTENDS Integers

CONSTANTS
  Base,                \* values of a byte
  holding_regs_start,  \* the configured range
  nb_holding_regs,
  Addresses,           \* bound: addresses the controller asks for
  Values               \* bound: numbers it sends

ASSUME BaseAssumption == Base \in Nat \ {0, 1} /\ Base % 2 = 0
ASSUME RangeAssumption == holding_regs_start \in Int /\ nb_holding_regs \in Nat \ {0}
ASSUME RequestAssumption == Addresses \subseteq Int /\ Values \subseteq Int

Words  == Base * Base    \* values of a word, and of two words
DWords == Words * Words
Word  == 0 .. Words - 1
DWord == 0 .. DWords - 1
INT_MAX == DWords \div 2 - 1
INT_MIN == -(DWords \div 2)

DataType  == {"uint16", "int16", "uint32", "int32", "float", "other"}
ByteOrder == {"LE", "BE", "SWAP"}

\* A parsed update.  "incomplete" lacks a field or has one of the wrong kind,
\* "text" has a value that is no number.  For "float" the value is the number
\* whose digits are the bits of the float: the encoding is the compiler's.
Request ==
  [address : Addresses, datatype : DataType,
   byte_order : ByteOrder \cup {"other", "missing"},
   kind : {"incomplete", "text", "number"}, value : Values]
NoRequest == [kind |-> "none"]

VARIABLES
  tab_registers,  \* the registers, and at nb_holding_regs the word after them
  request,        \* the update process_json() works on
  reply           \* the line it printed last

vars == <<tab_registers, request, reply>>

Register == 0 .. nb_holding_regs - 1
Cell == 0 .. nb_holding_regs

Init ==
  /\ tab_registers = [c \in Cell |-> 0]
  /\ request = NoRequest
  /\ reply = "none"

-----------------------------------------------------------------------------
(* Conversions.                                                            *)

\* cJSON: valueint saturates, for addresses and values alike.
valueint(number) ==
  IF number > INT_MAX THEN INT_MAX ELSE IF number < INT_MIN THEN INT_MIN ELSE number

\* Mutant of parse_byte_order: the default is network order.
parse_byte_order_Network(s) == IF s \in ByteOrder THEN s ELSE "BE"

parse_byte_order(s) == IF s \in ByteOrder THEN s ELSE "LE"

\* (w >> 8) | (w << 8), cut to 16 bits
Swap(w) == w \div Base + (w % Base) * Base

\* The two words of u, the low one first, as write_registers orders them.
Ordered(u, order) ==
  LET low  == u % Words
      high == u \div Words
  IN  CASE order = "SWAP" -> <<Swap(low), Swap(high)>>
        [] order = "BE"   -> <<high, low>>
        [] OTHER          -> <<low, high>>

\* The words an update writes, <<>> when none of the branches takes it.
WordsOf(req) ==
  LET order == parse_byte_order(req.byte_order)
      v     == IF req.datatype = "float" THEN req.value ELSE valueint(req.value)
      word  == v % Words
  IN  IF req.kind # "number" THEN <<>>
      ELSE CASE req.datatype \in {"uint16", "int16"} ->
                  <<IF order = "SWAP" THEN Swap(word) ELSE word>>
             [] req.datatype \in {"uint32", "int32", "float"} ->
                  Ordered(v % DWords, order)
             [] OTHER -> <<>>

-----------------------------------------------------------------------------
(* process_json()                                                          *)

Index(req) == valueint(req.address) - holding_regs_start

\* Both tests of the address agree: nb_registers is nb_holding_regs.
InRange(req) == Index(req) \in Register

\* A store past the array hits what the heap holds there.
Stored(idx, words) ==
  [c \in Cell |-> IF c - idx + 1 \in DOMAIN words THEN words[c - idx + 1]
                  ELSE tab_registers[c]]

Arrives ==
  /\ request = NoRequest
  /\ request' \in Request
  /\ reply' = "none"
  /\ UNCHANGED tab_registers

\* A required field is missing: no answer.
Drops ==
  /\ request.kind = "incomplete"
  /\ UNCHANGED <<tab_registers, reply>>

Refuses ==
  /\ request.kind # "incomplete" /\ ~InRange(request)
  /\ reply' = "address_out_of_range"
  /\ UNCHANGED tab_registers

\* Mutant of Updates: a 32-bit value goes to an even register, as it does
\* for masters that read in pairs.
Updates_Aligned ==
  /\ request.kind # "incomplete" /\ InRange(request)
  /\ LET words == WordsOf(request)
         idx   == Index(request)
     IN  tab_registers' = Stored(IF 2 \in DOMAIN words THEN idx - (idx % 2) ELSE idx, words)
  /\ reply' = "updated"

\* The answer is "updated" whether or not a branch took the value.
Updates ==
  /\ request.kind # "incomplete" /\ InRange(request)
  /\ tab_registers' = Stored(Index(request), WordsOf(request))
  /\ reply' = "updated"

process_json ==
  /\ request # NoRequest
  /\ Drops \/ Refuses \/ Updates
  /\ request' = NoRequest

\* modbus_reply to a write from a master: the library keeps to the mapping.
MasterWrites ==
  /\ request = NoRequest
  /\ \E r \in Register, w \in Word : tab_registers' = [tab_registers EXCEPT ![r] = w]
  /\ UNCHANGED <<request, reply>>

Next == Arrives \/ process_json \/ MasterWrites

Spec == Init /\ [][Next]_vars

-----------------------------------------------------------------------------
(* What a master makes of registers it reads: the convention each byte     *)
(* order names, written from the reader's side.                            *)

Signed(n, size) == IF n >= size \div 2 THEN n - size ELSE n

\* The bytes of register r as they are sent, most significant first.
Bytes(r) == <<r \div Base, r % Base>>

ReadWord(r, order) ==
  LET b == Bytes(r) IN IF order = "SWAP" THEN b[2] * Base + b[1] ELSE b[1] * Base + b[2]

ReadDWord(first, second, order) ==
  IF order = "BE"
  THEN ReadWord(first, order) * Words + ReadWord(second, order)
  ELSE ReadWord(second, order) * Words + ReadWord(first, order)

Width(datatype) ==
  CASE datatype \in {"uint16", "int16"} -> 1
    [] datatype \in {"uint32", "int32", "float"} -> 2
    [] OTHER -> 0

\* The numbers a datatype holds and the program can be given: valueint is an
\* int, so the upper half of uint32 is not among them.
Holds(datatype, n) ==
  CASE datatype = "uint16" -> n \in Word
    [] datatype = "int16"  -> n \in -(Words \div 2) .. Words \div 2 - 1
    [] datatype = "uint32" -> n \in 0 .. INT_MAX
    [] datatype = "int32"  -> n \in INT_MIN .. INT_MAX
    [] datatype = "float"  -> n \in DWord
    [] OTHER -> FALSE

Read(tab, datatype, idx, order) ==
  LET n == IF Width(datatype) = 1
           THEN ReadWord(tab[idx], order)
           ELSE ReadDWord(tab[idx], tab[idx + 1], order)
  IN  CASE datatype = "int16" -> Signed(n, Words)
        [] datatype = "int32" -> Signed(n, DWords)
        [] OTHER -> n

-----------------------------------------------------------------------------
(* Properties.                                                             *)

TypeOK ==
  /\ tab_registers \in [Cell -> Word]
  /\ request \in Request \cup {NoRequest}
  /\ reply \in {"none", "address_out_of_range", "updated"}

\* A number that the datatype holds is read back by a master that knows the
\* datatype and the byte order, negative ones too; an update that names no
\* order is read as LE (lines 133-138, 164-178, 232-254).
ReadsBack ==
  [][process_json /\ request.kind = "number" /\ InRange(request)
     /\ Holds(request.datatype, request.value)
     /\ Index(request) + Width(request.datatype) <= nb_holding_regs
     => LET order == IF request.byte_order \in ByteOrder THEN request.byte_order ELSE "LE"
        IN  Read(tab_registers', request.datatype, Index(request), order) = request.value]_vars

\* An update changes no register but those of its value, and one that is
\* refused changes none (lines 215-230, 175-177).
OnlyAddressed ==
  [][process_json =>
       \A c \in Cell :
         tab_registers'[c] # tab_registers[c] =>
           /\ reply' = "updated"
           /\ c - Index(request) \in 0 .. Width(request.datatype) - 1]_vars

\* The registers are the only memory an update writes: the word that follows
\* the array stays what it is.
\* (comment at line 217: "// Validate address")
StaysInBounds == [][tab_registers'[nb_holding_regs] = tab_registers[nb_holding_regs]]_vars

=============================================================================
