-------------------------- MODULE RegisterBankProofs --------------------------
(***************************************************************************)
(* Proofs about RegisterBank, for a byte of any even number of values, any *)
(* range of registers, and any addresses and numbers a controller sends.   *)
(***************************************************************************)
EXTENDS RegisterBank, TLAPS

USE BaseAssumption, RangeAssumption, RequestAssumption
DEF BaseAssumption, RangeAssumption, RequestAssumption

-----------------------------------------------------------------------------
(* Division.                                                               *)

LEMMA Product ==
  ASSUME NEW m \in Nat \ {0}, NEW n \in Nat \ {0}
  PROVE  m * n \in Nat \ {0} /\ m * n >= n
<1>1. m * n \in Nat
  OBVIOUS
<1>2. (m - 1) * n >= 0 /\ (m - 1) * n = m * n - n
  OBVIOUS
<1> QED
  BY <1>1, <1>2

LEMMA Divided ==
  ASSUME NEW x \in Int, NEW n \in Nat \ {0}
  PROVE  /\ x \div n \in Int /\ x % n \in 0 .. n - 1
         /\ x = (x \div n) * n + (x % n)
OBVIOUS

\* Quotient and remainder are the only pair there is.
LEMMA Quotient ==
  ASSUME NEW n \in Nat \ {0}, NEW b \in Int, NEW a \in 0 .. n - 1, NEW x \in Int, x = b * n + a
  PROVE  x \div n = b /\ x % n = a
<1> DEFINE q == x \div n
           r == x % n
<1>1. q \in Int /\ r \in 0 .. n - 1 /\ x = q * n + r
  BY Divided
<1> HIDE DEF q, r
<1>2. (q - b) * n = a - r
  BY <1>1
<1>3. ~(q - b >= 1)
  <2> SUFFICES ASSUME q - b >= 1 PROVE FALSE
    OBVIOUS
  <2>1. (q - b) * n >= n
    BY <1>1, Product
  <2> QED
    BY <1>1, <1>2, <2>1
<1>4. ~(b - q >= 1)
  <2> SUFFICES ASSUME b - q >= 1 PROVE FALSE
    OBVIOUS
  <2>1. (b - q) * n >= n
    BY <1>1, Product
  <2>2. (b - q) * n = -((q - b) * n)
    BY <1>1
  <2> QED
    BY <1>1, <1>2, <2>1, <2>2
<1>5. q = b
  BY <1>1, <1>3, <1>4
<1>6. r = a
  BY <1>1, <1>5
<1> QED
  BY <1>5, <1>6 DEF q, r

\* A number below m * n has two digits, one of m values and one of n.
LEMMA Digits ==
  ASSUME NEW m \in Nat \ {0}, NEW n \in Nat \ {0}, NEW x \in 0 .. m * n - 1
  PROVE  x \div n \in 0 .. m - 1 /\ x % n \in 0 .. n - 1
<1>1. x \div n \in Int /\ x % n \in 0 .. n - 1 /\ x = (x \div n) * n + (x % n)
  BY Product, Divided
<1> DEFINE q == x \div n
<1>2. q \in Int /\ q * n <= x /\ x < q * n + n
  BY <1>1, Product
<1> HIDE DEF q
<1>3. m * n \in Int
  OBVIOUS
<1>4. ~(q >= m)
  <2> SUFFICES ASSUME q >= m PROVE FALSE
    OBVIOUS
  <2>1. q * n >= m * n
    BY <1>2
  <2> QED
    BY <1>2, <1>3, <2>1
<1>5. ~(q <= -1)
  <2> SUFFICES ASSUME q <= -1 PROVE FALSE
    OBVIOUS
  <2>1. q * n <= -n
    BY <1>2
  <2> QED
    BY <1>2, <1>3, <2>1
<1>6. q \in 0 .. m - 1
  BY <1>2, <1>4, <1>5
<1> QED
  BY <1>1, <1>6 DEF q

\* Two digits make a number below m * n.
LEMMA Composed ==
  ASSUME NEW m \in Nat \ {0}, NEW n \in Nat \ {0}, NEW b \in 0 .. m - 1, NEW a \in 0 .. n - 1
  PROVE  b * n + a \in 0 .. m * n - 1
<1>1. b * n \in Nat /\ m * n \in Nat
  OBVIOUS
<1>2. (m - 1 - b) * n >= 0 /\ (m - 1 - b) * n = m * n - n - b * n
  OBVIOUS
<1> QED
  BY <1>1, <1>2

LEMMA Sizes == Words \in Nat \ {0} /\ DWords \in Nat \ {0}
BY Product DEF Words, DWords

-----------------------------------------------------------------------------
(* Words.                                                                  *)

LEMMA SwapWord ==
  ASSUME NEW w \in Word
  PROVE  /\ Swap(w) \in Word
         /\ Swap(w) \div Base = w % Base /\ Swap(w) % Base = w \div Base
<1> DEFINE high == w \div Base
           low == w % Base
<1>1. high \in 0 .. Base - 1 /\ low \in 0 .. Base - 1
  BY Digits DEF Word, Words
<1>2. Swap(w) = high + low * Base
  BY DEF Swap
<1> HIDE DEF high, low
<1>3. Swap(w) = low * Base + high
  BY <1>1, <1>2
<1>4. low * Base + high \in 0 .. Base * Base - 1
  BY <1>1, Composed
<1>5. Swap(w) \in Word
  BY <1>3, <1>4 DEF Word, Words
<1>6. Swap(w) \in Int
  BY <1>1, <1>3
<1>7. Swap(w) \div Base = low /\ Swap(w) % Base = high
  BY <1>1, <1>3, <1>6, Quotient
<1> QED
  BY <1>5, <1>7 DEF high, low

LEMMA HalvesAreWords ==
  ASSUME NEW u \in DWord
  PROVE  u % Words \in Word /\ u \div Words \in Word
BY Sizes, Digits DEF DWord, DWords, Word

LEMMA Remainders ==
  ASSUME NEW x \in Int
  PROVE  x % Words \in Word /\ x % DWords \in DWord
BY Sizes, Divided DEF Word, DWord

LEMMA Saturated ==
  ASSUME NEW x \in Int PROVE valueint(x) \in Int
<1>1. INT_MAX \in Int /\ INT_MIN \in Int
  BY Sizes DEF INT_MAX, INT_MIN
<1> QED
  BY <1>1 DEF valueint

\* The words of an update: as many as the datatype has, or none.
LEMMA OrderedWords ==
  ASSUME NEW u \in DWord, NEW order
  PROVE  /\ DOMAIN Ordered(u, order) = 1 .. 2
         /\ Ordered(u, order)[1] \in Word /\ Ordered(u, order)[2] \in Word
<1> DEFINE low == u % Words
           high == u \div Words
<1>1. /\ low \in Word /\ high \in Word
      /\ Swap(low) \in Word /\ Swap(high) \in Word
  BY HalvesAreWords, SwapWord
<1>2. Ordered(u, order) = CASE order = "SWAP" -> <<Swap(low), Swap(high)>>
                            [] order = "BE"   -> <<high, low>>
                            [] OTHER          -> <<low, high>>
  BY DEF Ordered
<1> HIDE DEF low, high
<1> QED
  BY <1>1, <1>2

LEMMA WordsOfType ==
  ASSUME NEW req \in Request
  PROVE  /\ DOMAIN WordsOf(req) \subseteq 1 .. Width(req.datatype)
         /\ \A k \in DOMAIN WordsOf(req) : WordsOf(req)[k] \in Word
<1> DEFINE order == parse_byte_order(req.byte_order)
           v == IF req.datatype = "float" THEN req.value ELSE valueint(req.value)
<1>1. v \in Int /\ req.datatype \in DataType
  BY Saturated DEF Request
<1>2. WordsOf(req) =
        IF req.kind # "number" THEN <<>>
        ELSE CASE req.datatype \in {"uint16", "int16"} ->
                    <<IF order = "SWAP" THEN Swap(v % Words) ELSE v % Words>>
               [] req.datatype \in {"uint32", "int32", "float"} -> Ordered(v % DWords, order)
               [] OTHER -> <<>>
  BY DEF WordsOf
<1> HIDE DEF order, v
<1>3. CASE req.kind # "number" \/ req.datatype = "other"
  <2>1. WordsOf(req) = <<>>
    BY <1>2, <1>3
  <2>2. DOMAIN WordsOf(req) = {}
    BY <2>1
  <2> QED
    BY <2>2
<1>4. CASE req.kind = "number" /\ req.datatype \in {"uint16", "int16"}
  <2>1. v % Words \in Word /\ Swap(v % Words) \in Word
    BY <1>1, Remainders, SwapWord
  <2>2. WordsOf(req) = <<IF order = "SWAP" THEN Swap(v % Words) ELSE v % Words>>
    BY <1>2, <1>4
  <2> QED
    BY <1>4, <2>1, <2>2 DEF Width
<1>5. CASE req.kind = "number" /\ req.datatype \in {"uint32", "int32", "float"}
  <2>1. v % DWords \in DWord
    BY <1>1, Remainders
  <2>2. WordsOf(req) = Ordered(v % DWords, order)
    BY <1>2, <1>5
  <2>3. Width(req.datatype) = 2
    BY <1>5 DEF Width
  <2>4. DOMAIN WordsOf(req) = 1 .. 2 /\ WordsOf(req)[1] \in Word /\ WordsOf(req)[2] \in Word
    BY <2>1, <2>2, OrderedWords
  <2> QED
    BY <2>3, <2>4
<1> QED
  BY <1>1, <1>3, <1>4, <1>5 DEF DataType

-----------------------------------------------------------------------------
(* Types, and what an update touches.                                      *)

LEMMA StoredCells ==
  ASSUME TypeOK, NEW req \in Request, NEW idx \in Register
  PROVE  /\ Stored(idx, WordsOf(req)) \in [Cell -> Word]
         /\ \A c \in Cell : Stored(idx, WordsOf(req))[c] # tab_registers[c]
                             => c - idx \in 0 .. Width(req.datatype) - 1
<1> DEFINE words == WordsOf(req)
<1>1. /\ DOMAIN words \subseteq 1 .. Width(req.datatype)
      /\ \A k \in DOMAIN words : words[k] \in Word
  BY WordsOfType
<1>2. Stored(idx, words) = [c \in Cell |-> IF c - idx + 1 \in DOMAIN words THEN words[c - idx + 1]
                                           ELSE tab_registers[c]]
  BY DEF Stored
<1>3. Width(req.datatype) \in Int /\ idx \in Int /\ \A c \in Cell : c \in Int
  BY DEF Width, Register, Cell
<1> HIDE DEF words
<1>4. Stored(idx, words) \in [Cell -> Word]
  BY <1>1, <1>2 DEF TypeOK
<1>5. \A c \in Cell : Stored(idx, words)[c] # tab_registers[c] => c - idx \in 0 .. Width(req.datatype) - 1
  BY <1>1, <1>2, <1>3
<1> QED
  BY <1>4, <1>5 DEF words

\* What process_json does, by request.
LEMMA Processed ==
  ASSUME TypeOK, process_json
  PROVE  /\ request \in Request /\ request' = NoRequest
         /\ \/ UNCHANGED tab_registers /\ reply' \in {reply, "address_out_of_range"}
            \/ /\ InRange(request) /\ reply' = "updated"
               /\ tab_registers' = Stored(Index(request), WordsOf(request))
BY DEF TypeOK, process_json, Drops, Refuses, Updates

LEMMA TypeInvariant == Spec => []TypeOK
<1>1. Init => TypeOK
  BY Sizes DEF Init, TypeOK, Word, Cell
<1>2. TypeOK /\ [Next]_vars => TypeOK'
  <2> SUFFICES ASSUME TypeOK, [Next]_vars PROVE TypeOK'
    OBVIOUS
  <2>1. CASE Arrives
    BY <2>1 DEF Arrives, TypeOK
  <2>2. CASE process_json
    <3>1. tab_registers' \in [Cell -> Word]
      BY <2>2, Processed, StoredCells DEF TypeOK, InRange
    <3> QED
      BY <2>2, <3>1, Processed DEF TypeOK
  <2>3. CASE MasterWrites
    BY <2>3 DEF MasterWrites, TypeOK, Register, Cell
  <2>4. CASE UNCHANGED vars
    BY <2>4 DEF vars, TypeOK
  <2> QED
    BY <2>1, <2>2, <2>3, <2>4 DEF Next
<1> QED
  BY <1>1, <1>2, PTL DEF Spec

\* Registers hold words, whatever masters and the controller write: no
\* conversion leaves more than 16 bits (lines 133-178, 232-254).
THEOREM RegistersHoldWords == Spec => []TypeOK
BY TypeInvariant

\* An update changes no register but those of its value (lines 215-254).
THEOREM UpdatesOnlyAddressed == Spec => OnlyAddressed
<1>1. TypeOK /\ [Next]_vars =>
        [process_json =>
           \A c \in Cell :
             tab_registers'[c] # tab_registers[c] =>
               /\ reply' = "updated"
               /\ c - Index(request) \in 0 .. Width(request.datatype) - 1]_vars
  <2> SUFFICES ASSUME TypeOK, process_json, NEW c \in Cell, tab_registers'[c] # tab_registers[c]
               PROVE  /\ reply' = "updated"
                      /\ c - Index(request) \in 0 .. Width(request.datatype) - 1
    OBVIOUS
  <2>1. /\ request \in Request /\ InRange(request) /\ reply' = "updated"
        /\ tab_registers' = Stored(Index(request), WordsOf(request))
    BY Processed
  <2>2. Stored(Index(request), WordsOf(request))[c] # tab_registers[c]
    BY <2>1
  <2> QED
    BY <2>1, <2>2, StoredCells DEF InRange
<1> QED
  BY <1>1, TypeInvariant, PTL DEF Spec, OnlyAddressed

-----------------------------------------------------------------------------
(* Reading back.                                                           *)

\* A word is read as it was meant; for SWAP it was swapped before.
LEMMA ReadsWord ==
  ASSUME NEW w \in Word, NEW order
  PROVE  /\ order # "SWAP" => ReadWord(w, order) = w
         /\ ReadWord(Swap(w), "SWAP") = w
<1>1. w \in Int /\ Base \in Nat \ {0} /\ w = (w \div Base) * Base + (w % Base)
  BY Sizes, Divided DEF Word
<1>2. order # "SWAP" => ReadWord(w, order) = (w \div Base) * Base + (w % Base)
  BY DEF ReadWord, Bytes
<1>3. ReadWord(Swap(w), "SWAP") = (Swap(w) % Base) * Base + Swap(w) \div Base
  BY DEF ReadWord, Bytes
<1>4. Swap(w) % Base = w \div Base /\ Swap(w) \div Base = w % Base
  BY SwapWord
<1> QED
  BY <1>1, <1>2, <1>3, <1>4

LEMMA ReadsDWord ==
  ASSUME NEW u \in DWord, NEW order \in ByteOrder
  PROVE  ReadDWord(Ordered(u, order)[1], Ordered(u, order)[2], order) = u
<1> DEFINE low == u % Words
           high == u \div Words
<1>1. low \in Word /\ high \in Word
  BY HalvesAreWords
<1>2. u = high * Words + low
  BY Sizes, Divided DEF DWord
<1>3. Ordered(u, order) = CASE order = "SWAP" -> <<Swap(low), Swap(high)>>
                            [] order = "BE"   -> <<high, low>>
                            [] OTHER          -> <<low, high>>
  BY DEF Ordered
<1> HIDE DEF low, high
<1>4. CASE order = "SWAP"
  <2>1. Ordered(u, order)[1] = Swap(low) /\ Ordered(u, order)[2] = Swap(high)
    BY <1>3, <1>4
  <2>2. ReadWord(Swap(low), order) = low /\ ReadWord(Swap(high), order) = high
    BY <1>1, <1>4, ReadsWord
  <2> QED
    BY <1>2, <1>4, <2>1, <2>2 DEF ReadDWord
<1>5. CASE order = "BE"
  <2>1. Ordered(u, order)[1] = high /\ Ordered(u, order)[2] = low
    BY <1>3, <1>5
  <2>2. ReadWord(low, order) = low /\ ReadWord(high, order) = high
    BY <1>1, <1>5, ReadsWord
  <2> QED
    BY <1>2, <1>5, <2>1, <2>2 DEF ReadDWord
<1>6. CASE order = "LE"
  <2>1. Ordered(u, order)[1] = low /\ Ordered(u, order)[2] = high
    BY <1>3, <1>6
  <2>2. ReadWord(low, order) = low /\ ReadWord(high, order) = high
    BY <1>1, <1>6, ReadsWord
  <2> QED
    BY <1>2, <1>6, <2>1, <2>2 DEF ReadDWord
<1> QED
  BY <1>4, <1>5, <1>6 DEF ByteOrder

\* A number in the signed or in the unsigned range of n values survives the cut
\* to n values.
LEMMA CutAndSigned ==
  ASSUME NEW n \in Nat \ {0}, NEW x \in Int
  PROVE  /\ x \in 0 .. n - 1 => x % n = x
         /\ x \in -(n \div 2) .. n \div 2 - 1 => Signed(x % n, n) = x
<1>1. x \in 0 .. n - 1 => x % n = x
  <2> SUFFICES ASSUME x \in 0 .. n - 1 PROVE x % n = x
    OBVIOUS
  <2>1. x = 0 * n + x
    OBVIOUS
  <2> QED
    BY <2>1, Quotient
<1>2. ASSUME x \in -(n \div 2) .. n \div 2 - 1 PROVE Signed(x % n, n) = x
  <2>1. n \div 2 \in Nat /\ 2 * (n \div 2) <= n
    OBVIOUS
  <2>2. CASE x >= 0
    <3>1. x \in 0 .. n - 1 /\ ~(x >= n \div 2)
      BY <1>2, <2>1, <2>2
    <3> QED
      BY <1>1, <3>1 DEF Signed
  <2>3. CASE x < 0
    <3>1. x + n \in 0 .. n - 1 /\ x + n >= n \div 2
      BY <1>2, <2>1, <2>3
    <3>2. x = (-1) * n + (x + n)
      OBVIOUS
    <3>3. x % n = x + n
      BY <3>1, <3>2, Quotient
    <3> QED
      BY <3>1, <3>3 DEF Signed
  <2> QED
    BY <2>2, <2>3
<1> QED
  BY <1>1, <1>2

\* An int holds every word, signed or not.
LEMMA IntHoldsWords ==
  /\ INT_MIN \in Int /\ INT_MAX \in Int /\ INT_MIN <= 0 /\ INT_MIN = -(DWords \div 2) /\ INT_MAX < DWords
  /\ Words - 1 <= INT_MAX /\ INT_MIN <= -(Words \div 2) /\ Words \div 2 - 1 <= INT_MAX
<1>1. Words \in Nat \ {0} /\ DWords \in Nat \ {0}
  BY Sizes
<1>2. Words >= 2
  BY Product DEF Words
<1>3. (Words - 2) * Words >= 0 /\ (Words - 2) * Words = DWords - 2 * Words
  BY <1>1, <1>2 DEF DWords
<1>4. DWords >= 2 * Words
  BY <1>1, <1>3
<1> QED
  BY <1>1, <1>2, <1>4 DEF INT_MAX, INT_MIN

\* A number that its datatype holds is what valueint gives.
LEMMA HeldIsExact ==
  ASSUME NEW n \in Int, NEW datatype \in DataType, Holds(datatype, n)
  PROVE  datatype # "float" => valueint(n) = n
<1>1. datatype # "float" => INT_MIN <= n /\ n <= INT_MAX
  <2>1. CASE datatype = "uint16"
    BY <2>1, IntHoldsWords, Sizes DEF Holds, Word
  <2>2. CASE datatype = "int16"
    BY <2>2, IntHoldsWords, Sizes DEF Holds
  <2>3. CASE datatype \in {"uint32", "int32"}
    BY <2>3, IntHoldsWords, Sizes DEF Holds
  <2>4. CASE datatype \in {"float", "other"}
    BY <2>4 DEF Holds
  <2> QED
    BY <2>1, <2>2, <2>3, <2>4 DEF DataType
<1> QED
  BY <1>1, IntHoldsWords DEF valueint

LEMMA StoredBack ==
  ASSUME NEW req \in Request, req.kind = "number", Holds(req.datatype, req.value),
         NEW idx \in Register, idx + Width(req.datatype) <= nb_holding_regs
  PROVE  Read(Stored(idx, WordsOf(req)), req.datatype, idx, parse_byte_order(req.byte_order)) = req.value
<1> DEFINE order == parse_byte_order(req.byte_order)
           n == req.value
           tab == Stored(idx, WordsOf(req))
<1>1. n \in Int /\ req.datatype \in DataType /\ order \in ByteOrder
  BY DEF Request, parse_byte_order, ByteOrder
<1>2. req.datatype # "float" => valueint(n) = n
  BY <1>1, HeldIsExact
<1>3. WordsOf(req) =
        CASE req.datatype \in {"uint16", "int16"} ->
               <<IF order = "SWAP" THEN Swap(n % Words) ELSE n % Words>>
          [] req.datatype \in {"uint32", "int32", "float"} -> Ordered(n % DWords, order)
          [] OTHER -> <<>>
  BY <1>2 DEF WordsOf
<1>4. idx \in Int /\ idx \in Cell
  BY DEF Register, Cell
<1>5. \A c \in Cell : c - idx + 1 \in DOMAIN WordsOf(req) => tab[c] = WordsOf(req)[c - idx + 1]
  BY DEF Stored
<1>6. Read(tab, req.datatype, idx, order) =
        LET r == IF Width(req.datatype) = 1 THEN ReadWord(tab[idx], order)
                 ELSE ReadDWord(tab[idx], tab[idx + 1], order)
        IN  CASE req.datatype = "int16" -> Signed(r, Words)
              [] req.datatype = "int32" -> Signed(r, DWords)
              [] OTHER -> r
  BY DEF Read
<1> HIDE DEF order, n, tab
<1>7. CASE req.datatype \in {"uint16", "int16"}
  <2> DEFINE w == n % Words
  <2>1. w \in Word
    BY <1>1, Remainders
  <2>2. WordsOf(req) = <<IF order = "SWAP" THEN Swap(w) ELSE w>>
    BY <1>3, <1>7
  <2> HIDE DEF w
  <2>3. DOMAIN WordsOf(req) = 1 .. 1 /\ WordsOf(req)[1] = IF order = "SWAP" THEN Swap(w) ELSE w
    BY <2>2
  <2>4. tab[idx] = IF order = "SWAP" THEN Swap(w) ELSE w
    <3>1. idx - idx + 1 = 1
      BY <1>4
    <3> QED
      BY <1>4, <1>5, <2>3, <3>1
  <2>5. ReadWord(tab[idx], order) = w
    BY <2>1, <2>4, ReadsWord
  <2>6. Width(req.datatype) = 1
    BY <1>7 DEF Width
  <2>7. CASE req.datatype = "uint16"
    <3>1. n \in 0 .. Words - 1
      BY <2>7 DEF Holds, Word, n
    <3>2. w = n
      BY <1>1, <3>1, Sizes, CutAndSigned DEF w
    <3> QED
      BY <1>6, <2>5, <2>6, <2>7, <3>2 DEF tab, order, n
  <2>8. CASE req.datatype = "int16"
    <3>1. n \in -(Words \div 2) .. Words \div 2 - 1
      BY <2>8 DEF Holds, n
    <3>2. Signed(w, Words) = n
      BY <1>1, <3>1, Sizes, CutAndSigned DEF w
    <3> QED
      BY <1>6, <2>5, <2>6, <2>8, <3>2 DEF tab, order, n
  <2> QED
    BY <1>7, <2>7, <2>8
<1>8. CASE req.datatype \in {"uint32", "int32", "float"}
  <2> DEFINE u == n % DWords
  <2>1. u \in DWord
    BY <1>1, Remainders
  <2>2. WordsOf(req) = Ordered(u, order)
    BY <1>3, <1>8
  <2> HIDE DEF u
  <2>3. DOMAIN WordsOf(req) = 1 .. 2
    BY <2>1, <2>2, OrderedWords
  <2>4. Width(req.datatype) = 2
    BY <1>8 DEF Width
  <2>5. idx + 1 \in Cell
    BY <1>4, <2>4 DEF Cell
  <2>6. tab[idx] = Ordered(u, order)[1] /\ tab[idx + 1] = Ordered(u, order)[2]
    <3>1. idx - idx + 1 = 1 /\ (idx + 1) - idx + 1 = 2
      BY <1>4
    <3>2. tab[idx] = WordsOf(req)[1]
      BY <1>4, <1>5, <2>3, <3>1
    <3>3. tab[idx + 1] = WordsOf(req)[2]
      BY <1>5, <2>3, <2>5, <3>1
    <3> QED
      BY <2>2, <3>2, <3>3
  <2>7. ReadDWord(tab[idx], tab[idx + 1], order) = u
    BY <1>1, <2>1, <2>6, ReadsDWord
  <2>8. CASE req.datatype \in {"uint32", "float"}
    <3>1. n \in 0 .. DWords - 1
      BY <2>8, IntHoldsWords, Sizes DEF Holds, DWord, n
    <3>2. u = n
      BY <1>1, <3>1, Sizes, CutAndSigned DEF u
    <3> QED
      BY <1>6, <2>4, <2>7, <2>8, <3>2 DEF tab, order, n
  <2>9. CASE req.datatype = "int32"
    <3>1. n \in -(DWords \div 2) .. DWords \div 2 - 1
      BY <2>9 DEF Holds, INT_MIN, INT_MAX, n
    <3>2. Signed(u, DWords) = n
      BY <1>1, <3>1, Sizes, CutAndSigned DEF u
    <3> QED
      BY <1>6, <2>4, <2>7, <2>9, <3>2 DEF tab, order, n
  <2> QED
    BY <1>8, <2>8, <2>9
<1>9. CASE req.datatype = "other"
  BY <1>9 DEF Holds
<1> QED
  BY <1>1, <1>7, <1>8, <1>9 DEF DataType

\* What a controller sends is what a master reads that knows the datatype and
\* the byte order: every number the datatype holds, negative ones too, in a
\* byte of any even number of values (lines 133-138, 164-178, 232-254).
THEOREM NumbersReadBack == Spec => ReadsBack
<1>1. TypeOK /\ [Next]_vars =>
        [process_json /\ request.kind = "number" /\ InRange(request)
         /\ Holds(request.datatype, request.value)
         /\ Index(request) + Width(request.datatype) <= nb_holding_regs
         => LET order == IF request.byte_order \in ByteOrder THEN request.byte_order ELSE "LE"
            IN  Read(tab_registers', request.datatype, Index(request), order) = request.value]_vars
  <2> SUFFICES ASSUME TypeOK, process_json, request.kind = "number", InRange(request),
                      Holds(request.datatype, request.value),
                      Index(request) + Width(request.datatype) <= nb_holding_regs
               PROVE  Read(tab_registers', request.datatype, Index(request),
                           parse_byte_order(request.byte_order)) = request.value
    BY DEF parse_byte_order
  <2>1. tab_registers' = Stored(Index(request), WordsOf(request))
    BY DEF process_json, Drops, Refuses, Updates
  <2>2. request \in Request /\ Index(request) \in Register
    BY Processed DEF InRange
  <2>3. Read(Stored(Index(request), WordsOf(request)), request.datatype, Index(request),
             parse_byte_order(request.byte_order)) = request.value
    BY <2>2, StoredBack
  <2> QED
    BY <2>1, <2>3
<1> QED
  BY <1>1, TypeInvariant, PTL DEF Spec, ReadsBack
=============================================================================
