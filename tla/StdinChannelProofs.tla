-------------------------- MODULE StdinChannelProofs --------------------------
(***************************************************************************)
(* Proofs about StdinChannel, for a line buffer and a stdio buffer of any  *)
(* size and any number of writes.                                          *)
(***************************************************************************)
EXTENDS StdinChannel, SequenceTheorems, TLAPS

USE BufferAssumption, StdioAssumption, WrittenAssumption
DEF BufferAssumption, StdioAssumption, WrittenAssumption

-----------------------------------------------------------------------------
(* Sequences.                                                              *)

\* A sequence is cut in two anywhere.
LEMMA CutInTwo ==
  ASSUME NEW S, NEW s \in Seq(S), NEW n \in 1 .. Len(s)
  PROVE  /\ SubSeq(s, 1, n) \in Seq(S) /\ Len(SubSeq(s, 1, n)) = n
         /\ SubSeq(s, n + 1, Len(s)) \in Seq(S) /\ Len(SubSeq(s, n + 1, Len(s))) = Len(s) - n
         /\ SubSeq(s, 1, n) \o SubSeq(s, n + 1, Len(s)) = s
<1>1. Len(s) \in Nat /\ \A i \in 1 .. Len(s) : s[i] \in S
  BY LenProperties, ElementOfSeq
<1>2. SubSeq(s, 1, n) \in Seq(S) /\ Len(SubSeq(s, 1, n)) = n
  BY <1>1, SubSeqProperties
<1>3. SubSeq(s, n + 1, Len(s)) \in Seq(S) /\ Len(SubSeq(s, n + 1, Len(s))) = Len(s) - n
  BY <1>1, SubSeqProperties
<1>4. SubSeq(s, 1, n) \o SubSeq(s, n + 1, Len(s)) = SubSeq(s, 1, Len(s))
  BY <1>1, ConcatAdjacentSubSeq
<1>5. SubSeq(s, 1, Len(s)) = s
  BY SubSeqFull
<1> QED
  BY <1>2, <1>3, <1>4, <1>5

LEMMA Joined ==
  ASSUME NEW s \in Seq(Token), NEW t \in Seq(Token)
  PROVE  /\ s \o t \in Seq(Token) /\ Len(s) \in Nat /\ Len(t) \in Nat
         /\ Len(s \o t) = Len(s) + Len(t)
         /\ \A i \in 1 .. Len(s) : (s \o t)[i] = s[i]
         /\ \A i \in 1 .. Len(t) : (s \o t)[Len(s) + i] = t[i]
<1>1. Len(s) \in Nat /\ Len(t) \in Nat
  BY LenProperties
<1>2. /\ s \o t \in Seq(Token) /\ Len(s \o t) = Len(s) + Len(t)
      /\ \A i \in 1 .. Len(s) + Len(t) :
           (s \o t)[i] = IF i <= Len(s) THEN s[i] ELSE t[i - Len(s)]
  BY ConcatProperties
<1>3. ASSUME NEW i \in 1 .. Len(t) PROVE (s \o t)[Len(s) + i] = t[i]
  <2>1. Len(s) + i \in 1 .. Len(s) + Len(t) /\ ~(Len(s) + i <= Len(s)) /\ (Len(s) + i) - Len(s) = i
    BY <1>1
  <2> QED
    BY <1>2, <2>1
<1>4. \A i \in 1 .. Len(s) : (s \o t)[i] = s[i]
  BY <1>1, <1>2
<1> QED
  BY <1>1, <1>2, <1>3, <1>4

LEMMA JoinAssociative ==
  ASSUME NEW s \in Seq(Token), NEW t \in Seq(Token), NEW u \in Seq(Token)
  PROVE  (s \o t) \o u = s \o (t \o u)
BY ConcatAssociative

\* What Write may write.
LEMMA Writes ==
  ASSUME NEW t \in BoundedSeq(Token, 3)
  PROVE  t \in Seq(Token)
<1>1. PICK m \in 0 .. 3 : t \in [1 .. m -> Token]
  BY DEF BoundedSeq, SeqOf
<1> QED
  BY <1>1

LEMMA MinOfTwo ==
  ASSUME NEW a \in Nat \ {0}, NEW b \in Nat \ {0}
  PROVE  Min({a, b}) \in 1 .. a /\ Min({a, b}) <= b
BY DEF Min

-----------------------------------------------------------------------------
(* Types: the line never outgrows buf.                                     *)

\* buf is full only when fgets() has returned.
LineRoom == pc = "fgets" => Len(line) < MAX_JSON_BUFFER - 1

\* Between two calls of fgets() there is no line.
LineEmpty == pc \notin {"fgets", "command"} => line = <<>>

TypeInv == TypeOK /\ LineRoom /\ LineEmpty

LEMMA Copied ==
  ASSUME TypeInv, Copy
  PROVE  /\ line' \in Seq(Token) /\ Len(line') < MAX_JSON_BUFFER
         /\ buffered' \in Seq(Token) /\ Len(buffered') <= BUFSIZ
         /\ line' \o buffered' = line \o buffered
         /\ pc' \in {"fgets", "command"}
         /\ pc' = "fgets" => Len(line') < MAX_JSON_BUFFER - 1
<1> USE DEF TypeInv
<1>1. PICK n \in 1 .. Len(buffered) :
        /\ Copies(n, MAX_JSON_BUFFER - 1 - Len(line))
        /\ line' = line \o SubSeq(buffered, 1, n)
        /\ buffered' = SubSeq(buffered, n + 1, Len(buffered))
  BY DEF Copy
<1> DEFINE copied == SubSeq(buffered, 1, n)
           rest == SubSeq(buffered, n + 1, Len(buffered))
<1>2. /\ copied \in Seq(Token) /\ Len(copied) = n
      /\ rest \in Seq(Token) /\ Len(rest) = Len(buffered) - n
      /\ copied \o rest = buffered
  BY CutInTwo DEF TypeOK
<1>3. line \in Seq(Token) /\ Len(line) \in Nat /\ Len(buffered) \in Nat /\ Len(buffered) <= BUFSIZ
  BY LenProperties DEF TypeOK
<1>4. n <= MAX_JSON_BUFFER - 1 - Len(line)
  BY <1>1 DEF Copies
<1> HIDE DEF copied, rest
<1>5. line \o copied \in Seq(Token) /\ Len(line \o copied) = Len(line) + n
  BY <1>2, <1>3, Joined
<1>6. (line \o copied) \o rest = line \o (copied \o rest)
  <2>1. line \in Seq(Token) /\ copied \in Seq(Token) /\ rest \in Seq(Token)
    BY <1>2, <1>3
  <2> QED
    BY <2>1, JoinAssociative
<1>7. line' = line \o copied /\ buffered' = rest
  BY <1>1 DEF copied, rest
<1>8. pc' = IF Last(line') = "nl" \/ Len(line') = MAX_JSON_BUFFER - 1 THEN "command" ELSE "fgets"
  BY DEF Copy
<1>9. line' \o buffered' = line \o buffered
  BY <1>2, <1>6, <1>7
<1>10. Len(line') = Len(line) + n /\ Len(buffered') = Len(buffered) - n
  BY <1>2, <1>5, <1>7
<1>11. line' \in Seq(Token) /\ buffered' \in Seq(Token)
  BY <1>2, <1>5, <1>7
<1>12. /\ Len(line') < MAX_JSON_BUFFER /\ Len(buffered') <= BUFSIZ
       /\ Len(line') # MAX_JSON_BUFFER - 1 => Len(line') < MAX_JSON_BUFFER - 1
  BY <1>3, <1>4, <1>10
<1> QED
  BY <1>8, <1>9, <1>11, <1>12

LEMMA Filled ==
  ASSUME TypeOK, Fill
  PROVE  /\ buffered' \in Seq(Token) /\ Len(buffered') <= BUFSIZ
         /\ pipe' \in Seq(Token)
         /\ buffered' \o pipe' = pipe
<1> DEFINE n == Min({Len(pipe), BUFSIZ})
<1>1. pipe \in Seq(Token) /\ Len(pipe) \in Nat \ {0}
  BY EmptySeq DEF TypeOK, Fill
<1>2. n \in 1 .. Len(pipe) /\ n <= BUFSIZ
  BY <1>1, MinOfTwo
<1>3. buffered' = SubSeq(pipe, 1, n) /\ pipe' = SubSeq(pipe, n + 1, Len(pipe))
  BY DEF Fill
<1> HIDE DEF n
<1> QED
  BY <1>1, <1>2, <1>3, CutInTwo

LEMMA TypeInitial == Init => TypeInv
<1> SUFFICES ASSUME Init PROVE TypeInv
  OBVIOUS
<1>1. <<>> \in Seq(Token) /\ Len(<<>>) = 0
  BY EmptySeq
<1>2. pc = "while" /\ running \in BOOLEAN /\ closed \in BOOLEAN /\ cause = "none"
  BY DEF Init
<1>3. line = <<>> /\ buffered = <<>> /\ pipe = <<>> /\ written = <<>> /\ handled = <<>>
  BY DEF Init
<1>4. /\ line \in Seq(Token) /\ Len(line) < MAX_JSON_BUFFER
      /\ buffered \in Seq(Token) /\ Len(buffered) <= BUFSIZ
      /\ pipe \in Seq(Token) /\ handled \in Seq(Token)
      /\ written \in Seq(Token) /\ Len(written) <= MaxWritten
  BY <1>1, <1>3
<1> QED
  BY <1>2, <1>3, <1>4 DEF TypeInv, TypeOK, LineRoom, LineEmpty

LEMMA TypePreserved == TypeInv /\ [Next]_vars => TypeInv'
<1> SUFFICES ASSUME TypeInv, [Next]_vars PROVE TypeInv'
  OBVIOUS
<1> USE DEF TypeInv, TypeOK, LineRoom, LineEmpty
<1>1. <<>> \in Seq(Token) /\ Len(<<>>) = 0
  BY EmptySeq
<1>2. CASE LoopTest
  BY <1>2 DEF LoopTest, stdio, controller, history
<1>3. CASE SelectReady
  BY <1>1, <1>3 DEF SelectReady, stdio, controller, history
<1>4. CASE SelectQuiet
  BY <1>4 DEF SelectQuiet, stdio, controller, history
<1>5. CASE Fill
  BY <1>5, Filled DEF Fill, history
<1>6. CASE Copy
  <2>1. UNCHANGED <<running, pipe, closed, written, handled, cause>>
    BY <1>6 DEF Copy, controller, history
  <2> QED
    BY <1>6, <2>1, Copied
<1>7. CASE Eof
  BY <1>7 DEF Eof, Halt, stdio, controller
<1>8. CASE process_json
  <2>1. handled' = handled \o line /\ handled' \in Seq(Token)
    BY <1>8, Joined DEF process_json
  <2>2. running' \in BOOLEAN /\ cause' \in {"none", "stop", "eof", "signal"}
    BY <1>8 DEF process_json, Halt
  <2>3. pc' = "while" /\ line' = <<>> /\ UNCHANGED <<buffered, pipe, closed, written>>
    BY <1>8 DEF process_json, controller
  <2> QED
    BY <1>1, <2>1, <2>2, <2>3
<1>9. CASE Write
  <2>1. PICK t \in BoundedSeq(Token, 3) :
          /\ Len(written) + Len(t) <= MaxWritten
          /\ pipe' = pipe \o t /\ written' = written \o t
    BY <1>9 DEF Write
  <2>2. pipe' \in Seq(Token) /\ written' \in Seq(Token) /\ Len(written') <= MaxWritten
    BY <2>1, Writes, Joined
  <2>3. UNCHANGED <<pc, running, stdio, closed, history>>
    BY <1>9 DEF Write
  <2> QED
    BY <2>2, <2>3 DEF stdio, history
<1>10. CASE CloseStdin
  BY <1>10 DEF CloseStdin, stdio, history
<1>11. CASE Signal
  BY <1>11 DEF Signal, Halt, stdio, controller
<1>12. CASE UNCHANGED vars
  BY <1>12 DEF vars, stdio, controller, history
<1> QED
  BY <1>2, <1>3, <1>4, <1>5, <1>6, <1>7, <1>8, <1>9, <1>10, <1>11, <1>12 DEF Next, Server, Terminated

LEMMA TypeInvariant == Spec => []TypeInv
BY TypeInitial, TypePreserved, PTL DEF Spec

\* The line fgets() collects, with its NUL, never outgrows buf, and stdio
\* keeps to its buffer, for every size of both (line 486).
THEOREM LineFitsBuffer == Spec => []TypeOK
<1>1. TypeInv => TypeOK
  BY DEF TypeInv
<1> QED
  BY <1>1, TypeInvariant, PTL

-----------------------------------------------------------------------------
(* Nothing is lost.                                                        *)

LEMMA OrderPreserved == TypeInv /\ InOrder /\ [Next]_vars => InOrder'
<1> SUFFICES ASSUME TypeInv, InOrder, [Next]_vars PROVE InOrder'
  OBVIOUS
<1>1. /\ handled \in Seq(Token) /\ line \in Seq(Token) /\ buffered \in Seq(Token)
      /\ pipe \in Seq(Token) /\ written \in Seq(Token) /\ <<>> \in Seq(Token)
  BY EmptySeq DEF TypeInv, TypeOK
<1>2. CASE UNCHANGED <<handled, line, buffered, pipe, written>>
  BY <1>2 DEF InOrder
<1>3. CASE Fill
  <2> DEFINE front == handled \o line
  <2>1. buffered = <<>> /\ UNCHANGED <<handled, line, written>>
    BY <1>3 DEF Fill, history
  <2>2. buffered' \in Seq(Token) /\ pipe' \in Seq(Token) /\ buffered' \o pipe' = pipe
    BY <1>3, Filled DEF TypeInv
  <2>3. front \in Seq(Token)
    BY <1>1, ConcatProperties
  <2> HIDE DEF front
  <2>4. (front \o buffered') \o pipe' = front \o (buffered' \o pipe')
    <3>1. front \in Seq(Token) /\ buffered' \in Seq(Token) /\ pipe' \in Seq(Token)
      BY <2>2, <2>3
    <3> QED
      BY <3>1, JoinAssociative
  <2>5. front \o <<>> = front
    BY <2>3, ConcatEmptySeq
  <2> QED
    BY <2>1, <2>2, <2>4, <2>5 DEF InOrder, front
<1>4. CASE Copy
  <2> DEFINE read == line \o buffered
  <2>1. UNCHANGED <<handled, pipe, written>>
    BY <1>4 DEF Copy, controller, history
  <2>2. line' \in Seq(Token) /\ buffered' \in Seq(Token) /\ line' \o buffered' = read
    BY <1>4, Copied
  <2> HIDE DEF read
  <2>3. handled \in Seq(Token) /\ line' \in Seq(Token) /\ buffered' \in Seq(Token)
    BY <1>1, <2>2
  <2>4. (handled \o line') \o buffered' = handled \o (line' \o buffered')
    BY <2>3, JoinAssociative
  <2>5. (handled \o line) \o buffered = handled \o (line \o buffered)
    <3>1. handled \in Seq(Token) /\ line \in Seq(Token) /\ buffered \in Seq(Token)
      BY <1>1
    <3> QED
      BY <3>1, JoinAssociative
  <2>6. (handled \o line') \o buffered' = (handled \o line) \o buffered
    BY <2>2, <2>4, <2>5 DEF read
  <2> QED
    BY <2>1, <2>6 DEF InOrder
<1>5. CASE process_json
  <2>1. handled' = handled \o line /\ line' = <<>> /\ UNCHANGED <<buffered, pipe, written>>
    BY <1>5 DEF process_json, controller
  <2>2. (handled \o line) \o <<>> = handled \o line
    BY <1>1, ConcatProperties, ConcatEmptySeq
  <2> QED
    BY <2>1, <2>2 DEF InOrder
<1>6. CASE Write
  <2>1. PICK t \in BoundedSeq(Token, 3) : pipe' = pipe \o t /\ written' = written \o t
    BY <1>6 DEF Write
  <2>2. UNCHANGED <<handled, line, buffered>>
    BY <1>6 DEF Write, stdio, history
  <2>3. t \in Seq(Token) /\ handled \o line \o buffered \in Seq(Token)
    BY <1>1, Writes, ConcatProperties
  <2> DEFINE front == handled \o line \o buffered
  <2> HIDE DEF front
  <2>4. front \o (pipe \o t) = (front \o pipe) \o t
    <3>1. front \in Seq(Token) /\ pipe \in Seq(Token) /\ t \in Seq(Token)
      BY <1>1, <2>3 DEF front
    <3> QED
      BY <3>1, JoinAssociative
  <2> QED
    BY <2>1, <2>2, <2>4 DEF InOrder, front
<1> QED
  BY <1>2, <1>3, <1>4, <1>5, <1>6
  DEF Next, Server, Terminated, LoopTest, SelectReady, SelectQuiet, Eof, CloseStdin, Signal,
      vars, stdio, controller, history

LEMMA OrderInvariant == Spec => []InOrder
<1>1. Init => InOrder
  BY EmptySeq, ConcatEmptySeq DEF Init, InOrder
<1> QED
  BY <1>1, OrderPreserved, TypeInvariant, PTL DEF Spec

\* However writes are cut and buffers filled, process_json gets what was
\* written, in order, once (lines 485-487).
THEOREM NothingLostOnTheWay == Spec => []InOrder
BY OrderInvariant

\* Once the end was seen there is nothing left on the way, and nothing comes.
EofIsLast ==
  cause = "eof" => closed /\ line = <<>> /\ buffered = <<>> /\ pipe = <<>>

LEMMA EofInvariant == Spec => []EofIsLast
<1>1. Init => EofIsLast
  BY DEF Init, EofIsLast
<1>2. TypeInv /\ EofIsLast /\ [Next]_vars => EofIsLast'
  <2> SUFFICES ASSUME TypeInv, EofIsLast, [Next]_vars, cause' = "eof"
               PROVE  closed' /\ line' = <<>> /\ buffered' = <<>> /\ pipe' = <<>>
    BY DEF EofIsLast
  <2>1. CASE Copy
    <3>1. cause = "eof"
      BY <2>1 DEF Copy, history
    <3>2. Len(buffered) = 0
      BY <3>1, EmptySeq DEF EofIsLast
    <3> QED
      BY <2>1, <3>2 DEF Copy
  <2>2. CASE Fill
    BY <2>2 DEF Fill, history, EofIsLast
  <2>3. CASE Eof
    BY <2>3 DEF Eof, AtEof, Halt, EofIsLast, stdio, controller
  <2>4. CASE process_json
    BY <2>4 DEF process_json, Halt, EofIsLast, controller
  <2>5. CASE Write
    BY <2>5 DEF Write, EofIsLast, history
  <2>6. CASE CloseStdin
    BY <2>6 DEF CloseStdin, EofIsLast, stdio, history
  <2>7. CASE Signal
    BY <2>7 DEF Signal, Halt, EofIsLast, stdio, controller
  <2>8. CASE UNCHANGED <<stdio, controller, history>>
    BY <2>8 DEF EofIsLast, stdio, controller, history
  <2> QED
    BY <2>1, <2>2, <2>3, <2>4, <2>5, <2>6, <2>7, <2>8
    DEF Next, Server, Terminated, LoopTest, SelectReady, SelectQuiet, vars
<1> QED
  BY <1>1, <1>2, TypeInvariant, PTL DEF Spec

\* The end of stdin stops the server only after all the controller wrote was
\* handled, an unfinished last line too (lines 486-493).
THEOREM AllHandledAtEof == Spec => []EofHandlesAll
<1>1. TypeInv /\ InOrder /\ EofIsLast => EofHandlesAll
  <2> SUFFICES ASSUME TypeInv, InOrder, EofIsLast, cause = "eof" PROVE handled = written
    BY DEF EofHandlesAll
  <2>1. handled \in Seq(Token) /\ handled \o <<>> \o <<>> \o <<>> = written
    BY DEF TypeInv, TypeOK, InOrder, EofIsLast
  <2>2. handled \o <<>> = handled
    BY <2>1, ConcatEmptySeq
  <2> QED
    BY <2>1, <2>2
<1> QED
  BY <1>1, TypeInvariant, OrderInvariant, EofInvariant, PTL

-----------------------------------------------------------------------------
(* Where the lines begin.                                                  *)

\* What fgets() has collected holds no newline but at its end, and when it
\* returns there is a reason.
LineCut ==
  /\ pc = "fgets" => \A i \in 1 .. Len(line) : line[i] # "nl"
  /\ pc = "command" =>
       /\ line # <<>>
       /\ \A i \in 1 .. Len(line) - 1 : line[i] # "nl"
       /\ \/ line[Len(line)] = "nl"
          \/ Len(line) = MAX_JSON_BUFFER - 1
          \/ closed /\ buffered = <<>> /\ pipe = <<>>

\* What process_json gets next begins a line.
AtStart == Len(handled) = 0 \/ written[Len(handled)] = "nl"

\* The last line fills buf and has no end yet: with one token more it does
\* not fit.
Full ==
  \E k \in 1 .. Len(written) :
    /\ Begins(k) /\ k + MAX_JSON_BUFFER - 2 = Len(written)
    /\ \A n \in k .. Len(written) : written[n] # "nl"

Begun ==
  LinesFit => \/ AtStart
              \/ line = <<>> /\ buffered = <<>> /\ pipe = <<>> /\ (closed \/ Full)

LEMMA CutInvariant == Spec => []LineCut
<1>1. Init => LineCut
  BY DEF Init, LineCut
<1>2. TypeInv /\ LineCut /\ [Next]_vars => LineCut'
  <2> SUFFICES ASSUME TypeInv, LineCut, [Next]_vars PROVE LineCut'
    OBVIOUS
  <2>1. line \in Seq(Token) /\ Len(line) \in Nat /\ buffered \in Seq(Token) /\ Len(buffered) \in Nat
    BY LenProperties DEF TypeInv, TypeOK
  <2>2. CASE Copy
    <3>1. PICK n \in 1 .. Len(buffered) :
            /\ Copies(n, MAX_JSON_BUFFER - 1 - Len(line))
            /\ line' = line \o SubSeq(buffered, 1, n)
      BY <2>2 DEF Copy
    <3> DEFINE copied == SubSeq(buffered, 1, n)
    <3>2. /\ copied \in Seq(Token) /\ Len(copied) = n
          /\ \A i \in 1 .. n : copied[i] = buffered[i]
      <4>1. \A i \in 1 .. n : copied[i] = buffered[i]
        BY <2>1
      <4> QED
        BY <2>1, <4>1, CutInTwo
    <3>3. \A i \in 1 .. n - 1 : buffered[i] # "nl"
      BY <3>1 DEF Copies
    <3> HIDE DEF copied
    <3>4. /\ Len(line \o copied) = Len(line) + Len(copied)
          /\ \A i \in 1 .. Len(line) : (line \o copied)[i] = line[i]
          /\ \A i \in 1 .. Len(copied) : (line \o copied)[Len(line) + i] = copied[i]
      <4>1. line \in Seq(Token) /\ copied \in Seq(Token)
        BY <2>1, <3>2
      <4> QED
        BY <4>1, Joined
    <3>5. line' = line \o copied
      BY <3>1 DEF copied
    <3>6. \A i \in 1 .. Len(line) : line[i] # "nl"
      BY <2>2 DEF Copy, LineCut
    <3>7. Len(line') = Len(line) + n
      BY <3>2, <3>4, <3>5
    <3>8. \A i \in 1 .. Len(line') - 1 : line'[i] # "nl"
      <4> TAKE i \in 1 .. Len(line') - 1
      <4>1. CASE i <= Len(line)
        <5>1. i \in 1 .. Len(line)
          BY <2>1, <3>7, <4>1
        <5> QED
          BY <3>4, <3>5, <3>6, <5>1
      <4>2. CASE i > Len(line)
        <5> DEFINE j == i - Len(line)
        <5>1. j \in 1 .. n - 1 /\ j \in 1 .. n /\ Len(line) + j = i
          BY <2>1, <3>7, <4>2
        <5> HIDE DEF j
        <5>2. line'[i] = copied[j]
          BY <3>2, <3>4, <3>5, <5>1
        <5> QED
          BY <3>2, <3>3, <5>1, <5>2
      <4> QED
        BY <2>1, <3>7, <4>1, <4>2
    <3>9. Len(line') # 0
      BY <2>1, <3>7
    <3>10. pc' = IF line'[Len(line')] = "nl" \/ Len(line') = MAX_JSON_BUFFER - 1 THEN "command" ELSE "fgets"
      BY <2>2 DEF Copy, Last
    <3>11. line' # <<>>
      BY <3>9, EmptySeq
    <3>12. pc' = "fgets" => \A i \in 1 .. Len(line') : line'[i] # "nl"
      BY <2>1, <3>7, <3>8, <3>10
    <3> QED
      BY <3>8, <3>10, <3>11, <3>12 DEF LineCut
  <2>3. CASE SelectReady
    <3>1. line' = <<>> /\ pc' = "fgets"
      BY <2>3 DEF SelectReady, stdio, TypeInv, LineEmpty
    <3> QED
      BY <3>1, EmptySeq DEF LineCut
  <2>4. CASE Eof
    <3>1. pc' \in {"command", "while"} /\ (pc' = "command" => line # <<>>)
      BY <2>4 DEF Eof
    <3>2. line' = line /\ closed' /\ buffered' = <<>> /\ pipe' = <<>>
      BY <2>4 DEF Eof, AtEof, stdio, controller
    <3>3. \A i \in 1 .. Len(line) : line[i] # "nl"
      BY <2>4 DEF Eof, LineCut
    <3> QED
      BY <2>1, <3>1, <3>2, <3>3 DEF LineCut
  <2>5. CASE LoopTest \/ SelectQuiet \/ process_json
    BY <2>5 DEF LoopTest, SelectQuiet, process_json, LineCut
  <2>6. CASE Fill
    BY <2>6 DEF Fill, LineCut
  <2>7. CASE Write
    BY <2>7 DEF Write, stdio, LineCut
  <2>8. CASE CloseStdin
    BY <2>8 DEF CloseStdin, stdio, LineCut
  <2>9. CASE UNCHANGED <<pc, stdio, controller>>
    BY <2>9 DEF stdio, controller, LineCut
  <2> QED
    BY <2>2, <2>3, <2>4, <2>5, <2>6, <2>7, <2>8, <2>9
    DEF Next, Server, Terminated, Signal, vars
<1> QED
  BY <1>1, <1>2, TypeInvariant, PTL DEF Spec

\* Where the line is found in what was written.
LEMMA LineInWritten ==
  ASSUME TypeInv, InOrder
  PROVE  /\ Len(handled) \in Nat /\ Len(line) \in Nat /\ Len(buffered) \in Nat /\ Len(pipe) \in Nat
         /\ Len(written) = Len(handled) + Len(line) + Len(buffered) + Len(pipe)
         /\ DOMAIN written = 1 .. Len(written)
         /\ \A i \in 1 .. Len(line) : written[Len(handled) + i] = line[i]
<1> DEFINE two == handled \o line
           three == two \o buffered
<1>1. /\ handled \in Seq(Token) /\ line \in Seq(Token) /\ buffered \in Seq(Token) /\ pipe \in Seq(Token)
      /\ Len(handled) \in Nat /\ Len(line) \in Nat /\ Len(buffered) \in Nat /\ Len(pipe) \in Nat
  BY LenProperties DEF TypeInv, TypeOK
<1>2. /\ two \in Seq(Token) /\ Len(two) = Len(handled) + Len(line)
      /\ \A i \in 1 .. Len(line) : two[Len(handled) + i] = line[i]
  <2>1. handled \in Seq(Token) /\ line \in Seq(Token)
    BY <1>1
  <2> QED
    BY <2>1, Joined
<1> HIDE DEF two
<1>3. /\ three \in Seq(Token) /\ Len(three) = Len(two) + Len(buffered)
      /\ \A i \in 1 .. Len(two) : three[i] = two[i]
  <2>1. two \in Seq(Token) /\ buffered \in Seq(Token)
    BY <1>1, <1>2
  <2> QED
    BY <2>1, Joined
<1> HIDE DEF three
<1>4. written = three \o pipe
  BY DEF InOrder, three, two
<1>5. /\ Len(written) = Len(three) + Len(pipe)
      /\ \A i \in 1 .. Len(three) : written[i] = three[i]
  <2>1. three \in Seq(Token) /\ pipe \in Seq(Token)
    BY <1>1, <1>3
  <2> QED
    BY <1>4, <2>1, Joined
<1>6. Len(written) = Len(handled) + Len(line) + Len(buffered) + Len(pipe)
  BY <1>1, <1>2, <1>3, <1>5
<1>7. ASSUME NEW i \in 1 .. Len(line) PROVE written[Len(handled) + i] = line[i]
  <2>1. Len(handled) + i \in 1 .. Len(two) /\ Len(handled) + i \in 1 .. Len(three)
    BY <1>1, <1>2, <1>3
  <2> QED
    BY <1>2, <1>3, <1>5, <2>1
<1>8. DOMAIN written = 1 .. Len(written)
  BY LenProperties DEF TypeInv, TypeOK
<1> QED
  BY <1>1, <1>6, <1>7, <1>8

\* What is written more leaves what was written, and does not shorten a line.
LEMMA Grown ==
  ASSUME TypeInv, InOrder, Write
  PROVE  /\ Len(written) \in Nat /\ Len(written') \in Nat /\ Len(written') > Len(written)
         /\ DOMAIN written = 1 .. Len(written) /\ DOMAIN written' = 1 .. Len(written')
         /\ \A i \in 1 .. Len(written) : written'[i] = written[i]
<1>1. PICK t \in BoundedSeq(Token, 3) : t # <<>> /\ written' = written \o t
  BY DEF Write
<1>2. t \in Seq(Token) /\ Len(t) \in Nat \ {0} /\ written \in Seq(Token) /\ Len(written) \in Nat
  BY <1>1, Writes, EmptySeq, LenProperties DEF TypeInv, TypeOK
<1>3. /\ written \o t \in Seq(Token) /\ Len(written \o t) = Len(written) + Len(t)
      /\ \A i \in 1 .. Len(written) : (written \o t)[i] = written[i]
  <2>1. written \in Seq(Token) /\ t \in Seq(Token)
    BY <1>2
  <2> QED
    BY <2>1, Joined
<1>4. written' \in Seq(Token) /\ Len(written') = Len(written) + Len(t)
  BY <1>1, <1>3
<1>5. DOMAIN written = 1 .. Len(written) /\ DOMAIN written' = 1 .. Len(written')
  BY <1>2, <1>4, LenProperties
<1>6. \A i \in 1 .. Len(written) : written'[i] = written[i]
  BY <1>1, <1>3
<1> QED
  BY <1>2, <1>4, <1>5, <1>6

LEMMA FitBefore ==
  ASSUME TypeInv, InOrder, Write, LinesFit'
  PROVE  LinesFit
<1> SUFFICES ASSUME NEW k \in DOMAIN written, Begins(k)
             PROVE  \/ \E n \in k .. k + MAX_JSON_BUFFER - 2 : n \in DOMAIN written /\ written[n] = "nl"
                    \/ Len(written) - k < MAX_JSON_BUFFER - 1
  BY DEF LinesFit
<1>1. /\ Len(written) \in Nat /\ Len(written') \in Nat /\ Len(written') > Len(written)
      /\ DOMAIN written = 1 .. Len(written) /\ DOMAIN written' = 1 .. Len(written')
      /\ \A i \in 1 .. Len(written) : written'[i] = written[i]
  BY Grown
<1>2. k \in DOMAIN written' /\ Begins(k)'
  BY <1>1 DEF Begins
<1>3. \/ \E n \in k .. k + MAX_JSON_BUFFER - 2 : n \in DOMAIN written' /\ written'[n] = "nl"
      \/ Len(written') - k < MAX_JSON_BUFFER - 1
  BY <1>2 DEF LinesFit
<1>4. CASE Len(written') - k < MAX_JSON_BUFFER - 1
  BY <1>1, <1>4
<1>5. ASSUME NEW n \in k .. k + MAX_JSON_BUFFER - 2, n \in DOMAIN written', written'[n] = "nl"
      PROVE  \/ n \in DOMAIN written /\ written[n] = "nl"
             \/ Len(written) - k < MAX_JSON_BUFFER - 1
  BY <1>1, <1>5
<1> QED
  BY <1>3, <1>4, <1>5

\* A line that fills buf and has no end cannot go on and fit.
LEMMA FullMayNotGrow ==
  ASSUME TypeInv, InOrder, Write, Full
  PROVE  ~LinesFit'
<1>1. /\ Len(written) \in Nat /\ Len(written') \in Nat /\ Len(written') > Len(written)
      /\ DOMAIN written = 1 .. Len(written) /\ DOMAIN written' = 1 .. Len(written')
      /\ \A i \in 1 .. Len(written) : written'[i] = written[i]
  BY Grown
<1>2. PICK k \in 1 .. Len(written) :
        /\ Begins(k) /\ k + MAX_JSON_BUFFER - 2 = Len(written)
        /\ \A n \in k .. Len(written) : written[n] # "nl"
  BY DEF Full
<1>3. k \in DOMAIN written' /\ Begins(k)'
  BY <1>1, <1>2 DEF Begins
<1>4. ~(Len(written') - k < MAX_JSON_BUFFER - 1)
  BY <1>1, <1>2
<1>5. \A n \in k .. k + MAX_JSON_BUFFER - 2 : written'[n] # "nl"
  BY <1>1, <1>2
<1> QED
  BY <1>3, <1>4, <1>5 DEF LinesFit

\* After a line was handled the next one begins, or there is none.
LEMMA NextBegins ==
  ASSUME TypeInv, InOrder, LineCut, Begun, process_json, LinesFit'
  PROVE  Begun'
<1> DEFINE h == Len(handled)
           l == Len(line)
<1>1. /\ h \in Nat /\ l \in Nat /\ Len(buffered) \in Nat /\ Len(pipe) \in Nat
      /\ Len(written) = h + l + Len(buffered) + Len(pipe)
      /\ DOMAIN written = 1 .. Len(written)
      /\ \A i \in 1 .. l : written[h + i] = line[i]
  BY LineInWritten
<1>2. handled' = handled \o line /\ line' = <<>> /\ UNCHANGED <<buffered, pipe, closed, written>>
  BY DEF process_json, controller
<1>3. Len(handled') = h + l
  BY <1>2, ConcatProperties DEF TypeInv, TypeOK
<1>4. LinesFit
  BY <1>2 DEF LinesFit, Begins
<1>5. /\ line # <<>> /\ l # 0
      /\ \A i \in 1 .. l - 1 : line[i] # "nl"
      /\ \/ line[l] = "nl"
         \/ l = MAX_JSON_BUFFER - 1
         \/ closed /\ buffered = <<>> /\ pipe = <<>>
  BY EmptySeq DEF process_json, LineCut, TypeInv, TypeOK
<1> HIDE DEF h, l
<1>6. CASE line[l] = "nl"
  <2>1. written'[Len(handled')] = "nl"
    BY <1>1, <1>2, <1>3, <1>5, <1>6
  <2> QED
    BY <2>1 DEF Begun, AtStart
<1>7. CASE closed /\ buffered = <<>> /\ pipe = <<>>
  BY <1>2, <1>7 DEF Begun
<1>8. CASE l = MAX_JSON_BUFFER - 1 /\ line[l] # "nl"
  <2> DEFINE k == h + 1
  <2>1. AtStart
    BY <1>4, <1>5 DEF Begun
  <2>2. k \in DOMAIN written /\ k \in Int
    BY <1>1, <1>5
  <2>3. Begins(k)
    <3>1. k = 1 \/ written[k - 1] = "nl"
      BY <1>1, <2>1 DEF AtStart, h
    <3> QED
      BY <2>2, <3>1 DEF Begins
  <2>4. \A n \in k .. k + MAX_JSON_BUFFER - 2 : written[n] # "nl"
    <3> TAKE n \in k .. k + MAX_JSON_BUFFER - 2
    <3>1. n - h \in 1 .. l /\ h + (n - h) = n
      BY <1>1, <1>8
    <3>2. written[n] = line[n - h]
      BY <1>1, <3>1
    <3>3. line[n - h] # "nl"
      <4> DEFINE i == n - h
      <4> HIDE DEF i
      <4>1. i \in 1 .. l
        BY <3>1 DEF i
      <4>2. i = l \/ i \in 1 .. l - 1
        BY <1>1, <4>1
      <4>3. line[i] # "nl"
        BY <1>5, <1>8, <4>2
      <4> QED
        BY <4>3 DEF i
    <3> QED
      BY <3>2, <3>3
  <2>5. Len(written) - k < MAX_JSON_BUFFER - 1
    BY <1>4, <2>2, <2>3, <2>4 DEF LinesFit
  <2>6. /\ Len(buffered) = 0 /\ Len(pipe) = 0
        /\ k + MAX_JSON_BUFFER - 2 = Len(written)
    BY <1>1, <1>8, <2>5
  <2>7. buffered = <<>> /\ pipe = <<>>
    BY <2>6, EmptySeq DEF TypeInv, TypeOK
  <2>8. Full
    BY <1>1, <2>2, <2>3, <2>4, <2>6 DEF Full
  <2>9. Full'
    BY <1>2, <2>8 DEF Full, Begins
  <2> QED
    BY <1>2, <2>7, <2>9 DEF Begun
<1> QED
  BY <1>5, <1>6, <1>7, <1>8

LEMMA BegunInvariant == Spec => []Begun
<1>1. Init => Begun
  BY EmptySeq DEF Init, Begun, AtStart
<1>2. TypeInv /\ InOrder /\ LineCut /\ Begun /\ [Next]_vars => Begun'
  <2> SUFFICES ASSUME TypeInv, InOrder, LineCut, Begun, [Next]_vars, LinesFit' PROVE Begun'
    BY DEF Begun
  <2>1. CASE process_json
    BY <2>1, NextBegins
  <2>2. CASE Write
    <3>1. LinesFit /\ ~Full
      BY <2>2, FitBefore, FullMayNotGrow
    <3>2. AtStart
      BY <2>2, <3>1 DEF Write, Begun
    <3>3. Len(handled) \in Nat /\ Len(handled) <= Len(written)
      BY LineInWritten
    <3>4. handled' = handled /\ \A i \in 1 .. Len(written) : written'[i] = written[i]
      BY <2>2, Grown DEF Write, history
    <3>5. AtStart'
      BY <3>2, <3>3, <3>4 DEF AtStart
    <3> QED
      BY <3>5 DEF Begun
  <2>3. CASE UNCHANGED <<handled, written>>
    <3>1. LinesFit
      BY <2>3 DEF LinesFit, Begins
    <3>2. CASE AtStart
      BY <2>3, <3>2 DEF Begun, AtStart
    <3>3. CASE line = <<>> /\ buffered = <<>> /\ pipe = <<>> /\ (closed \/ Full)
      <4>1. Full => Full'
        BY <2>3 DEF Full, Begins
      <4>2. ~Fill /\ ~Copy
        BY <3>3, EmptySeq DEF Fill, Copy
      <4>3. UNCHANGED <<line, buffered>> \/ process_json \/ Write
        BY <4>2 DEF Next, Server, Terminated, LoopTest, SelectReady, SelectQuiet, Eof,
                    CloseStdin, Signal, vars, stdio
      <4>4. UNCHANGED pipe \/ Write
        BY <4>2 DEF Next, Server, Terminated, LoopTest, SelectReady, SelectQuiet, Eof,
                    process_json, CloseStdin, Signal, vars, controller
      <4>5. closed => closed'
        BY DEF Next, Server, Terminated, LoopTest, SelectReady, SelectQuiet, Fill, Copy, Eof,
               process_json, Write, CloseStdin, Signal, vars, controller
      <4> QED
        BY <2>1, <2>2, <3>3, <4>1, <4>3, <4>4, <4>5 DEF Begun
    <3> QED
      BY <3>1, <3>2, <3>3 DEF Begun
  <2> QED
    BY <2>1, <2>2, <2>3
    DEF Next, Server, Terminated, LoopTest, SelectReady, SelectQuiet, Fill, Copy, Eof,
        CloseStdin, Signal, vars, controller, history
<1> QED
  BY <1>1, <1>2, TypeInvariant, OrderInvariant, CutInvariant, PTL DEF Spec

\* A stop is never made up from the middle of another line: when all lines fit
\* in buf, a process that stopped on a command was sent a line that is a stop,
\* however the writes were cut and the buffers filled (lines 185-191, 486-487).
THEOREM NoStopMadeUp == Spec => []NoPhantomStop
<1>1. Init => NoPhantomStop
  BY DEF Init, NoPhantomStop
<1>2. TypeInv /\ InOrder /\ LineCut /\ Begun /\ NoPhantomStop /\ [Next]_vars => NoPhantomStop'
  <2> SUFFICES ASSUME TypeInv, InOrder, LineCut, Begun, NoPhantomStop, [Next]_vars,
                      cause' = "stop", LinesFit'
               PROVE  \E k \in DOMAIN written' : Begins(k)' /\ written'[k] = "stop"
    BY DEF NoPhantomStop
  <2>1. CASE process_json /\ cause # "stop"
    <3>1. IsStop(line) /\ UNCHANGED written
      BY <2>1 DEF process_json, Halt, controller
    <3>2. LinesFit
      BY <3>1 DEF LinesFit, Begins
    <3>3. line # <<>> /\ line[1] = "stop" /\ Len(line) # 0
      BY <3>1, EmptySeq DEF IsStop, TypeInv, TypeOK
    <3>4. AtStart
      BY <3>2, <3>3 DEF Begun
    <3> DEFINE k == Len(handled) + 1
    <3>5. /\ Len(handled) \in Nat /\ Len(line) \in Nat /\ Len(written) \in Nat
          /\ Len(written) >= Len(handled) + Len(line) /\ DOMAIN written = 1 .. Len(written)
          /\ \A i \in 1 .. Len(line) : written[Len(handled) + i] = line[i]
      BY LineInWritten
    <3>6. k \in DOMAIN written /\ written[k] = "stop"
      BY <3>3, <3>5
    <3>7. k = 1 \/ written[k - 1] = "nl"
      BY <3>4, <3>5 DEF AtStart
    <3> QED
      BY <3>1, <3>6, <3>7 DEF Begins
  <2>2. CASE cause = "stop" /\ UNCHANGED written
    BY <2>2 DEF NoPhantomStop, LinesFit, Begins
  <2>3. CASE Write
    <3>1. cause = "stop" /\ LinesFit
      BY <2>3, FitBefore DEF Write, history
    <3>2. PICK k \in DOMAIN written : Begins(k) /\ written[k] = "stop"
      BY <3>1 DEF NoPhantomStop
    <3>3. /\ Len(written) \in Nat /\ Len(written') \in Nat /\ Len(written') > Len(written)
          /\ DOMAIN written = 1 .. Len(written) /\ DOMAIN written' = 1 .. Len(written')
          /\ \A i \in 1 .. Len(written) : written'[i] = written[i]
      BY <2>3, Grown
    <3>4. k \in DOMAIN written' /\ Begins(k)' /\ written'[k] = "stop"
      BY <3>2, <3>3 DEF Begins
    <3> QED
      BY <3>4
  <2>4. UNCHANGED written \/ Write
    BY DEF Next, Server, Terminated, LoopTest, SelectReady, SelectQuiet, Fill, Copy, Eof,
           process_json, CloseStdin, Signal, vars, controller
  <2>5. cause = "stop" \/ process_json \/ Write
    BY DEF Next, Server, Terminated, LoopTest, SelectReady, SelectQuiet, Fill, Copy, Eof,
           CloseStdin, Signal, Halt, vars, history
  <2> QED
    BY <2>1, <2>2, <2>3, <2>4, <2>5
<1> QED
  BY <1>1, <1>2, TypeInvariant, OrderInvariant, CutInvariant, BegunInvariant, PTL DEF Spec
=============================================================================
