----------------------------- MODULE StdinChannel -----------------------------
(***************************************************************************)
(* The command channel of json-modbus-server.c: select() watches the pipe, *)
(* fgets() reads it through the buffer of stdio, and process_json() gets   *)
(* what fgets() returned.  ModbusServer sees a command as one event; here  *)
(* is what lies between the bytes a controller writes and that event.      *)
(*                                                                         *)
(* A token stands for bytes that stay together: "stop" for the object      *)
(* {"cmd":"stop"}, "nl" for the newline, "text" for anything else.         *)
(***************************************************************************)
EXTENDS Integers, Sequences, SequencesExt

CONSTANTS
  MAX_JSON_BUFFER,  \* size of buf: fgets() takes one less, room for the NUL
  BUFSIZ,           \* size of the buffer of stdio
  MaxWritten        \* bound: tokens the controller writes

ASSUME BufferAssumption == MAX_JSON_BUFFER \in Nat \ {0, 1}
ASSUME StdioAssumption == BUFSIZ \in Nat \ {0}
ASSUME WrittenAssumption == MaxWritten \in Nat

Token == {"stop", "text", "nl"}

VARIABLES
  pc,        \* "while", "select", "fgets", "command" or "exited"
  running,   \* while(running)
  line,      \* buf: what fgets() has copied so far
  buffered,  \* read from the pipe by stdio and not yet copied
  pipe,      \* in the pipe
  closed,    \* the controller closed its end
  written,   \* history: all the controller wrote
  handled,   \* history: what process_json() was given, end to end
  cause      \* history: what cleared running first

controller == <<pipe, closed, written>>
stdio      == <<line, buffered>>
history    == <<handled, cause>>
vars       == <<pc, running, stdio, controller, history>>

Init ==
  /\ pc = "while"
  /\ running = TRUE
  /\ line = <<>> /\ buffered = <<>> /\ pipe = <<>>
  /\ closed = FALSE
  /\ written = <<>> /\ handled = <<>>
  /\ cause = "none"

-----------------------------------------------------------------------------
(* main()                                                                  *)

Halt(why) ==
  /\ running' = FALSE
  /\ cause' = IF running THEN why ELSE cause

\* Mutant of LoopTest: while(1).
LoopTest_Forever ==
  /\ pc = "while"
  /\ pc' = "select"
  /\ UNCHANGED <<running, stdio, controller, history>>

LoopTest ==
  /\ pc = "while"
  /\ pc' = IF running THEN "select" ELSE "exited"
  /\ UNCHANGED <<running, stdio, controller, history>>

\* What select() looks at is the pipe; it knows nothing of the buffer.
Readable == pipe # <<>> \/ closed

SelectReady ==
  /\ pc = "select" /\ Readable
  /\ pc' = "fgets"
  /\ UNCHANGED <<running, stdio, controller, history>>

\* The timeout, or EINTR.
SelectQuiet ==
  /\ pc = "select" /\ (~Readable \/ ~running)
  /\ pc' = "while"
  /\ UNCHANGED <<running, stdio, controller, history>>

\* fgets() finds the buffer empty and fills it.  The read waits while the
\* pipe is empty and open: signal() restarts it, so a signal does not end it.
Fill ==
  /\ pc = "fgets"
  /\ buffered = <<>> /\ pipe # <<>>
  /\ LET n == Min({Len(pipe), BUFSIZ})
     IN  /\ buffered' = SubSeq(pipe, 1, n)
         /\ pipe' = SubSeq(pipe, n + 1, Len(pipe))
  /\ UNCHANGED <<pc, running, line, closed, written, history>>

\* How many tokens fgets() copies from the buffer: up to a newline, the end
\* of the buffer or the end of the line's room, whichever is first.
Copies(n, room) ==
  /\ n \in 1 .. Len(buffered)
  /\ n <= room
  /\ \A k \in 1 .. n - 1 : buffered[k] # "nl"
  /\ buffered[n] = "nl" \/ n = Len(buffered) \/ n = room

\* Mutants of Copy: no room is kept for the NUL; what the buffer holds is
\* taken for a line; what follows the line is thrown away.
Copy_NoRoomForNul ==
  /\ pc = "fgets"
  /\ \E n \in 1 .. Len(buffered) :
       /\ Copies(n, MAX_JSON_BUFFER - Len(line))
       /\ line' = line \o SubSeq(buffered, 1, n)
       /\ buffered' = SubSeq(buffered, n + 1, Len(buffered))
  /\ pc' = IF Last(line') = "nl" \/ Len(line') = MAX_JSON_BUFFER
           THEN "command" ELSE "fgets"
  /\ UNCHANGED <<running, controller, history>>
Copy_AsRead ==
  /\ pc = "fgets"
  /\ \E n \in 1 .. Len(buffered) :
       /\ Copies(n, MAX_JSON_BUFFER - 1 - Len(line))
       /\ line' = line \o SubSeq(buffered, 1, n)
       /\ buffered' = SubSeq(buffered, n + 1, Len(buffered))
  /\ pc' = "command"
  /\ UNCHANGED <<running, controller, history>>
Copy_Discards ==
  /\ pc = "fgets"
  /\ \E n \in 1 .. Len(buffered) :
       /\ Copies(n, MAX_JSON_BUFFER - 1 - Len(line))
       /\ line' = line \o SubSeq(buffered, 1, n)
  /\ buffered' = <<>>
  /\ pc' = IF Last(line') = "nl" \/ Len(line') = MAX_JSON_BUFFER - 1
           THEN "command" ELSE "fgets"
  /\ UNCHANGED <<running, controller, history>>

\* fgets() copies, and returns when the line is complete or full.
Copy ==
  /\ pc = "fgets"
  /\ \E n \in 1 .. Len(buffered) :
       /\ Copies(n, MAX_JSON_BUFFER - 1 - Len(line))
       /\ line' = line \o SubSeq(buffered, 1, n)
       /\ buffered' = SubSeq(buffered, n + 1, Len(buffered))
  /\ pc' = IF Last(line') = "nl" \/ Len(line') = MAX_JSON_BUFFER - 1
           THEN "command" ELSE "fgets"
  /\ UNCHANGED <<running, controller, history>>

AtEof == buffered = <<>> /\ pipe = <<>> /\ closed

\* Mutants of Eof: an unfinished last line is lost; the end is not a stop.
Eof_DropsLine ==
  /\ pc = "fgets" /\ AtEof
  /\ Halt("eof") /\ pc' = "while"
  /\ line' = <<>>
  /\ UNCHANGED <<buffered, controller, handled>>
Eof_Ignored ==
  /\ pc = "fgets" /\ AtEof
  /\ pc' = IF line # <<>> THEN "command" ELSE "while"
  /\ UNCHANGED <<running, stdio, controller, history>>

\* At the end of file fgets() returns an unfinished line first, then NULL,
\* which the loop takes for a stop.
Eof ==
  /\ pc = "fgets" /\ AtEof
  /\ IF line # <<>>
     THEN pc' = "command" /\ UNCHANGED <<running, cause>>
     ELSE Halt("eof") /\ pc' = "while"
  /\ UNCHANGED <<stdio, controller, handled>>

\* cJSON_Parse reads the first value of the string and ignores what follows.
IsStop(l) == l # <<>> /\ Head(l) = "stop"

process_json ==
  /\ pc = "command"
  /\ IF IsStop(line) THEN Halt("stop") ELSE UNCHANGED <<running, cause>>
  /\ handled' = handled \o line
  /\ line' = <<>>
  /\ pc' = "while"
  /\ UNCHANGED <<buffered, controller>>

-----------------------------------------------------------------------------
(* The environment.                                                        *)

Alive == pc # "exited"

\* One write(): whatever it holds arrives in the pipe at once.
Write ==
  /\ Alive /\ ~closed
  /\ \E t \in BoundedSeq(Token, 3) :
       /\ t # <<>>
       /\ Len(written) + Len(t) <= MaxWritten
       /\ pipe' = pipe \o t
       /\ written' = written \o t
  /\ UNCHANGED <<pc, running, stdio, closed, history>>

CloseStdin ==
  /\ Alive /\ ~closed
  /\ closed' = TRUE
  /\ UNCHANGED <<pc, running, stdio, pipe, written, history>>

\* signal_handler
Signal ==
  /\ Alive /\ running
  /\ Halt("signal")
  /\ UNCHANGED <<pc, stdio, controller, handled>>

-----------------------------------------------------------------------------

Server ==
  \/ LoopTest \/ SelectReady \/ SelectQuiet
  \/ Fill \/ Copy \/ Eof \/ process_json

Terminated == ~Alive /\ UNCHANGED vars

\* In fgets() with nothing to read: the process waits for the controller,
\* which may never write again.
Waiting == pc = "fgets" /\ buffered = <<>> /\ pipe = <<>> /\ ~closed

Next == Server \/ Write \/ CloseStdin \/ Signal \/ Terminated

Spec == Init /\ [][Next]_vars

\* The process runs; the controller has no duty.
FairSpec == Spec /\ WF_vars(Server)

-----------------------------------------------------------------------------
(* Safety.                                                                 *)

TypeOK ==
  /\ pc \in {"while", "select", "fgets", "command", "exited"}
  /\ running \in BOOLEAN /\ closed \in BOOLEAN
  /\ line \in Seq(Token) /\ Len(line) < MAX_JSON_BUFFER
  /\ buffered \in Seq(Token) /\ Len(buffered) <= BUFSIZ
  /\ pipe \in Seq(Token)
  /\ written \in Seq(Token) /\ Len(written) <= MaxWritten
  /\ handled \in Seq(Token)
  /\ cause \in {"none", "stop", "eof", "signal"}

\* Nothing is lost, doubled or reordered between the controller and
\* process_json: what was handled and what is on its way make up, in order,
\* what was written (fgets and the buffer it shares with select, 485-487).
InOrder == handled \o line \o buffered \o pipe = written

\* Where a line begins in what the controller wrote.
Begins(k) ==
  k \in DOMAIN written /\ (k = 1 \/ written[k - 1] = "nl")

\* Every line the controller wrote fits in buf.
LinesFit ==
  \A k \in DOMAIN written :
    Begins(k) => \/ \E n \in k .. k + MAX_JSON_BUFFER - 2 :
                      n \in DOMAIN written /\ written[n] = "nl"
                 \/ Len(written) - k < MAX_JSON_BUFFER - 1

\* A stop is never made up from the middle of another line, however the
\* writes were cut: if all lines fit, a process that stopped on a command was
\* sent a line that is a stop (fgets and process_json, 486-487, 185-191).
NoPhantomStop ==
  cause = "stop" /\ LinesFit => \E k \in DOMAIN written : Begins(k) /\ written[k] = "stop"

\* The end of stdin stops the server only after everything the controller
\* wrote was handled, an unfinished last line too (lines 486-493).
EofHandlesAll == cause = "eof" => handled = written

-----------------------------------------------------------------------------
(* Liveness: the process runs.                                             *)

\* A controller that goes away takes the server with it, whatever it left
\* in the pipe (lines 489-493).
CloseEnds == closed ~> pc = "exited"

\* A signal ends the server, unless the loop waits for the rest of a line
\* for good (lines 155-161, 440, 486).
SignalEnds == <>[]Waiting \/ (~running ~> pc = "exited")

StopWritten ==
  \E k, n \in DOMAIN written :
    /\ Begins(k) /\ written[k] = "stop"
    /\ k <= n /\ written[n] = "nl"

\* A complete stop command stops the server.
\* (BUILD.md:144-147, "### Stop Server": {"cmd": "stop"})
StopObeyed == StopWritten /\ LinesFit ~> pc = "exited"

=============================================================================
