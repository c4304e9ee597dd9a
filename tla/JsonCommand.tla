------------------------------ MODULE JsonCommand ------------------------------
(***************************************************************************)
(* src/src/json/json_command.c: the commands of the modular server.  Its   *)
(* data path is that of the main program written a second time, with the   *)
(* address taken as the index; RegisterBank, with a range that starts at 0,*)
(* is what it has to implement.                                            *)
(***************************************************************************)
EXTENDS Integers

CONSTANTS Base, nb_registers, Addresses, Values    \* as in RegisterBank

ASSUME CommandAssumption ==
  /\ Base \in Nat \ {0, 1} /\ Base % 2 = 0 /\ nb_registers \in Nat \ {0}
  /\ Addresses \subseteq Int /\ Values \subseteq Int

VARIABLES
  mapping,        \* backend->mapping is allocated
  tab_registers,  \* its registers, and the word after them
  request,        \* the line json_command_process() works on
  reply,          \* what it printed last
  state,          \* *state == STATE_RUNNING
  running         \* *running

commandVars == <<mapping, tab_registers, request, reply, state, running>>

Command == {"stop", "start", "status"}
NoRequest == [kind |-> "none"]

Bank == INSTANCE RegisterBank WITH
  holding_regs_start <- 0, nb_holding_regs <- nb_registers,
  reply <- IF reply = "index_out_of_bounds" THEN "address_out_of_range" ELSE reply

CommandInit ==
  /\ mapping = FALSE
  /\ tab_registers = [c \in Bank!Cell |-> 0]
  /\ request = NoRequest
  /\ reply = "none"
  /\ state = FALSE
  /\ running = TRUE

Receives ==
  /\ request = NoRequest
  /\ request' \in Bank!Request \cup {[kind |-> c] : c \in Command}
  /\ reply' = "none"
  /\ UNCHANGED <<mapping, tab_registers, state, running>>

\* main.c and the loop that is missing: state is set, the mapping allocated.
Starts ==
  /\ request = NoRequest
  /\ mapping' \in {mapping, TRUE}
  /\ state' \in {state, TRUE}
  /\ reply' = "none"
  /\ UNCHANGED <<tab_registers, request, running>>

-----------------------------------------------------------------------------
(* byte_order.c                                                            *)

parse_byte_order(s) ==
  CASE s = "BE" -> "ORDER_BE" [] s = "SWAP" -> "ORDER_SWAP" [] OTHER -> "ORDER_LE"

swap(word) == word \div Base + (word % Base) * Base

\* Mutant of write_registers: a swap also exchanges the words.
write_registers_SwapsWords(idx, words, order) ==
  LET swapped == IF order = "ORDER_SWAP" THEN [i \in 1 .. 2 |-> swap(words[i])] ELSE words
      out == IF order # "ORDER_LE" THEN <<swapped[2], swapped[1]>> ELSE swapped
  IN  [c \in Bank!Cell |-> IF c - idx \in 0 .. 1 THEN out[c - idx + 1] ELSE tab_registers[c]]

write_registers(idx, words, order) ==
  LET swapped == IF order = "ORDER_SWAP" THEN [i \in 1 .. 2 |-> swap(words[i])] ELSE words
      out == IF order = "ORDER_BE" THEN <<swapped[2], swapped[1]>> ELSE swapped
  IN  [c \in Bank!Cell |-> IF c - idx \in 0 .. 1 THEN out[c - idx + 1] ELSE tab_registers[c]]

-----------------------------------------------------------------------------
(* json_command.c                                                          *)

\* The registers after an update whose fields and index passed.
Written(req, idx) ==
  LET bo == parse_byte_order(req.byte_order)
      v  == Bank!valueint(req.value) % Bank!Words
      u  == (IF req.datatype = "float" THEN req.value ELSE Bank!valueint(req.value)) % Bank!DWords
  IN  IF req.kind # "number" THEN tab_registers
      ELSE CASE req.datatype \in {"uint16", "int16"} ->
                  [tab_registers EXCEPT ![idx] = IF bo = "ORDER_SWAP" THEN swap(v) ELSE v]
             [] req.datatype \in {"uint32", "int32", "float"} ->
                  write_registers(idx, <<u % Bank!Words, u \div Bank!Words>>, bo)
             [] OTHER -> tab_registers

\* Mutant of json_command_update_data: only the index is tested.
json_command_update_data_NoMapping ==
  LET idx == Bank!valueint(request.address)
  IN  /\ IF request.kind # "incomplete" /\ 0 <= idx /\ idx < nb_registers
         THEN reply' = "updated" /\ tab_registers' = Written(request, idx)
         ELSE UNCHANGED <<tab_registers, reply>>
      /\ UNCHANGED <<mapping, state, running>>

\* Without a field, or without a mapping, nothing is printed.
json_command_update_data ==
  LET idx == Bank!valueint(request.address)
  IN  /\ \/ /\ request.kind = "incomplete" \/ ~mapping
            /\ UNCHANGED <<tab_registers, reply>>
         \/ /\ request.kind # "incomplete" /\ mapping
            /\ idx < 0 \/ idx >= nb_registers
            /\ reply' = "index_out_of_bounds"
            /\ UNCHANGED tab_registers
         \/ /\ request.kind # "incomplete" /\ mapping
            /\ 0 <= idx /\ idx < nb_registers
            /\ reply' = "updated"
            /\ tab_registers' = Written(request, idx)
      /\ UNCHANGED <<mapping, state, running>>

Obeys(cmd) ==
  /\ state' = CASE cmd = "stop" -> FALSE [] cmd = "start" -> TRUE [] OTHER -> state
  /\ running' = (running /\ cmd # "stop")
  /\ reply' = CASE cmd = "stop" -> "stopping"
                [] cmd = "start" -> IF state THEN "already_running" ELSE "starting"
                [] OTHER -> IF state THEN "running" ELSE "stopped"
  /\ UNCHANGED <<mapping, tab_registers>>

json_command_process ==
  /\ request # NoRequest
  /\ IF request.kind \in Command THEN Obeys(request.kind) ELSE json_command_update_data
  /\ request' = NoRequest

CommandNext == Receives \/ Starts \/ json_command_process

CommandSpec == CommandInit /\ [][CommandNext]_commandVars

-----------------------------------------------------------------------------
\* The second copy of the data path is still the first: with a mapping, an
\* update does what main() does with it when its range starts at 0, every
\* register and the kind of answer (json-modbus-server.c:209-257,
\* json_command.c:56-123, byte_order.c:5-28).
UpdatesLikeMain ==
  [][json_command_process /\ mapping /\ request.kind \notin Command
     => Bank!process_json]_commandVars

\* Without a mapping an update is dropped, where main() would crash; no order
\* of commands, updates and start-up makes it write before (json_command.c:78).
NothingBeforeMapping ==
  ~mapping => reply # "updated" /\ \A c \in Bank!Cell : tab_registers[c] = 0

=============================================================================
