------------------------------ MODULE MCModular ------------------------------
(* The modular server for TLC.  Its parts share nothing but the backend    *)
(* object, so each is worked on its own, as `part' says: the two readers   *)
(* on files that vary the mode and one more key from the shipped one, the  *)
(* adapters, and the commands with a byte of two values.                   *)
EXTENDS Config, ModbusBackend, JsonCommand

VARIABLE part

MCAddresses == -1 .. 2
MCValues == {-2, 1, 6, 8}

num(n) == [kind |-> "number", int |-> n]
str(t) == [kind |-> "string", text |-> t]
other  == [kind |-> "other"]
True   == [kind |-> "true"]

\* Where "tcp" and "rtu" end: none, "tcp", "rtu", "tcp_rtu", and names in
\* which the second word ends at or after the end of mode[].
Modes == {Absent, other} \cup
  {[kind |-> "string", tcp |-> m[1], rtu |-> m[2]] :
     m \in {<<0, 0>>, <<3, 0>>, <<0, 3>>, <<3, 7>>, <<3, 15>>, <<3, 16>>, <<16, 3>>}}

Ranges == {Absent, other} \cup
  {[kind |-> "object", start |-> s, count |-> c] : s, c \in {Absent, num(40), other}} \cup
  {[kind |-> "array", items |-> i] : i \in {<<>>, <<num(4)>>, <<num(4), num(9)>>, <<other, True>>}}

Areas == {"coils", "input_bits", "holding_registers", "input_registers"}

Serial == [kind |-> "object", device |-> Absent, baudrate |-> Absent,
           parity |-> Absent, data_bits |-> Absent, stop_bits |-> Absent]

Serials == {Absent, other}
  \cup {[Serial EXCEPT !.device = str(n)] : n \in {4, 62, 63, 80}}
  \cup {[Serial EXCEPT !.baudrate = num(19200), !.parity = p] : p \in {str("E"), other}}
  \cup {[Serial EXCEPT !.data_bits = num(7), !.stop_bits = b] : b \in {num(2), other}}

Shipped == [state |-> "ok", mode |-> [kind |-> "string", tcp |-> 3, rtu |-> 0],
            tcp_port |-> num(1502), unit_id |-> Absent, serial |-> Absent,
            coils |-> [kind |-> "object", start |-> num(0), count |-> num(10)],
            input_bits |-> Absent, input_registers |-> Absent,
            holding_registers |-> [kind |-> "array", items |-> <<num(0), num(100)>>]]

MCFile == {[Shipped EXCEPT !.state = s] : s \in {"missing", "malformed"}} \cup
  UNION {LET base == [Shipped EXCEPT !.mode = m]
         IN  {[base EXCEPT ![a] = r] : a \in Areas, r \in Ranges}
             \cup {[base EXCEPT !.serial = s] : s \in Serials}
             \cup {[base EXCEPT ![k] = v] : k \in {"tcp_port", "unit_id"}, v \in {Absent, num(7), other}}
         : m \in Modes}

vars == <<part, configVars, backendVars, commandVars>>

Init ==
  /\ part \in {"settings", "adapters", "commands"}
  /\ ConfigInit /\ (part # "settings" => settings = Shipped /\ memory = 0)
  /\ BackendInit /\ (part # "adapters" => ~plugged /\ linked = "rtu_adapter")
  /\ CommandInit

Reads    == part = "settings" /\ ConfigNext /\ UNCHANGED <<part, backendVars, commandVars>>
Adapts   == part = "adapters" /\ BackendNext /\ UNCHANGED <<part, configVars, commandVars>>
Commands == part = "commands" /\ CommandNext /\ UNCHANGED <<part, configVars, backendVars>>

Next == Reads \/ Adapts \/ Commands

Spec == Init /\ [][Next]_vars
=============================================================================
