---------------------------- MODULE ModbusService ---------------------------
(***************************************************************************)
(* What the server promises to its masters and to its controller, without  *)
(* descriptors, slots or a select loop: it starts, serves at most Capacity *)
(* masters at a time, and ends once, dropping everybody.                   *)
(***************************************************************************)
EXTENDS Naturals, FiniteSets

CONSTANTS Client, Capacity   \* a finite set, a positive number

VARIABLES
  phase,            \* "starting", "serving" or "ended"
  clients           \* the masters being served

Init == phase = "starting" /\ clients = {}

Start ==
  /\ phase = "starting"
  /\ phase' = "serving"
  /\ UNCHANGED clients

Admit(c) ==
  /\ phase = "serving"
  /\ c \notin clients
  /\ Cardinality(clients) < Capacity
  /\ clients' = clients \cup {c}
  /\ UNCHANGED phase

Drop(c) ==
  /\ phase = "serving"
  /\ c \in clients
  /\ clients' = clients \ {c}
  /\ UNCHANGED phase

\* A stop, a signal or a fatal error, before or after the start.
End ==
  /\ phase # "ended"
  /\ phase' = "ended"
  /\ clients' = {}

Next == Start \/ End \/ \E c \in Client : Admit(c) \/ Drop(c)

Spec == Init /\ [][Next]_<<phase, clients>>

=============================================================================
