--------------------------- MODULE ModbusServerInv --------------------------
(***************************************************************************)
(* The inductive invariant of ModbusServer: what has to be true between    *)
(* any two steps for the loop to own exactly the descriptors it thinks it  *)
(* owns and for select()'s answer to be still good when it is used.        *)
(***************************************************************************)
EXTENDS ModbusServer

\* The client loop's index is 0 until the loop starts: LoopTest resets it and
\* nothing in between touches it.
IndexReset ==
  pc \in {"select", "stdin", "init", "init_rtu", "init_mapping", "cleanup", "accept"}
    => i = 0

\* The kernel: stdin is open, there is one listener at most, a master has one
\* connection at most, either queued once or accepted once.
Kernel ==
  /\ file[STDIN_FILENO] = "stdin"
  /\ \A f, g \in Fd : file[f] = "listener" /\ file[g] = "listener" => f = g
  /\ \A f, g \in Fd : file[f] \in Client /\ file[f] = file[g] => f = g
  /\ \A k, l \in DOMAIN backlog : backlog[k] = backlog[l] => k = l
  /\ \A k \in DOMAIN backlog, f \in Fd : file[f] # backlog[k]

\* What the program's handles stand for.  Zero is what a slot holds before
\* the first successful listen.
Handles ==
  /\ tcp_listen_sock # NoFd => file[tcp_listen_sock] = "listener"
  /\ ctx_rtu # NoFd => file[ctx_rtu] = "serial"
  /\ \A s \in Slot : tcp_conn_socks[s] \in {0, NoFd} \/ file[tcp_conn_socks[s]] \in Client

\* Used slots and accepted connections correspond one to one, and are counted.
SlotsExact ==
  /\ \A s \in UsedSlots : file[tcp_conn_socks[s]] \in Client
  /\ \A s, t \in UsedSlots : tcp_conn_socks[s] = tcp_conn_socks[t] => s = t
  /\ \A f \in Fd : file[f] \in Client => \E s \in UsedSlots : tcp_conn_socks[s] = f
  /\ tcp_conn_count = Cardinality(UsedSlots)

\* Connections exist only while the server is initialised, and from the end
\* of the TCP start-up on the table is exact.
Pool ==
  /\ enable_tcp /\ (mb_mapping \/ pc \in {"init_rtu", "init_mapping"}) => SlotsExact
  /\ ~mb_mapping \/ ~enable_tcp => \A f \in Fd : file[f] \notin Client

\* Where in the loop the server is known to be initialised, or not to be.
Stage ==
  /\ pc \in {"cleanup", "accept"} /\ server_state = "running" => mb_mapping
  /\ pc \in {"clients", "rtu", "reconnect"} => mb_mapping
  /\ pc \in {"init_rtu", "init_mapping", "crashed"} => ~mb_mapping
  /\ pc = "clients" => enable_tcp
  /\ server_state = "stopped" => ~running

StillReadable(f) ==
  /\ file[f] # "free"
  /\ file[f] = "listener" => backlog # <<>>
  /\ file[f] \in Client => inbox[file[f]] # "none"

\* select()'s answer holds until it is used: up to accept for the listener
\* and every connection, and for the slots the client loop has not reached.
AnswerHolds ==
  /\ \/ pc \in {"stdin", "init", "init_rtu", "init_mapping", "cleanup"}
     \/ pc = "accept" /\ server_state = "running"
     => \A f \in fds : StillReadable(f)
  /\ pc = "clients" =>
       \A s \in UsedSlots :
         s >= i /\ tcp_conn_socks[s] \in fds => inbox[file[tcp_conn_socks[s]]] # "none"
  /\ pc # "blocked"

\* So does the answer for the serial line, up to the read of it.
LineHolds ==
  /\ pc \in {"stdin", "init", "init_rtu", "init_mapping", "cleanup", "accept", "clients", "rtu"}
  /\ ctx_rtu # NoFd /\ ctx_rtu \in fds
  => hangup \/ serial_in

IInv ==
  TypeOK /\ IndexReset /\ Kernel /\ Handles /\ Pool /\ Stage /\ AnswerHolds /\ LineHolds

=============================================================================
