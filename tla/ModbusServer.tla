---------------------------- MODULE ModbusServer ----------------------------
(***************************************************************************)
(* The event loop of json-modbus-server.c: main(), its signal handler, and *)
(* the kernel objects the loop works on.  One thread runs the loop; the    *)
(* signal handler interrupts it between any two steps; masters, the serial *)
(* line and the controller on stdin act on their own.                      *)
(*                                                                         *)
(* A descriptor is a number that the kernel reuses: `file' says what each  *)
(* number stands for now, the program only holds numbers.                  *)
(***************************************************************************)
EXTENDS Integers, FiniteSets, Sequences, FiniteSetsExt

CONSTANTS
  Client,           \* Modbus/TCP masters, each with at most one connection
  Fd,               \* the descriptor numbers the process may hold
  MAX_TCP_CLIENTS,  \* size of the slot table
  Backlog,          \* connections the listener queues (modbus_tcp_listen)
  enable_tcp,       \* the two transports, as load_config set them
  enable_rtu,
  Faults            \* which external calls may fail, beyond what the state
                    \* of the kernel already makes fail

STDIN_FILENO == 0
NoFd == -1
Slot == 0 .. MAX_TCP_CLIENTS - 1

FaultKind ==
  {"select", "new_tcp", "listen", "new_rtu", "mapping", "accept", "accept_closes"}

ASSUME ClientAssumption ==
  /\ IsFiniteSet(Client)
  /\ Client \cap {"free", "stdin", "listener", "serial"} = {}
ASSUME FdAssumption == IsFiniteSet(Fd) /\ Fd \subseteq Nat /\ STDIN_FILENO \in Fd
ASSUME SlotAssumption == MAX_TCP_CLIENTS \in Nat \ {0}
ASSUME BacklogAssumption == Backlog \in Nat \ {0}
ASSUME ModeAssumption == enable_tcp \in BOOLEAN /\ enable_rtu \in BOOLEAN
ASSUME FaultsAssumption == Faults \subseteq FaultKind

VARIABLES
  pc,               \* the next statement of main()
  i,                \* the slot the client loop is at
  fds,              \* the fd_set select() left: what was readable
  server_state,     \* "running" or "stopped"
  running,          \* while(running)
  mb_mapping,       \* TRUE when the register mapping is allocated
  ctx_tcp,          \* TRUE when the TCP context is allocated
  tcp_listen_sock,
  tcp_conn_socks,
  tcp_conn_count,
  ctx_rtu,          \* descriptor of the connected RTU context, NoFd for NULL
  file,             \* kernel: what each descriptor number stands for
  backlog,          \* kernel: connections the listener holds
  inbox,            \* kernel: what a read on the client's connection finds
  plugged,          \* the serial adapter is present
  hangup,           \* it was unplugged since ctx_rtu was connected
  serial_in,        \* bytes wait on the serial line
  stdin             \* kernel: what waits on stdin (below)

program == <<pc, i, fds, server_state, running, mb_mapping, ctx_tcp,
             tcp_listen_sock, tcp_conn_socks, tcp_conn_count, ctx_rtu>>
pool    == <<tcp_conn_socks, tcp_conn_count>>
tcp     == <<ctx_tcp, tcp_listen_sock, pool>>
control == <<server_state, running>>
net     == <<file, backlog, inbox>>
serial  == <<plugged, hangup, serial_in>>
vars    == <<program, net, serial, stdin>>

-----------------------------------------------------------------------------
(* Descriptors.                                                            *)

OpenFds == {f \in Fd : file[f] # "free"}

\* The kernel hands out the lowest number that is free.
LowestFree(f) ==
  /\ f \in Fd \ OpenFds
  /\ \A g \in Fd \ OpenFds : f <= g

\* Connected clients, as the kernel sees them.
Connected == {c \in Client : \E f \in Fd : file[f] = c}
Queued == {backlog[k] : k \in DOMAIN backlog}

\* What the program believes it owns.
TcpFds ==
  IF enable_tcp
  THEN ({tcp_listen_sock} \cup {tcp_conn_socks[s] : s \in Slot}) \ {NoFd}
  ELSE {}
RtuFds == IF enable_rtu THEN {ctx_rtu} \ {NoFd} ELSE {}

\* close() of every descriptor in S: its connection is gone, and with the
\* listener go the connections it had queued.
Close(S) ==
  LET gone == {c \in Client : \E f \in S : file[f] = c}
              \cup (IF \E f \in S : file[f] = "listener" THEN Queued ELSE {})
  IN  /\ file' = [f \in Fd |-> IF f \in S THEN "free" ELSE file[f]]
      /\ inbox' = [c \in Client |-> IF c \in gone THEN "none" ELSE inbox[c]]
      /\ backlog' = IF \E f \in S : file[f] = "listener" THEN <<>> ELSE backlog

\* What fgets() finds: nothing, a line without its newline yet, a line, a line
\* with the end of file behind it (its newline may be missing), or the end.
StdinState == {"quiet", "part", "line", "last", "eof"}

-----------------------------------------------------------------------------
(* Initial state: the globals of the file.  tcp_conn_socks has no          *)
(* initialiser, so every slot holds 0, the number of stdin.                *)

Init ==
  /\ pc = "while"
  /\ i = 0
  /\ fds = {}
  /\ server_state = "running"
  /\ running = TRUE
  /\ mb_mapping = FALSE
  /\ ctx_tcp = FALSE
  /\ tcp_listen_sock = NoFd
  /\ tcp_conn_socks = [s \in Slot |-> 0]
  /\ tcp_conn_count = 0
  /\ ctx_rtu = NoFd
  /\ file = [f \in Fd |-> IF f = STDIN_FILENO THEN "stdin" ELSE "free"]
  /\ backlog = <<>>
  /\ inbox = [c \in Client |-> "none"]
  /\ plugged \in BOOLEAN
  /\ hangup = FALSE
  /\ serial_in = FALSE
  /\ stdin = "quiet"

-----------------------------------------------------------------------------
(* The top of the loop.                                                    *)

\* while(running)
LoopTest ==
  /\ pc = "while"
  /\ pc' = IF running THEN "select" ELSE "final"
  /\ fds' = {}
  /\ i' = 0
  /\ UNCHANGED <<control, mb_mapping, tcp, ctx_rtu, net, serial, stdin>>

FdSet ==
  {STDIN_FILENO} \cup (IF server_state = "running" THEN TcpFds \cup RtuFds ELSE {})

\* Mutant of maxfd: the slots are forgotten.
maxfd_NoSlots == Max({STDIN_FILENO, tcp_listen_sock, ctx_rtu})

maxfd ==
  Max({STDIN_FILENO} \cup (IF server_state = "running" THEN TcpFds \cup RtuFds ELSE {}))

Watched == {f \in FdSet : f <= maxfd}

\* A read would not block: data, end of file, or a queued connection.
Readable(f) ==
  \/ file[f] = "stdin" /\ stdin # "quiet"
  \/ file[f] = "listener" /\ backlog # <<>>
  \/ file[f] = "serial" /\ f = ctx_rtu /\ (hangup \/ serial_in)
  \/ file[f] \in Client /\ inbox[file[f]] # "none"

\* select() returns the readable descriptors, none of them on the 100 ms
\* timeout; a closed descriptor in the set is an error (EBADF).
Select ==
  /\ pc = "select"
  /\ Watched \subseteq OpenFds
  /\ fds' = {f \in Watched : Readable(f)}
  /\ pc' = "stdin"
  /\ UNCHANGED <<i, control, mb_mapping, tcp, ctx_rtu, net, serial, stdin>>

\* ret < 0: a signal interrupted the call and the loop continues.
SelectInterrupted ==
  /\ pc = "select"
  /\ ~running
  /\ pc' = "while"
  /\ UNCHANGED <<i, fds, control, mb_mapping, tcp, ctx_rtu, net, serial, stdin>>

\* ret < 0 for any other reason: break.
SelectFails ==
  /\ pc = "select"
  /\ "select" \in Faults \/ ~(Watched \subseteq OpenFds)
  /\ pc' = "final"
  /\ UNCHANGED <<i, fds, control, mb_mapping, tcp, ctx_rtu, net, serial, stdin>>

-----------------------------------------------------------------------------
(* Commands on stdin.  "update" stands for a data update whose address     *)
(* lies in the configured range, "other" for every line that process_json  *)
(* drops or answers without touching the server.                           *)

Command == {"stop", "start", "status", "update", "other"}

\* Mutant of process_json: "start" revives a server that is shutting down.
process_json_Revives(cmd) ==
  /\ server_state' = CASE cmd = "stop"  -> "stopped"
                       [] cmd = "start" -> "running"
                       [] OTHER         -> server_state
  /\ running' = (cmd = "start" \/ (running /\ cmd # "stop"))
  /\ pc' = IF cmd = "update" /\ ~mb_mapping THEN "crashed" ELSE "init"

\* Mutant of process_json: "stop" releases the server and keeps the process.
process_json_StopKeepsRunning(cmd) ==
  /\ server_state' = CASE cmd = "stop"  -> "stopped"
                       [] cmd = "start" -> "running"
                       [] OTHER         -> server_state
  /\ pc' = IF cmd = "update" /\ ~mb_mapping THEN "crashed" ELSE "init"
  /\ UNCHANGED running

\* process_json; an update reads mb_mapping->nb_registers, so without a
\* mapping it dereferences a null pointer and the process dies.
process_json(cmd) ==
  /\ server_state' = CASE cmd = "stop"  -> "stopped"
                       [] cmd = "start" -> "running"
                       [] OTHER         -> server_state
  /\ running' = (running /\ cmd # "stop")
  /\ pc' = IF cmd = "update" /\ ~mb_mapping THEN "crashed" ELSE "init"

\* fgets() has part of a line and waits for the rest: no step of main() is
\* enabled until the controller writes it or closes.  A signal does not end
\* the wait, since signal() has the read restarted.
HeldInFgets == pc = "stdin" /\ STDIN_FILENO \in fds /\ stdin = "part"

ReadCommand ==
  /\ pc = "stdin"
  /\ STDIN_FILENO \in fds
  /\ stdin \in {"line", "last"}
  /\ stdin' = IF stdin = "last" THEN "eof" ELSE "quiet"
  /\ \E cmd \in Command : process_json(cmd)
  /\ UNCHANGED <<i, fds, mb_mapping, tcp, ctx_rtu, net, serial>>

\* fgets returned NULL: end of file is a stop request.
ReadEof ==
  /\ pc = "stdin"
  /\ STDIN_FILENO \in fds
  /\ stdin = "eof"
  /\ running' = FALSE
  /\ server_state' = "stopped"
  /\ pc' = "init"
  /\ UNCHANGED <<i, fds, mb_mapping, tcp, ctx_rtu, net, serial, stdin>>

NoCommand ==
  /\ pc = "stdin"
  /\ STDIN_FILENO \notin fds
  /\ pc' = "init"
  /\ UNCHANGED <<i, fds, control, mb_mapping, tcp, ctx_rtu, net, serial, stdin>>

-----------------------------------------------------------------------------
(* Start-up inside the loop, retried on every iteration until the mapping  *)
(* exists.  Every failure is a `continue', which keeps what the earlier    *)
(* stages opened.                                                          *)

\* Mutant of InitNeeded: start-up, too, waits for select() to report something.
InitNeeded_OnInput == server_state = "running" /\ ~mb_mapping /\ fds # {}

InitNeeded == server_state = "running" /\ ~mb_mapping

NoInit ==
  /\ pc = "init"
  /\ ~InitNeeded
  /\ pc' = "cleanup"
  /\ UNCHANGED <<i, fds, control, mb_mapping, tcp, ctx_rtu, net, serial, stdin>>

\* The port can be bound once: a listener that is still open, referenced or
\* not, makes the next bind fail (EADDRINUSE).
PortBound == \E f \in Fd : file[f] = "listener"

InitTcp ==
  /\ pc = "init"
  /\ InitNeeded
  /\ \/ /\ ~enable_tcp
        /\ pc' = "init_rtu"
        /\ UNCHANGED <<tcp, file>>
     \/ /\ enable_tcp /\ "new_tcp" \in Faults
        /\ ctx_tcp' = FALSE
        /\ pc' = "while"
        /\ UNCHANGED <<tcp_listen_sock, pool, file>>
     \/ /\ enable_tcp
        /\ PortBound \/ OpenFds = Fd \/ "listen" \in Faults
        /\ ctx_tcp' = TRUE
        /\ tcp_listen_sock' = NoFd
        /\ pc' = "while"
        /\ UNCHANGED <<pool, file>>
     \/ /\ enable_tcp /\ ~PortBound
        /\ ctx_tcp' = TRUE
        /\ \E f \in Fd : /\ LowestFree(f)
                         /\ tcp_listen_sock' = f
                         /\ file' = [file EXCEPT ![f] = "listener"]
        /\ tcp_conn_socks' = [s \in Slot |-> NoFd]
        /\ tcp_conn_count' = 0
        /\ pc' = "init_rtu"
  /\ UNCHANGED <<i, fds, control, mb_mapping, ctx_rtu, backlog, inbox, serial, stdin>>

\* modbus_new_rtu and modbus_connect.  A context is NULL again after every
\* failure; the descriptor of an earlier context is not closed here.
ConnectRtu ==
  /\ plugged
  /\ \E f \in Fd : /\ LowestFree(f)
                   /\ ctx_rtu' = f
                   /\ file' = [file EXCEPT ![f] = "serial"]
  /\ hangup' = FALSE
  /\ serial_in' = FALSE
  /\ UNCHANGED plugged

ConnectRtuFails ==
  /\ ~plugged \/ OpenFds = Fd \/ "new_rtu" \in Faults
  /\ ctx_rtu' = NoFd
  /\ UNCHANGED <<file, serial>>

InitRtu ==
  /\ pc = "init_rtu"
  /\ \/ ~enable_rtu /\ pc' = "init_mapping" /\ UNCHANGED <<ctx_rtu, file, serial>>
     \/ enable_rtu /\ ConnectRtu /\ pc' = "init_mapping"
     \/ enable_rtu /\ ConnectRtuFails /\ pc' = "while"
  /\ UNCHANGED <<i, fds, control, mb_mapping, tcp, backlog, inbox, stdin>>

InitMapping ==
  /\ pc = "init_mapping"
  /\ \/ "mapping" \in Faults /\ pc' = "while" /\ UNCHANGED mb_mapping
     \/ mb_mapping' = TRUE /\ pc' = "cleanup"
  /\ UNCHANGED <<i, fds, control, tcp, ctx_rtu, net, serial, stdin>>

-----------------------------------------------------------------------------
(* Releasing everything: on a stop, and before exit.                       *)

Release ==
  /\ Close(TcpFds \cup RtuFds)
  /\ IF enable_tcp
     THEN /\ tcp_conn_socks' = [s \in Slot |-> NoFd]
          /\ tcp_conn_count' = 0
          /\ tcp_listen_sock' = NoFd
          /\ ctx_tcp' = FALSE
     ELSE UNCHANGED tcp
  /\ ctx_rtu' = IF enable_rtu THEN NoFd ELSE ctx_rtu
  /\ mb_mapping' = FALSE

CleanupStopped ==
  /\ pc = "cleanup"
  /\ IF server_state = "stopped" /\ mb_mapping
     THEN Release
     ELSE UNCHANGED <<mb_mapping, tcp, ctx_rtu, net>>
  /\ pc' = "accept"
  /\ UNCHANGED <<i, fds, control, serial, stdin>>

\* Mutant of FinalCleanup: the mapping is not tested.
FinalCleanup_Always ==
  /\ pc = "final"
  /\ Release
  /\ pc' = "exited"
  /\ UNCHANGED <<i, fds, control, serial, stdin>>

FinalCleanup ==
  /\ pc = "final"
  /\ IF mb_mapping THEN Release ELSE UNCHANGED <<mb_mapping, tcp, ctx_rtu, net>>
  /\ pc' = "exited"
  /\ UNCHANGED <<i, fds, control, serial, stdin>>

-----------------------------------------------------------------------------
(* The listener.                                                           *)

Handling == server_state = "running" /\ fds # {}
\* Mutant of ListenerReady: accept without FD_ISSET.
ListenerReady_Always == enable_tcp /\ tcp_listen_sock # NoFd

ListenerReady == enable_tcp /\ tcp_listen_sock # NoFd /\ tcp_listen_sock \in fds

FreeSlots == {s \in Slot : tcp_conn_socks[s] = NoFd}

\* Mutant of find_free_tcp_client_slot: the first slot, free or not.
find_free_tcp_client_slot_First(slot) == slot = 0

\* slot is what the function returns: the first free one, or -1.
find_free_tcp_client_slot(slot) ==
  \/ slot = -1 /\ FreeSlots = {}
  \/ slot \in FreeSlots /\ \A t \in FreeSlots : slot <= t

SkipHandling ==
  /\ pc = "accept"
  /\ ~Handling
  /\ pc' = "while"
  /\ UNCHANGED <<i, fds, control, mb_mapping, tcp, ctx_rtu, net, serial, stdin>>

\* modbus_tcp_accept returned a descriptor for the head of the queue.
AcceptClient ==
  /\ \E slot \in Slot, f \in Fd :
       /\ find_free_tcp_client_slot(slot)
       /\ LowestFree(f)
       /\ file' = [file EXCEPT ![f] = Head(backlog)]
       /\ tcp_conn_socks' = [tcp_conn_socks EXCEPT ![slot] = f]
  /\ tcp_conn_count' = tcp_conn_count + 1
  /\ backlog' = Tail(backlog)
  /\ UNCHANGED <<tcp_listen_sock, inbox>>

\* Mutant of RejectClient: with no slot the connection is left in the queue.
RejectClient_Ignores ==
  /\ find_free_tcp_client_slot(-1)
  /\ OpenFds # Fd
  /\ UNCHANGED <<tcp_listen_sock, pool, net>>

\* No slot: the connection is accepted and closed at once.
RejectClient ==
  /\ find_free_tcp_client_slot(-1)
  /\ OpenFds # Fd
  /\ inbox' = [inbox EXCEPT ![Head(backlog)] = "none"]
  /\ backlog' = Tail(backlog)
  /\ UNCHANGED <<tcp_listen_sock, pool, file>>

\* modbus_tcp_accept failed.  The listener is passed by address because some
\* versions of the library close it and store -1 in it then.
AcceptFails ==
  \/ /\ "accept" \in Faults \/ OpenFds = Fd
     /\ UNCHANGED <<tcp_listen_sock, pool, net>>
  \/ /\ "accept_closes" \in Faults
     /\ Close({tcp_listen_sock})
     /\ tcp_listen_sock' = NoFd
     /\ UNCHANGED pool

Accept ==
  /\ pc = "accept"
  /\ Handling
  /\ IF ListenerReady /\ backlog # <<>>
     THEN AcceptClient \/ RejectClient \/ AcceptFails
     ELSE UNCHANGED <<tcp_listen_sock, pool, net>>
  /\ pc' = IF ListenerReady /\ backlog = <<>> THEN "blocked"
           ELSE IF enable_tcp THEN "clients" ELSE "rtu"
  /\ UNCHANGED <<i, fds, control, mb_mapping, ctx_tcp, ctx_rtu, serial, stdin>>

-----------------------------------------------------------------------------
(* The clients, slot by slot.                                              *)

sock == tcp_conn_socks[i]

\* Mutant of NextSlot: i <= MAX_TCP_CLIENTS.
NextSlot_OneMore ==
  i' = i + 1 /\ pc' = IF i + 1 <= MAX_TCP_CLIENTS THEN "clients" ELSE "rtu"

NextSlot == i' = i + 1 /\ pc' = IF i + 1 \in Slot THEN "clients" ELSE "rtu"

\* rc > 0: the request is answered (a reply that fails is only logged).
Serve(c) ==
  /\ inbox[c] = "request"
  /\ inbox' = [inbox EXCEPT ![c] = "none"]
  /\ UNCHANGED <<file, backlog, pool>>

\* Mutants of Disconnect: the slot keeps the closed descriptor; the counter
\* is not decremented; the descriptor is not closed.
Disconnect_KeepsSlot(c) ==
  /\ inbox[c] \in {"broken", "eof"}
  /\ Close({sock})
  /\ tcp_conn_count' = tcp_conn_count - 1
  /\ UNCHANGED tcp_conn_socks
Disconnect_KeepsCount(c) ==
  /\ inbox[c] \in {"broken", "eof"}
  /\ Close({sock})
  /\ tcp_conn_socks' = [tcp_conn_socks EXCEPT ![i] = NoFd]
  /\ UNCHANGED tcp_conn_count
Disconnect_NoClose(c) ==
  /\ inbox[c] \in {"broken", "eof"}
  /\ tcp_conn_socks' = [tcp_conn_socks EXCEPT ![i] = NoFd]
  /\ tcp_conn_count' = tcp_conn_count - 1
  /\ UNCHANGED net

\* rc = -1: end of file, or a broken frame (one that stops short included).
Disconnect(c) ==
  /\ inbox[c] \in {"broken", "eof"}
  /\ Close({sock})
  /\ tcp_conn_socks' = [tcp_conn_socks EXCEPT ![i] = NoFd]
  /\ tcp_conn_count' = tcp_conn_count - 1

\* A read that finds nothing waits, and the whole loop with it.
HandleClient ==
  /\ pc = "clients"
  /\ sock # NoFd /\ sock \in fds
  /\ LET c == file[sock]
     IN  IF c \notin Client \/ inbox[c] = "none"
         THEN pc' = "blocked" /\ UNCHANGED <<i, net, pool>>
         ELSE (Serve(c) \/ Disconnect(c)) /\ NextSlot
  /\ UNCHANGED <<fds, control, mb_mapping, ctx_tcp, tcp_listen_sock, ctx_rtu, serial, stdin>>

SkipClient ==
  /\ pc = "clients"
  /\ sock = NoFd \/ sock \notin fds
  /\ NextSlot
  /\ UNCHANGED <<fds, control, mb_mapping, tcp, ctx_rtu, net, serial, stdin>>

-----------------------------------------------------------------------------
(* The serial line.                                                        *)

RtuReady == enable_rtu /\ ctx_rtu # NoFd /\ ctx_rtu \in fds

\* A request for this unit is answered, one for another unit is filtered.
ServeRtu ==
  /\ ~hangup
  /\ serial_in' = FALSE
  /\ UNCHANGED <<ctx_rtu, net, plugged, hangup>>

\* Mutant of DropRtu: freed without modbus_close.
DropRtu_NoClose ==
  /\ ctx_rtu' = NoFd
  /\ hangup' = FALSE
  /\ serial_in' = FALSE
  /\ UNCHANGED <<net, plugged>>

\* Any error but EAGAIN: close and free.
DropRtu ==
  /\ Close({ctx_rtu})
  /\ ctx_rtu' = NoFd
  /\ hangup' = FALSE
  /\ serial_in' = FALSE
  /\ UNCHANGED plugged

\* Here, too, a read that finds nothing would wait.
HandleRtu ==
  /\ pc = "rtu"
  /\ IF RtuReady /\ ~hangup /\ ~serial_in
     THEN pc' = "blocked" /\ UNCHANGED <<ctx_rtu, net, serial>>
     ELSE /\ IF RtuReady THEN ServeRtu \/ DropRtu ELSE UNCHANGED <<ctx_rtu, net, serial>>
          /\ pc' = "reconnect"
  /\ UNCHANGED <<i, fds, control, mb_mapping, tcp, stdin>>

\* Mutant of Reconnect: only while the dead descriptor still reports it.
Reconnect_OnHangup ==
  /\ pc = "reconnect"
  /\ IF enable_rtu /\ ctx_rtu = NoFd /\ server_state = "running" /\ hangup
     THEN ConnectRtu \/ ConnectRtuFails
     ELSE UNCHANGED <<ctx_rtu, file, serial>>
  /\ pc' = "while"
  /\ UNCHANGED <<i, fds, control, mb_mapping, tcp, backlog, inbox, stdin>>

\* AUTO-RECONNECT: reached only in an iteration in which select() reported
\* some descriptor.
Reconnect ==
  /\ pc = "reconnect"
  /\ IF enable_rtu /\ ctx_rtu = NoFd /\ server_state = "running"
     THEN ConnectRtu \/ ConnectRtuFails
     ELSE UNCHANGED <<ctx_rtu, file, serial>>
  /\ pc' = "while"
  /\ UNCHANGED <<i, fds, control, mb_mapping, tcp, backlog, inbox, stdin>>

-----------------------------------------------------------------------------
(* The environment.                                                        *)

Alive == pc \notin {"exited", "crashed"}

\* signal_handler
Signal ==
  /\ Alive
  /\ running \/ server_state = "running"
  /\ server_state' = "stopped"
  /\ running' = FALSE
  /\ UNCHANGED <<pc, i, fds, mb_mapping, tcp, ctx_rtu, net, serial, stdin>>

\* The controller begins a line and has not written its end.
WritePart ==
  /\ Alive /\ stdin = "quiet"
  /\ stdin' = "part"
  /\ UNCHANGED <<program, net, serial>>

\* It writes a whole line, or the rest of one.
WriteCommand ==
  /\ Alive /\ stdin \in {"quiet", "part"}
  /\ stdin' = "line"
  /\ UNCHANGED <<program, net, serial>>

CloseStdin ==
  /\ Alive /\ stdin \in {"quiet", "part", "line"}
  /\ stdin' = IF stdin = "quiet" THEN "eof" ELSE "last"
  /\ UNCHANGED <<program, net, serial>>

ClientConnects(c) ==
  /\ Alive /\ PortBound
  /\ c \notin Connected \cup Queued
  /\ Len(backlog) < Backlog
  /\ backlog' = Append(backlog, c)
  /\ UNCHANGED <<program, file, inbox, serial, stdin>>

ClientSends(c) ==
  /\ Alive
  /\ c \in Connected \cup Queued
  /\ inbox[c] = "none"
  /\ \E frame \in {"request", "broken"} : inbox' = [inbox EXCEPT ![c] = frame]
  /\ UNCHANGED <<program, file, backlog, serial, stdin>>

ClientLeaves(c) ==
  /\ Alive
  /\ c \in Connected \cup Queued
  /\ inbox[c] # "eof"
  /\ inbox' = [inbox EXCEPT ![c] = "eof"]
  /\ UNCHANGED <<program, file, backlog, serial, stdin>>

Unplug ==
  /\ Alive /\ plugged
  /\ plugged' = FALSE
  /\ hangup' = (ctx_rtu # NoFd)
  /\ serial_in' = FALSE
  /\ UNCHANGED <<program, net, stdin>>

Plug ==
  /\ Alive /\ ~plugged
  /\ plugged' = TRUE
  /\ UNCHANGED <<program, net, hangup, serial_in, stdin>>

SerialBytes ==
  /\ Alive
  /\ plugged /\ ctx_rtu # NoFd /\ ~hangup /\ ~serial_in
  /\ serial_in' = TRUE
  /\ UNCHANGED <<program, net, plugged, hangup, stdin>>

-----------------------------------------------------------------------------

\* One step of main().
Server ==
  \/ LoopTest \/ Select \/ SelectInterrupted \/ SelectFails
  \/ ReadCommand \/ ReadEof \/ NoCommand
  \/ NoInit \/ InitTcp \/ InitRtu \/ InitMapping
  \/ CleanupStopped \/ SkipHandling \/ Accept
  \/ HandleClient \/ SkipClient \/ HandleRtu \/ Reconnect
  \/ FinalCleanup

Environment ==
  \/ Signal \/ WritePart \/ WriteCommand \/ CloseStdin
  \/ \E c \in Client : ClientConnects(c) \/ ClientSends(c) \/ ClientLeaves(c)
  \/ Unplug \/ Plug \/ SerialBytes

Terminated == ~Alive /\ UNCHANGED vars

Next == Server \/ Environment \/ Terminated

Spec == Init /\ [][Next]_vars

\* main() keeps running; nobody else has to do anything.
FairSpec == Spec /\ WF_vars(Server)

-----------------------------------------------------------------------------
(* Safety.                                                                 *)

TypeOK ==
  /\ pc \in {"while", "select", "stdin", "init", "init_rtu", "init_mapping",
             "cleanup", "accept", "clients", "rtu", "reconnect", "final",
             "exited", "crashed", "blocked"}
  /\ i \in 0 .. MAX_TCP_CLIENTS
  /\ pc = "clients" => i \in Slot
  /\ fds \subseteq Fd
  /\ server_state \in {"running", "stopped"}
  /\ running \in BOOLEAN /\ mb_mapping \in BOOLEAN /\ ctx_tcp \in BOOLEAN
  /\ plugged \in BOOLEAN /\ hangup \in BOOLEAN /\ serial_in \in BOOLEAN
  /\ tcp_listen_sock \in Fd \cup {NoFd}
  /\ tcp_conn_socks \in [Slot -> Fd \cup {NoFd}]
  /\ tcp_conn_count \in Int
  /\ ctx_rtu \in Fd \cup {NoFd}
  /\ file \in [Fd -> Client \cup {"free", "stdin", "listener", "serial"}]
  /\ backlog \in Seq(Client)
  /\ inbox \in [Client -> {"none", "request", "broken", "eof"}]
  /\ stdin \in StdinState

UsedSlots == Slot \ FreeSlots

\* Descriptors are open that no variable of the program refers to.
Leaked == OpenFds \ ({STDIN_FILENO} \cup TcpFds \cup RtuFds)

\* Once the server is initialised its slot table is exact: every used slot
\* holds the open connection of a client, two slots never hold one
\* connection, every connected client has a slot, and the counter counts.
\* (accept and disconnect, lines 581-616; the reset at 508-512)
PoolExact ==
  mb_mapping /\ enable_tcp =>
    /\ \A s \in UsedSlots : file[tcp_conn_socks[s]] \in Client
    /\ \A s, t \in UsedSlots : tcp_conn_socks[s] = tcp_conn_socks[t] => s = t
    /\ \A c \in Connected : \E s \in UsedSlots : file[tcp_conn_socks[s]] = c
    /\ tcp_conn_count = Cardinality(UsedSlots)

\* Whatever the program closes, it never closes its own command channel: the
\* slots hold 0 until the first listen succeeds (line 43), and nothing may
\* run close() on them before.
StdinOpen == file[STDIN_FILENO] = "stdin"

\* The loop never enters an accept or a receive for which nothing has arrived:
\* it would wait there for a master, and everybody with it (lines 582, 601,
\* 621).  In fgets() it may wait for the controller (HeldInFgets).
NeverBlocked == pc # "blocked"

\* select() is never given a descriptor that was closed, or that now stands
\* for something else than what the loop will do with it (lines 441-478).
WatchedOpen ==
  pc = "select" =>
    /\ Watched \subseteq OpenFds
    /\ enable_tcp /\ tcp_listen_sock # NoFd => file[tcp_listen_sock] = "listener"
    /\ enable_rtu /\ ctx_rtu # NoFd => file[ctx_rtu] = "serial"

\* While the server is initialised no step loses track of an open
\* descriptor: not a disconnect, a rejected client or a reconnect.
NoLeakWhileServing ==
  [][mb_mapping /\ mb_mapping' => Leaked' \subseteq Leaked]_vars

\* The steps of main() that are left until it returns if nothing else is asked
\* of it: one per statement, and one per slot in the client loop.
Left ==
  CASE pc = "final"        -> 1
    [] pc = "while"        -> 2
    [] pc = "reconnect"    -> 3
    [] pc = "rtu"          -> 4
    [] pc = "clients"      -> 4 + MAX_TCP_CLIENTS - i
    [] pc = "accept"       -> 5 + MAX_TCP_CLIENTS
    [] pc = "cleanup"      -> 6 + MAX_TCP_CLIENTS
    [] pc = "init_mapping" -> 7 + MAX_TCP_CLIENTS
    [] pc = "init_rtu"     -> 8 + MAX_TCP_CLIENTS
    [] pc = "init"         -> 9 + MAX_TCP_CLIENTS
    [] pc = "stdin"        -> 10 + MAX_TCP_CLIENTS
    [] pc = "select"       -> 11 + MAX_TCP_CLIENTS
    [] OTHER               -> 0

\* No iteration is longer than that, and one in which the server is told to stop
\* is the last: nothing that is sent, connected or commanded in between, a start
\* included, makes main() take one step more (lines 440-662, and the start
\* command at 192-202).
StopIsShort ==
  [][Server => /\ pc # "while" \/ ~running => Left' < Left
               /\ ~running => ~running']_vars

\* Whichever way the server stops, it gives every descriptor back before
\* main() returns (cleanup, lines 553-577 and 664-684).
ExitReleasesAll == pc = "exited" => OpenFds = {STDIN_FILENO}

\* A server that was initialised never meets a command without its register
\* mapping again, also when a signal falls between any two steps.
ReadyNeverCrashes == [](mb_mapping => [](pc # "crashed"))

\* From the outside the loop is the abstract service: it serves at most
\* MAX_TCP_CLIENTS connected masters, and after it has stopped it never
\* serves again, whatever commands and signals arrive.
Phase ==
  IF mb_mapping THEN "serving"
  ELSE IF \/ pc \in {"final", "exited", "crashed"}
          \/ ~running /\ pc \in {"accept", "while"}
       THEN "ended"
       ELSE "starting"

Service == INSTANCE ModbusService WITH
  Capacity <- MAX_TCP_CLIENTS, phase <- Phase, clients <- Connected

ImplementsService == Service!Spec

-----------------------------------------------------------------------------
(* Liveness: main() keeps taking steps.                                    *)

\* The controller finishes the lines it begins, or goes away: nothing else
\* gets main() out of fgets() (line 486).  It is the one thing that each of
\* the following promises needs of the controller.
LinesEnd == []<>~HeldInFgets

\* Every stop, from a signal, a command or the end of stdin, ends the
\* process, unless fgets() waits for ever for the rest of a line, which a
\* signal does not end (lines 155-161, 185-191, 486-493).
StopLeadsToExit == LinesEnd => (~running ~> ~Alive)

\* A master that waits in the listener's queue is taken from it, served or
\* turned away, unless the server ends (lines 581-596).
QueuedClientTaken ==
  LinesEnd => \A c \in Client : c \in Queued ~> c \notin Queued \/ ~Alive

\* Whatever arrives on a connection is dealt with: a request is answered, and
\* a master that left gives its slot back (lines 598-616).
ConnectionServed ==
  LinesEnd =>
    \A c \in Client :
      c \in Connected /\ inbox[c] # "none" ~> inbox[c] = "none" \/ ~Alive

\* With the device present for good, start-up completes (lines 496-551).
BecomesReady ==
  LinesEnd /\ <>[](plugged /\ running) => <>(mb_mapping \/ ~Alive)

\* With the device present for good, a lost serial line comes back.
\* (comment at line 640: "If RTU is NULL and server is running, try to
\* reconnect"; BUILD.md:11)
RtuRecovers ==
  LinesEnd /\ <>[](plugged /\ running /\ mb_mapping) => []<>(ctx_rtu # NoFd)

\* The same, as long as other traffic wakes the loop again and again.
RtuRecoversUnderTraffic ==
  LinesEnd /\ <>[](plugged /\ running /\ mb_mapping) /\ []<>Handling
    => []<>(ctx_rtu # NoFd)

\* The controller was told {"ready":true} (line 434): no command of its kills
\* the server.
NeverCrashes == pc # "crashed"

=============================================================================
