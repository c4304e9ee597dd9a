------------------------- MODULE ModbusServerProofs -------------------------
(***************************************************************************)
(* Proofs about ModbusServer, for every number of clients, slots and       *)
(* descriptors, every backlog, both transports and every set of faults.    *)
(***************************************************************************)
EXTENDS ModbusServerInv, FiniteSetTheorems, TLAPS

USE ClientAssumption, FdAssumption, SlotAssumption, BacklogAssumption, ModeAssumption
DEF ClientAssumption, FdAssumption, SlotAssumption, BacklogAssumption, ModeAssumption

-----------------------------------------------------------------------------
(* Type correctness.                                                       *)

TypeInv == TypeOK /\ IndexReset

LEMMA SlotFacts == /\ 0 \in Slot
                   /\ \A s \in Slot : s \in Int /\ s + 1 \in 0 .. MAX_TCP_CLIENTS
                   /\ NoFd \notin Fd
BY DEF Slot, NoFd

LEMMA SlotAfter ==
  ASSUME NEW s \in Slot, NEW j \in Slot, s >= j + 1
  PROVE  s >= j /\ s # j
<1>1. s \in Int /\ j \in Int
  BY DEF Slot
<1> QED
  BY <1>1

\* close() keeps the kernel's tables well typed, whatever it is given.
LEMMA CloseType ==
  ASSUME TypeOK, NEW S, Close(S)
  PROVE  /\ file' \in [Fd -> Client \cup {"free", "stdin", "listener", "serial"}]
         /\ inbox' \in [Client -> {"none", "request", "broken", "eof"}]
         /\ backlog' \in Seq(Client)
BY DEF TypeOK, Close

\* So does the kernel's queue, read from the front.
LEMMA BacklogType ==
  ASSUME TypeOK, backlog # <<>>
  PROVE  Head(backlog) \in Client /\ Tail(backlog) \in Seq(Client)
BY DEF TypeOK

LEMMA InitType == Init => TypeInv
<1> SUFFICES ASSUME Init PROVE TypeInv
  OBVIOUS
<1>1. tcp_conn_socks \in [Slot -> Fd \cup {NoFd}]
  BY DEF Init, STDIN_FILENO
<1>2. file \in [Fd -> Client \cup {"free", "stdin", "listener", "serial"}]
  BY DEF Init
<1>3. backlog \in Seq(Client) /\ inbox \in [Client -> {"none", "request", "broken", "eof"}]
  BY DEF Init
<1>4. 0 \in 0 .. MAX_TCP_CLIENTS
  OBVIOUS
<1>5. /\ running \in BOOLEAN /\ mb_mapping \in BOOLEAN /\ ctx_tcp \in BOOLEAN
      /\ plugged \in BOOLEAN /\ hangup \in BOOLEAN /\ serial_in \in BOOLEAN
  BY DEF Init
<1>6. IndexReset /\ stdin \in StdinState
  BY DEF Init, IndexReset, StdinState
<1> QED
  BY <1>1, <1>2, <1>3, <1>4, <1>5, <1>6 DEF Init, TypeInv, TypeOK

LEMMA ReleaseType ==
  ASSUME TypeOK, Release
  PROVE  /\ file' \in [Fd -> Client \cup {"free", "stdin", "listener", "serial"}]
         /\ inbox' \in [Client -> {"none", "request", "broken", "eof"}]
         /\ backlog' \in Seq(Client)
         /\ tcp_listen_sock' \in Fd \cup {NoFd}
         /\ tcp_conn_socks' \in [Slot -> Fd \cup {NoFd}]
         /\ tcp_conn_count' \in Int
         /\ ctx_rtu' \in Fd \cup {NoFd}
         /\ mb_mapping' \in BOOLEAN /\ ctx_tcp' \in BOOLEAN
<1>1. Close(TcpFds \cup RtuFds)
  BY DEF Release
<1>2. /\ file' \in [Fd -> Client \cup {"free", "stdin", "listener", "serial"}]
      /\ inbox' \in [Client -> {"none", "request", "broken", "eof"}]
      /\ backlog' \in Seq(Client)
  BY <1>1, CloseType
<1>3. CASE enable_tcp
  <2>1. tcp_conn_socks' \in [Slot -> Fd \cup {NoFd}]
    BY <1>3 DEF Release
  <2>2. tcp_listen_sock' \in Fd \cup {NoFd} /\ tcp_conn_count' \in Int
    BY <1>3 DEF Release
  <2>4. ctx_tcp' \in BOOLEAN
    BY <1>3, Zenon DEF Release
  <2>3. ctx_rtu' \in Fd \cup {NoFd} /\ mb_mapping' \in BOOLEAN
    BY DEF Release, TypeOK
  <2> QED
    BY <1>2, <2>1, <2>2, <2>3, <2>4
<1>4. CASE ~enable_tcp
  BY <1>2, <1>4 DEF Release, TypeOK, tcp, pool
<1> QED
  BY <1>3, <1>4

LEMMA ConnectType ==
  ASSUME TypeOK, ConnectRtu \/ ConnectRtuFails \/ UNCHANGED <<ctx_rtu, file, serial>>
  PROVE  /\ ctx_rtu' \in Fd \cup {NoFd}
         /\ file' \in [Fd -> Client \cup {"free", "stdin", "listener", "serial"}]
         /\ plugged' \in BOOLEAN /\ hangup' \in BOOLEAN /\ serial_in' \in BOOLEAN
<1>1. CASE ConnectRtu
  BY <1>1 DEF ConnectRtu, TypeOK
<1>2. CASE ConnectRtuFails \/ UNCHANGED <<ctx_rtu, file, serial>>
  BY <1>2 DEF ConnectRtuFails, TypeOK, serial
<1> QED
  BY <1>1, <1>2

LEMMA NextType == TypeInv /\ [Next]_vars => TypeInv'
<1> SUFFICES ASSUME TypeInv, [Next]_vars PROVE TypeInv'
  OBVIOUS
<1> USE DEF TypeInv, TypeOK, IndexReset
<1>1. CASE LoopTest
  BY <1>1 DEF LoopTest, control, tcp, pool, net, serial
<1>2. CASE Select
  <2>1. fds' \subseteq Fd
    BY <1>2 DEF Select, Watched, OpenFds
  <2> QED
    BY <1>2, <2>1 DEF Select, control, tcp, pool, net, serial
<1>3. CASE SelectInterrupted \/ SelectFails
  <2>1. /\ pc' \in {"while", "final"}
        /\ UNCHANGED <<i, fds, control, mb_mapping, tcp, ctx_rtu, net, serial, stdin>>
    BY <1>3 DEF SelectInterrupted, SelectFails
  <2> QED
    BY <2>1 DEF control, tcp, pool, net, serial
<1>4. CASE ReadCommand
  <2>1. stdin' \in StdinState /\ pc' \in {"init", "crashed"} /\ pc = "stdin"
    BY <1>4 DEF ReadCommand, process_json, StdinState
  <2>2. server_state' \in {"running", "stopped"}
    BY <1>4 DEF ReadCommand, process_json
  <2>3. running' \in BOOLEAN
    BY <1>4, Zenon DEF ReadCommand, process_json
  <2>4. UNCHANGED <<i, fds, mb_mapping, tcp, ctx_rtu, net, serial>>
    BY <1>4 DEF ReadCommand
  <2> QED
    BY <2>1, <2>2, <2>3, <2>4 DEF tcp, pool, net, serial
<1>5. CASE ReadEof \/ NoCommand
  <2>1. /\ pc = "stdin" /\ pc' = "init"
        /\ UNCHANGED <<i, fds, mb_mapping, tcp, ctx_rtu, net, serial, stdin>>
    BY <1>5 DEF ReadEof, NoCommand
  <2>2. server_state' \in {"running", "stopped"} /\ running' \in BOOLEAN
    BY <1>5 DEF ReadEof, NoCommand, control
  <2> QED
    BY <2>1, <2>2 DEF tcp, pool, net, serial
<1>6. CASE NoInit
  BY <1>6 DEF NoInit, control, tcp, pool, net, serial
<1>7. CASE InitTcp
  <2>1. tcp_conn_socks' \in [Slot -> Fd \cup {NoFd}]
    <3>1. tcp_conn_socks' = [s \in Slot |-> NoFd] \/ UNCHANGED tcp_conn_socks
      <4>1. CASE UNCHANGED tcp \/ UNCHANGED pool
        BY <4>1 DEF pool, tcp
      <4>2. UNCHANGED tcp \/ UNCHANGED pool \/ tcp_conn_socks' = [s \in Slot |-> NoFd]
        BY <1>7, Zenon DEF InitTcp
      <4> QED
        BY <4>1, <4>2
    <3>2. [s \in Slot |-> NoFd] \in [Slot -> Fd \cup {NoFd}]
      OBVIOUS
    <3> QED
      BY <3>1, <3>2
  <2>2. file' \in [Fd -> Client \cup {"free", "stdin", "listener", "serial"}]
    BY <1>7 DEF InitTcp
  <2>3. tcp_listen_sock' \in Fd \cup {NoFd}
    BY <1>7 DEF InitTcp, tcp
  <2>5. tcp_conn_count' \in Int
    BY <1>7 DEF InitTcp, pool, tcp
  <2>6. ctx_tcp' \in BOOLEAN
    BY <1>7, Zenon DEF InitTcp, tcp
  <2>4. pc' \in {"while", "init_rtu"} /\ (pc' = "init_rtu" => i' = 0)
    BY <1>7 DEF InitTcp
  <2> QED
    BY <1>7, <2>1, <2>2, <2>3, <2>4, <2>5, <2>6 DEF InitTcp, control, serial
<1>8. CASE InitRtu
  <2>1. /\ pc = "init_rtu" /\ pc' \in {"init_mapping", "while"}
        /\ UNCHANGED <<i, fds, control, mb_mapping, tcp, backlog, inbox, stdin>>
        /\ ConnectRtu \/ ConnectRtuFails \/ UNCHANGED <<ctx_rtu, file, serial>>
    BY <1>8 DEF InitRtu
  <2> QED
    BY <2>1, ConnectType DEF control, tcp, pool
<1>9. CASE InitMapping
  <2>1. /\ pc = "init_mapping" /\ pc' \in {"while", "cleanup"}
        /\ UNCHANGED <<i, fds, control, tcp, ctx_rtu, net, serial, stdin>>
    BY <1>9 DEF InitMapping
  <2>2. mb_mapping' \in BOOLEAN
    BY <1>9 DEF InitMapping
  <2> QED
    BY <2>1, <2>2 DEF control, tcp, pool, net, serial
<1>10. CASE CleanupStopped
  BY <1>10, ReleaseType DEF CleanupStopped, control, tcp, pool, net, serial
<1>11. CASE FinalCleanup
  BY <1>11, ReleaseType DEF FinalCleanup, control, tcp, pool, net, serial
<1>12. CASE SkipHandling
  BY <1>12 DEF SkipHandling, control, tcp, pool, net, serial
<1>13. CASE Accept
  <2>1. /\ pc' \in {"clients", "rtu", "blocked"} /\ i' = 0
        /\ UNCHANGED <<fds, control, mb_mapping, ctx_tcp, ctx_rtu, serial, stdin>>
    BY <1>13 DEF Accept
  <2>2. /\ file' \in [Fd -> Client \cup {"free", "stdin", "listener", "serial"}]
        /\ inbox' \in [Client -> {"none", "request", "broken", "eof"}]
        /\ backlog' \in Seq(Client)
        /\ tcp_listen_sock' \in Fd \cup {NoFd}
        /\ tcp_conn_socks' \in [Slot -> Fd \cup {NoFd}]
        /\ tcp_conn_count' \in Int
    <3>1. CASE UNCHANGED <<tcp_listen_sock, pool, net>>
      BY <3>1 DEF pool, net
    <3>2. CASE backlog # <<>> /\ AcceptClient
      BY <3>2, BacklogType DEF AcceptClient
    <3>3. CASE backlog # <<>> /\ RejectClient
      BY <3>3, BacklogType DEF RejectClient, pool
    <3>4. CASE AcceptFails
      <4>1. CASE Close({tcp_listen_sock}) /\ tcp_listen_sock' = NoFd /\ UNCHANGED pool
        BY <4>1, CloseType DEF pool
      <4> QED
        BY <3>1, <3>4, <4>1 DEF AcceptFails
    <3> QED
      BY <1>13, <3>1, <3>2, <3>3, <3>4 DEF Accept
  <2> QED
    BY <2>1, <2>2, SlotFacts DEF control, serial
<1>14. CASE HandleClient
  <2> DEFINE c == file[sock]
  <2>1. /\ UNCHANGED <<fds, control, mb_mapping, ctx_tcp, tcp_listen_sock, ctx_rtu, serial, stdin>>
        /\ pc' \in {"blocked", "clients", "rtu"}
        /\ i' \in 0 .. MAX_TCP_CLIENTS /\ (pc' = "clients" => i' \in Slot)
    BY <1>14, SlotFacts DEF HandleClient, NextSlot
  <2>2. CASE UNCHANGED <<net, pool>>
    BY <2>1, <2>2 DEF control, net, pool, serial
  <2>3. CASE Serve(c)
    <3>1. inbox' \in [Client -> {"none", "request", "broken", "eof"}]
      BY <2>3 DEF Serve
    <3> QED
      BY <2>1, <2>3, <3>1 DEF Serve, control, pool, serial
  <2>4. CASE Disconnect(c)
    <3>1. Close({sock})
      BY <2>4 DEF Disconnect
    <3>2. /\ file' \in [Fd -> Client \cup {"free", "stdin", "listener", "serial"}]
          /\ inbox' \in [Client -> {"none", "request", "broken", "eof"}]
          /\ backlog' \in Seq(Client)
      BY <3>1, CloseType
    <3> QED
      <4>1. tcp_conn_socks' = [tcp_conn_socks EXCEPT ![i] = NoFd]
        BY <2>4 DEF Disconnect
      <4>2. tcp_conn_count' = tcp_conn_count - 1
        BY <2>4 DEF Disconnect
      <4> QED
        <5>1. tcp_conn_socks' \in [Slot -> Fd \cup {NoFd}]
          BY <4>1
        <5>2. tcp_conn_count' \in Int
          BY <4>2
        <5> QED
          BY <2>1, <3>2, <5>1, <5>2 DEF control, serial
  <2> QED
    BY <1>14, <2>2, <2>3, <2>4 DEF HandleClient
<1>15. CASE SkipClient
  BY <1>15, SlotFacts DEF SkipClient, NextSlot, control, tcp, pool, net, serial
<1>16. CASE HandleRtu
  <2>1. pc' \in {"reconnect", "blocked"} /\ UNCHANGED <<i, fds, control, mb_mapping, tcp, stdin>>
    BY <1>16 DEF HandleRtu
  <2>2. CASE UNCHANGED <<ctx_rtu, net, serial>>
    BY <2>1, <2>2 DEF control, tcp, pool, net, serial
  <2>3. CASE ServeRtu
    BY <2>1, <2>3 DEF ServeRtu, control, tcp, pool, net
  <2>4. CASE DropRtu
    <3>1. Close({ctx_rtu}) /\ ctx_rtu' = NoFd /\ UNCHANGED plugged
          /\ hangup' = FALSE /\ serial_in' = FALSE
      BY <2>4 DEF DropRtu
    <3> QED
      BY <2>1, <3>1, CloseType DEF control, tcp, pool
  <2> QED
    BY <1>16, <2>2, <2>3, <2>4 DEF HandleRtu
<1>17. CASE Reconnect
  <2>1. /\ pc' = "while"
        /\ UNCHANGED <<i, fds, control, mb_mapping, tcp, backlog, inbox, stdin>>
        /\ ConnectRtu \/ ConnectRtuFails \/ UNCHANGED <<ctx_rtu, file, serial>>
    BY <1>17 DEF Reconnect
  <2> QED
    BY <2>1, ConnectType DEF control, tcp, pool
<1>18. CASE Environment
  <2>1. CASE Signal
    <3>1. running' \in BOOLEAN /\ server_state' = "stopped"
      BY <2>1, Zenon DEF Signal
    <3>2. UNCHANGED <<pc, i, fds, mb_mapping, tcp, ctx_rtu, net, serial, stdin>>
      BY <2>1 DEF Signal
    <3> QED
      BY <3>1, <3>2 DEF tcp, pool, net, serial
  <2>4. CASE WritePart \/ WriteCommand \/ CloseStdin
    <3>1. stdin' \in StdinState /\ UNCHANGED <<program, net, serial>>
      BY <2>4 DEF WritePart, WriteCommand, CloseStdin, StdinState
    <3> QED
      BY <3>1 DEF program, control, tcp, pool, net, serial
  <2>3. CASE Unplug \/ Plug \/ SerialBytes
    <3>1. plugged' \in BOOLEAN /\ hangup' \in BOOLEAN /\ serial_in' \in BOOLEAN
      BY <2>3 DEF Unplug, Plug, SerialBytes
    <3>2. UNCHANGED <<program, net, stdin>>
      BY <2>3 DEF Unplug, Plug, SerialBytes
    <3> QED
      BY <3>1, <3>2 DEF program, control, tcp, pool, net
  <2>2. CASE \E c \in Client : ClientConnects(c) \/ ClientSends(c) \/ ClientLeaves(c)
    <3>1. /\ backlog' \in Seq(Client)
          /\ inbox' \in [Client -> {"none", "request", "broken", "eof"}]
          /\ UNCHANGED <<program, file, serial, stdin>>
      <4>1. PICK c \in Client : ClientConnects(c) \/ ClientSends(c) \/ ClientLeaves(c)
        BY <2>2
      <4>2. CASE ClientConnects(c)
        BY <4>2 DEF ClientConnects
      <4>3. CASE ClientSends(c)
        BY <4>3 DEF ClientSends
      <4>4. CASE ClientLeaves(c)
        BY <4>4 DEF ClientLeaves
      <4> QED
        BY <4>1, <4>2, <4>3, <4>4
    <3> QED
      BY <3>1 DEF program, control, tcp, pool, serial
  <2> QED
    BY <1>18, <2>1, <2>2, <2>3, <2>4 DEF Environment
<1>19. CASE UNCHANGED vars
  BY <1>19 DEF vars, program, net, serial, tcp, pool
<1> QED
  BY <1>1, <1>2, <1>3, <1>4, <1>5, <1>6, <1>7, <1>8, <1>9, <1>10, <1>11, <1>12,
     <1>13, <1>14, <1>15, <1>16, <1>17, <1>18, <1>19 DEF Next, Server, Terminated

\* Every reachable state is well typed; in particular the client loop never
\* indexes the slot table out of its bounds.
THEOREM TypeCorrect == Spec => []TypeOK
<1>1. TypeInv => TypeOK
  BY DEF TypeInv
<1> QED
  BY InitType, NextType, <1>1, PTL DEF Spec
-----------------------------------------------------------------------------
(* The stages of the loop.                                                 *)

LEMMA StageNext == TypeInv /\ Stage /\ [Next]_vars => Stage'
<1> SUFFICES ASSUME TypeInv, Stage, [Next]_vars PROVE Stage'
  OBVIOUS
<1> USE DEF TypeInv, TypeOK, Stage
<1>1. CASE LoopTest \/ Select \/ SelectInterrupted \/ SelectFails
  BY <1>1 DEF LoopTest, Select, SelectInterrupted, SelectFails, control
<1>2. CASE ReadCommand
  BY <1>2 DEF ReadCommand, process_json
<1>3. CASE ReadEof \/ NoCommand \/ NoInit
  BY <1>3 DEF ReadEof, NoCommand, NoInit, InitNeeded, control
<1>4. CASE InitTcp \/ InitRtu \/ InitMapping
  BY <1>4 DEF InitTcp, InitRtu, InitMapping, InitNeeded, control
<1>5. CASE CleanupStopped \/ FinalCleanup \/ SkipHandling
  BY <1>5 DEF CleanupStopped, FinalCleanup, SkipHandling, Release, control
<1>6. CASE Accept
  BY <1>6 DEF Accept, Handling, control
<1>7. CASE HandleClient \/ SkipClient
  BY <1>7 DEF HandleClient, SkipClient, NextSlot, control
<1>8. CASE HandleRtu \/ Reconnect
  BY <1>8 DEF HandleRtu, Reconnect, control
<1>9. CASE Signal
  BY <1>9 DEF Signal
<1>10. CASE UNCHANGED program
  BY <1>10 DEF program
<1>11. Environment => Signal \/ UNCHANGED program
  BY Zenon DEF Environment, WritePart, WriteCommand, CloseStdin, ClientConnects, ClientSends, ClientLeaves,
               Unplug, Plug, SerialBytes
<1> QED
  BY <1>1, <1>2, <1>3, <1>4, <1>5, <1>6, <1>7, <1>8, <1>9, <1>10, <1>11
     DEF Next, Server, Terminated, vars

-----------------------------------------------------------------------------
(* The kernel's tables.                                                    *)

LEMMA NamesDistinct ==
  /\ \A c \in Client : c \notin {"free", "stdin", "listener", "serial"}
  /\ STDIN_FILENO \in Fd /\ STDIN_FILENO = 0 /\ NoFd \notin Fd
BY DEF STDIN_FILENO, NoFd

\* What the program believes it owns while it is initialised is open, and
\* never its standard input.
LEMMA OwnedOpen ==
  ASSUME TypeInv, Kernel, Handles, Pool, mb_mapping
  PROVE  \A f \in TcpFds \cup RtuFds :
           f \in Fd /\ f # STDIN_FILENO /\ file[f] \in Client \cup {"listener", "serial"}
<1>1. \A f \in RtuFds : f \in Fd /\ file[f] = "serial"
  BY DEF RtuFds, Handles, TypeInv, TypeOK
<1>2. enable_tcp /\ tcp_listen_sock # NoFd =>
       tcp_listen_sock \in Fd /\ file[tcp_listen_sock] = "listener"
  BY DEF Handles, TypeInv, TypeOK
<1>3. enable_tcp => \A s \in Slot : tcp_conn_socks[s] # NoFd =>
                      tcp_conn_socks[s] \in Fd /\ file[tcp_conn_socks[s]] \in Client
  BY DEF Pool, SlotsExact, UsedSlots, FreeSlots, TypeInv, TypeOK
<1> QED
  BY <1>1, <1>2, <1>3, NamesDistinct DEF TcpFds, Kernel

LEMMA CloseKernel ==
  ASSUME TypeInv, Kernel, NEW S, STDIN_FILENO \notin S, Close(S)
  PROVE  Kernel'
<1>1. file' = [f \in Fd |-> IF f \in S THEN "free" ELSE file[f]]
  BY DEF Close
<1>2. backlog' = <<>> \/ backlog' = backlog
  BY DEF Close
<1>3. \A f \in Fd : file'[f] # file[f] => f \in S /\ file'[f] = "free"
  BY <1>1
<1> QED
  BY <1>1, <1>2, <1>3, NamesDistinct DEF Kernel, TypeInv, TypeOK

\* A descriptor is opened for something that is not a connection.
LEMMA OpenKernel ==
  ASSUME TypeInv, Kernel, NEW f \in Fd, LowestFree(f), UNCHANGED backlog,
         NEW x \in {"listener", "serial"}, x = "listener" => ~PortBound,
         file' = [file EXCEPT ![f] = x]
  PROVE  Kernel'
<1>1. file[f] = "free"
  BY DEF LowestFree, OpenFds
<1> QED
  BY <1>1, NamesDistinct DEF Kernel, PortBound, TypeInv, TypeOK

LEMMA QueueFront ==
  ASSUME TypeInv, backlog # <<>>
  PROVE  /\ Head(backlog) = backlog[1] /\ 1 \in DOMAIN backlog
         /\ Head(backlog) \in Client /\ Tail(backlog) \in Seq(Client)
         /\ \A k \in DOMAIN Tail(backlog) :
              /\ k + 1 \in DOMAIN backlog
              /\ k + 1 # 1
              /\ Tail(backlog)[k] = backlog[k + 1]
              /\ k \in Int
BY DEF TypeInv, TypeOK

LEMMA AcceptKernel ==
  ASSUME TypeInv, Kernel, backlog # <<>>, AcceptClient \/ RejectClient
  PROVE  Kernel'
<1>1. backlog' = Tail(backlog)
  BY DEF AcceptClient, RejectClient
<1>2. \A k, l \in DOMAIN backlog' : backlog'[k] = backlog'[l] => k = l
  BY <1>1, QueueFront DEF Kernel
<1>3. CASE RejectClient
  BY <1>1, <1>2, <1>3, QueueFront DEF RejectClient, Kernel
<1>4. CASE AcceptClient
  <2>1. PICK f \in Fd : LowestFree(f) /\ file' = [file EXCEPT ![f] = Head(backlog)]
    BY <1>4 DEF AcceptClient
  <2>2. file[f] = "free"
    BY <2>1 DEF LowestFree, OpenFds
  <2>3. \A k \in DOMAIN backlog' : backlog'[k] # Head(backlog)
    BY <1>1, QueueFront DEF Kernel
  <2>4. \A g \in Fd : file[g] # Head(backlog)
    BY QueueFront DEF Kernel
  <2>5. \A g \in Fd : file'[g] = IF g = f THEN Head(backlog) ELSE file[g]
    BY <2>1 DEF TypeInv, TypeOK
  <2>6. \A k \in DOMAIN backlog', g \in Fd : file'[g] # backlog'[k]
    BY <1>1, <2>3, <2>5, QueueFront DEF Kernel
  <2> QED
    BY <1>2, <2>2, <2>4, <2>5, <2>6, QueueFront, NamesDistinct DEF Kernel
<1> QED
  BY <1>3, <1>4

LEMMA KernelNext ==
  TypeInv /\ Kernel /\ Handles /\ Pool /\ Stage /\ [Next]_vars => Kernel'
<1> SUFFICES ASSUME TypeInv, Kernel, Handles, Pool, Stage, [Next]_vars PROVE Kernel'
  OBVIOUS
<1>1. CASE UNCHANGED <<file, backlog>>
  BY <1>1 DEF Kernel
<1>2. CASE InitTcp
  BY <1>1, <1>2, OpenKernel DEF InitTcp
<1>3. CASE InitRtu \/ Reconnect
  BY <1>1, <1>3, OpenKernel DEF InitRtu, Reconnect, ConnectRtu, ConnectRtuFails, net
<1>4. CASE Release /\ mb_mapping
  <2>1. Close(TcpFds \cup RtuFds)
    BY <1>4 DEF Release
  <2> QED
    BY <1>4, <2>1, OwnedOpen, CloseKernel
<1>5. CASE CleanupStopped \/ FinalCleanup
  BY <1>1, <1>4, <1>5 DEF CleanupStopped, FinalCleanup, net
<1>6. CASE Accept
  <2>1. CASE ListenerReady /\ Close({tcp_listen_sock})
    <3>1. STDIN_FILENO \notin {tcp_listen_sock}
      BY <2>1 DEF ListenerReady, Handles, Kernel
    <3> QED
      BY <2>1, <3>1, CloseKernel
  <2> QED
    BY <1>1, <1>6, <2>1, AcceptKernel DEF Accept, AcceptFails, net
<1>7. CASE HandleClient
  <2> DEFINE c == file[sock]
  <2>1. CASE Close({sock}) /\ sock # NoFd
    <3>1. mb_mapping /\ enable_tcp /\ i \in Slot
      BY <1>7 DEF HandleClient, Stage, TypeInv, TypeOK
    <3>2. sock \in TcpFds
      BY <2>1, <3>1 DEF TcpFds, sock
    <3> QED
      BY <2>1, <3>1, <3>2, OwnedOpen, CloseKernel
  <2>2. CASE UNCHANGED net \/ Serve(c)
    BY <1>1, <2>2 DEF net, Serve
  <2>3. CASE Disconnect(c)
    BY <1>7, <2>1, <2>3 DEF HandleClient, Disconnect
  <2> QED
    BY <1>7, <2>2, <2>3 DEF HandleClient
<1>8. CASE HandleRtu
  <2>1. CASE RtuReady /\ DropRtu
    <3>1. STDIN_FILENO \notin {ctx_rtu} /\ Close({ctx_rtu})
      BY <2>1 DEF RtuReady, DropRtu, Handles, Kernel
    <3> QED
      BY <3>1, CloseKernel
  <2> QED
    BY <1>1, <1>8, <2>1 DEF HandleRtu, ServeRtu, net
<1>9. CASE \E c \in Client : ClientConnects(c)
  <2>1. PICK c \in Client : ClientConnects(c)
    BY <1>9
  <2>2. /\ backlog' = Append(backlog, c) /\ UNCHANGED file
        /\ \A f \in Fd : file[f] # c
        /\ \A k \in DOMAIN backlog : backlog[k] # c
    BY <2>1 DEF ClientConnects, Connected, Queued
  <2>3. \A k \in DOMAIN backlog' : k \in Int /\ (k \in DOMAIN backlog \/ k = Len(backlog) + 1)
    BY <2>2 DEF TypeInv, TypeOK
  <2>4. \A k \in DOMAIN backlog' : backlog'[k] = IF k \in DOMAIN backlog THEN backlog[k] ELSE c
    BY <2>2 DEF TypeInv, TypeOK
  <2> QED
    BY <2>2, <2>3, <2>4 DEF Kernel
<1>10. Environment => UNCHANGED <<file, backlog>> \/ \E c \in Client : ClientConnects(c)
  BY DEF Environment, Signal, WritePart, WriteCommand, CloseStdin, ClientSends, ClientLeaves,
         Unplug, Plug, SerialBytes, net
<1>11. LoopTest \/ Select \/ SelectInterrupted \/ SelectFails \/ ReadCommand \/ ReadEof
       \/ NoCommand \/ NoInit \/ InitMapping \/ SkipHandling \/ SkipClient
       => UNCHANGED <<file, backlog>>
  BY DEF LoopTest, Select, SelectInterrupted, SelectFails, ReadCommand, ReadEof,
         NoCommand, NoInit, InitMapping, SkipHandling, SkipClient, net
<1>12. UNCHANGED vars => UNCHANGED <<file, backlog>>
  BY DEF vars, net
<1> QED
  BY <1>1, <1>2, <1>3, <1>5, <1>6, <1>7, <1>8, <1>9, <1>10, <1>11, <1>12
     DEF Next, Server, Terminated

-----------------------------------------------------------------------------
(* The program's handles.                                                  *)

\* Steps that neither open nor close a descriptor nor assign a handle.
LEMMA QuietSteps ==
  \/ LoopTest \/ Select \/ SelectInterrupted \/ SelectFails \/ ReadCommand \/ ReadEof
  \/ NoCommand \/ NoInit \/ InitMapping \/ SkipHandling \/ SkipClient \/ Environment
  \/ UNCHANGED vars
  => UNCHANGED <<file, tcp, ctx_rtu>>
BY DEF LoopTest, Select, SelectInterrupted, SelectFails, ReadCommand, ReadEof,
       NoCommand, NoInit, InitMapping, SkipHandling, SkipClient, Environment, Signal,
       WritePart, WriteCommand, CloseStdin, ClientConnects, ClientSends, ClientLeaves, Unplug, Plug,
       SerialBytes, vars, program, net, tcp, pool

LEMMA CloseFile ==
  ASSUME NEW S, Close(S)
  PROVE  file' = [f \in Fd |-> IF f \in S THEN "free" ELSE file[f]]
BY DEF Close

LEMMA HandlesNext ==
  TypeInv /\ Kernel /\ Handles /\ Pool /\ Stage /\ [Next]_vars => Handles'
<1> SUFFICES ASSUME TypeInv, Kernel, Handles, Pool, Stage, [Next]_vars PROVE Handles'
  OBVIOUS
<1> USE NamesDistinct DEF TypeInv, TypeOK
<1>1. CASE UNCHANGED <<file, tcp_listen_sock, ctx_rtu, tcp_conn_socks>>
  BY <1>1 DEF Handles
<1>2. CASE InitTcp
  <2>1. CASE UNCHANGED <<file, pool>> /\ tcp_listen_sock' \in {tcp_listen_sock, NoFd}
    BY <1>2, <2>1 DEF InitTcp, Handles, pool
  <2>2. CASE ~(UNCHANGED <<file, pool>> /\ tcp_listen_sock' \in {tcp_listen_sock, NoFd})
    <3>1. PICK f \in Fd : /\ LowestFree(f) /\ tcp_listen_sock' = f
                          /\ file' = [file EXCEPT ![f] = "listener"]
                          /\ tcp_conn_socks' = [s \in Slot |-> NoFd]
                          /\ UNCHANGED ctx_rtu
      BY <1>2, <2>2 DEF InitTcp, tcp
    <3> QED
      BY <3>1 DEF Handles, LowestFree, OpenFds
  <2> QED
    BY <2>1, <2>2
<1>3. CASE ConnectRtu /\ UNCHANGED tcp
  <2>1. PICK f \in Fd : /\ LowestFree(f) /\ ctx_rtu' = f /\ file' = [file EXCEPT ![f] = "serial"]
    BY <1>3 DEF ConnectRtu
  <2> QED
    BY <1>3, <2>1 DEF Handles, LowestFree, OpenFds, tcp, pool
<1>4. CASE ConnectRtuFails /\ UNCHANGED tcp
  BY <1>4 DEF ConnectRtuFails, Handles, tcp, pool
<1>5. CASE InitRtu \/ Reconnect
  BY <1>1, <1>3, <1>4, <1>5 DEF InitRtu, Reconnect, tcp, pool
<1>6. CASE Release /\ mb_mapping
  <2>1. file' = [f \in Fd |-> IF f \in TcpFds \cup RtuFds THEN "free" ELSE file[f]]
    BY <1>6, CloseFile DEF Release
  <2>2. CASE enable_tcp
    <3>1. tcp_listen_sock' = NoFd /\ tcp_conn_socks' = [s \in Slot |-> NoFd]
      BY <1>6, <2>2 DEF Release
    <3>2. CASE enable_rtu
      BY <1>6, <3>1, <3>2 DEF Release, Handles
    <3>3. CASE ~enable_rtu /\ ctx_rtu # NoFd
      <4>1. ctx_rtu \notin TcpFds
        BY <1>6, <2>2, <3>3 DEF TcpFds, Handles, Pool, SlotsExact, UsedSlots, FreeSlots
      <4> QED
        BY <1>6, <2>1, <3>1, <3>3, <4>1 DEF Release, Handles, RtuFds
    <3> QED
      BY <1>6, <3>1, <3>2, <3>3 DEF Release, Handles
  <2>3. CASE ~enable_tcp
    <3>1. UNCHANGED tcp /\ (ctx_rtu' = NoFd \/ (UNCHANGED ctx_rtu /\ RtuFds = {}))
      BY <1>6, <2>3 DEF Release, RtuFds
    <3>2. TcpFds = {} /\ \A f \in RtuFds : file[f] = "serial"
      BY <2>3 DEF TcpFds, RtuFds, Handles
    <3> QED
      BY <2>1, <3>1, <3>2 DEF Handles, tcp, pool
  <2> QED
    BY <2>2, <2>3
<1>7. CASE CleanupStopped \/ FinalCleanup
  BY <1>1, <1>6, <1>7 DEF CleanupStopped, FinalCleanup, net, tcp, pool
<1>8. CASE Accept
  <2>1. CASE backlog # <<>> /\ AcceptClient /\ UNCHANGED ctx_rtu
    <3>1. PICK slot \in Slot, f \in Fd :
            /\ LowestFree(f) /\ file' = [file EXCEPT ![f] = Head(backlog)]
            /\ tcp_conn_socks' = [tcp_conn_socks EXCEPT ![slot] = f]
            /\ UNCHANGED tcp_listen_sock
      BY <2>1 DEF AcceptClient
    <3>2. Head(backlog) \in Client /\ file[f] = "free"
      BY <2>1, <3>1, QueueFront DEF LowestFree, OpenFds
    <3> QED
      BY <2>1, <3>1, <3>2 DEF Handles
  <2>2. CASE ListenerReady /\ Close({tcp_listen_sock}) /\ tcp_listen_sock' = NoFd
             /\ UNCHANGED <<pool, ctx_rtu>>
    <3>1. file[tcp_listen_sock] = "listener"
      BY <2>2 DEF ListenerReady, Handles
    <3>2. file' = [f \in Fd |-> IF f \in {tcp_listen_sock} THEN "free" ELSE file[f]]
      BY <2>2, CloseFile
    <3> QED
      BY <2>2, <3>1, <3>2 DEF Handles, pool
  <2> QED
    BY <1>1, <1>8, <2>1, <2>2 DEF Accept, RejectClient, AcceptFails, net, pool
<1>9. CASE HandleClient
  <2>1. mb_mapping /\ enable_tcp /\ i \in Slot /\ sock # NoFd
        /\ UNCHANGED <<tcp_listen_sock, ctx_rtu>>
    BY <1>9 DEF HandleClient, Stage
  <2>2. CASE Disconnect(file[sock])
    <3>1. /\ file' = [f \in Fd |-> IF f \in {sock} THEN "free" ELSE file[f]]
          /\ tcp_conn_socks' = [tcp_conn_socks EXCEPT ![i] = NoFd]
      BY <2>2, CloseFile DEF Disconnect
    <3>2. SlotsExact /\ i \in UsedSlots
      BY <2>1 DEF Pool, UsedSlots, FreeSlots, sock
    <3>3. file[sock] \in Client
      BY <3>2 DEF SlotsExact, sock
    <3>4. \A s \in UsedSlots : s # i => tcp_conn_socks[s] # sock
      BY <3>2 DEF SlotsExact, sock
    <3> QED
      BY <2>1, <3>1, <3>3, <3>4 DEF Handles, UsedSlots, FreeSlots
  <2> QED
    BY <1>1, <1>9, <2>1, <2>2 DEF HandleClient, Serve, net, pool
<1>10. CASE HandleRtu
  <2>1. CASE RtuReady /\ DropRtu /\ UNCHANGED tcp
    <3>1. /\ file' = [f \in Fd |-> IF f \in {ctx_rtu} THEN "free" ELSE file[f]]
          /\ ctx_rtu' = NoFd /\ file[ctx_rtu] = "serial"
      BY <2>1, CloseFile DEF DropRtu, RtuReady, Handles
    <3> QED
      BY <2>1, <3>1 DEF Handles, tcp, pool
  <2> QED
    BY <1>1, <1>10, <2>1 DEF HandleRtu, ServeRtu, net, tcp, pool
<1>11. CASE UNCHANGED <<file, tcp, ctx_rtu>>
  BY <1>1, <1>11 DEF tcp, pool
<1> QED
  BY <1>2, <1>5, <1>7, <1>8, <1>9, <1>10, <1>11, QuietSteps DEF Next, Server, Terminated

-----------------------------------------------------------------------------
(* The slot table.                                                         *)

LEMMA SlotsFinite == IsFiniteSet(Slot)
BY FS_Interval DEF Slot

LEMMA UsedFinite == IsFiniteSet(UsedSlots) /\ UsedSlots \subseteq Slot
BY SlotsFinite, FS_Subset DEF UsedSlots

\* Descriptors that are not connections may come and go.
LEMMA SlotsFrame ==
  ASSUME TypeInv, SlotsExact, UNCHANGED pool,
         \A f \in Fd : file'[f] \in Client <=> file[f] \in Client
  PROVE  SlotsExact'
<1>1. UNCHANGED UsedSlots
  BY DEF pool, UsedSlots, FreeSlots
<1>2. \A s \in UsedSlots : tcp_conn_socks[s] \in Fd
  BY DEF UsedSlots, FreeSlots, TypeInv, TypeOK
<1> QED
  BY <1>1, <1>2 DEF SlotsExact, pool

LEMMA AcceptSlots ==
  ASSUME TypeInv, Kernel, SlotsExact, backlog # <<>>, AcceptClient
  PROVE  SlotsExact'
<1> USE DEF TypeInv, TypeOK
<1>1. PICK slot \in Slot, f \in Fd :
        /\ find_free_tcp_client_slot(slot) /\ LowestFree(f)
        /\ file' = [file EXCEPT ![f] = Head(backlog)]
        /\ tcp_conn_socks' = [tcp_conn_socks EXCEPT ![slot] = f]
        /\ tcp_conn_count' = tcp_conn_count + 1
  BY DEF AcceptClient
<1>2. Head(backlog) \in Client /\ file[f] = "free" /\ f # NoFd
  BY <1>1, QueueFront, NamesDistinct DEF LowestFree, OpenFds
<1>3. slot \in Slot \ UsedSlots
  BY <1>1 DEF find_free_tcp_client_slot, UsedSlots, Slot
<1>4. UsedSlots' = UsedSlots \cup {slot}
  BY <1>1, <1>2, <1>3 DEF UsedSlots, FreeSlots
<1>5. Cardinality(UsedSlots') = Cardinality(UsedSlots) + 1
  BY <1>3, <1>4, UsedFinite, FS_AddElement
<1>6. \A s \in UsedSlots : /\ s \in Slot /\ s # slot
                           /\ tcp_conn_socks[s] \in Fd /\ tcp_conn_socks[s] # f
  BY <1>2, <1>3, NamesDistinct DEF UsedSlots, FreeSlots, SlotsExact
<1>7. tcp_conn_socks'[slot] = f /\ \A s \in UsedSlots : tcp_conn_socks'[s] = tcp_conn_socks[s]
  BY <1>1, <1>6
<1>8. file'[f] = Head(backlog) /\ \A g \in Fd : g # f => file'[g] = file[g]
  BY <1>1
<1> QED
  BY <1>1, <1>2, <1>4, <1>5, <1>6, <1>7, <1>8 DEF SlotsExact

LEMMA DisconnectSlots ==
  ASSUME TypeInv, Kernel, SlotsExact, i \in UsedSlots, Disconnect(file[sock])
  PROVE  SlotsExact'
<1> USE DEF TypeInv, TypeOK
<1>1. /\ file' = [f \in Fd |-> IF f \in {sock} THEN "free" ELSE file[f]]
      /\ tcp_conn_socks' = [tcp_conn_socks EXCEPT ![i] = NoFd]
      /\ tcp_conn_count' = tcp_conn_count - 1
  BY CloseFile DEF Disconnect
<1>2. UsedSlots' = UsedSlots \ {i}
  BY <1>1 DEF UsedSlots, FreeSlots
<1>3. Cardinality(UsedSlots') = Cardinality(UsedSlots) - 1
  BY <1>2, UsedFinite, FS_RemoveElement
<1>4. \A s \in UsedSlots' : /\ s \in UsedSlots /\ s # i
                            /\ tcp_conn_socks'[s] = tcp_conn_socks[s]
                            /\ tcp_conn_socks[s] \in Fd /\ tcp_conn_socks[s] # sock
  BY <1>1, <1>2 DEF UsedSlots, FreeSlots, SlotsExact, sock
<1>5. \A f \in Fd : file'[f] = IF f = sock THEN "free" ELSE file[f]
  BY <1>1
<1>6. \A f \in Fd : file'[f] \in Client => \E s \in UsedSlots' : tcp_conn_socks'[s] = f
  <2> SUFFICES ASSUME NEW f \in Fd, file'[f] \in Client
               PROVE  \E s \in UsedSlots' : tcp_conn_socks'[s] = f
    OBVIOUS
  <2>1. f # sock /\ file[f] \in Client
    BY <1>5, NamesDistinct
  <2>2. PICK s \in UsedSlots : tcp_conn_socks[s] = f
    BY <2>1 DEF SlotsExact
  <2>3. s # i
    BY <2>1, <2>2 DEF sock
  <2> QED
    BY <1>2, <1>4, <2>2, <2>3
<1>7. tcp_conn_count' = Cardinality(UsedSlots')
  BY <1>1, <1>3 DEF SlotsExact
<1>8. \A s, t \in UsedSlots' : tcp_conn_socks'[s] = tcp_conn_socks'[t] => s = t
  BY <1>4 DEF SlotsExact
<1>9. \A s \in UsedSlots' : file'[tcp_conn_socks'[s]] \in Client
  BY <1>4, <1>5 DEF SlotsExact
<1> QED
  BY <1>6, <1>7, <1>8, <1>9 DEF SlotsExact

LEMMA PoolNext ==
  TypeInv /\ Kernel /\ Handles /\ Pool /\ Stage /\ [Next]_vars => Pool'
<1> SUFFICES ASSUME TypeInv, Kernel, Handles, Pool, Stage, [Next]_vars PROVE Pool'
  OBVIOUS
<1> USE NamesDistinct DEF TypeInv, TypeOK
<1>1. CASE /\ UNCHANGED <<pool, mb_mapping>>
           /\ \A f \in Fd : file'[f] \in Client <=> file[f] \in Client
           /\ pc' \in {"init_rtu", "init_mapping"} =>
                mb_mapping \/ ~enable_tcp \/ pc \in {"init_rtu", "init_mapping"}
  BY <1>1, SlotsFrame DEF Pool
<1>2. CASE InitTcp
  <2>1. CASE UNCHANGED <<pool, file>> /\ (pc' = "init_rtu" => ~enable_tcp)
    <3>1. UNCHANGED mb_mapping /\ pc' \in {"init_rtu", "while"}
      BY <1>2 DEF InitTcp
    <3> QED
      BY <1>1, <2>1, <3>1
  <2>2. CASE ~(UNCHANGED <<pool, file>> /\ (pc' = "init_rtu" => ~enable_tcp))
    <3>1. PICK f \in Fd : file' = [file EXCEPT ![f] = "listener"]
      BY <1>2, <2>2 DEF InitTcp, tcp
    <3>2. /\ tcp_conn_socks' = [s \in Slot |-> NoFd] /\ tcp_conn_count' = 0
          /\ ~mb_mapping /\ UNCHANGED mb_mapping
      BY <1>2, <2>2 DEF InitTcp, InitNeeded, tcp
    <3>3. UsedSlots' = {}
      BY <3>2 DEF UsedSlots, FreeSlots
    <3>4. \A f1 \in Fd : file'[f1] \notin Client
      BY <3>1, <3>2 DEF Pool
    <3> QED
      BY <3>2, <3>3, <3>4, FS_EmptySet DEF Pool, SlotsExact
  <2> QED
    BY <2>1, <2>2
<1>3. CASE InitRtu \/ Reconnect
  <2>1. UNCHANGED <<pool, mb_mapping>> /\ (pc = "init_rtu" \/ pc' = "while")
    BY <1>3 DEF InitRtu, Reconnect, tcp
  <2>2. \A f \in Fd : file'[f] \in Client <=> file[f] \in Client
    <3>1. CASE UNCHANGED file
      BY <3>1
    <3>2. CASE ConnectRtu
      BY <3>2 DEF ConnectRtu, LowestFree, OpenFds
    <3> QED
      BY <1>3, <3>1, <3>2 DEF InitRtu, Reconnect, ConnectRtuFails
  <2> QED
    BY <1>1, <2>1, <2>2
<1>4. CASE InitMapping
  <2>1. /\ pc = "init_mapping" /\ UNCHANGED <<file, pool>> /\ ~mb_mapping
        /\ pc' \in {"while", "cleanup"}
    BY <1>4 DEF InitMapping, net, tcp, Stage
  <2> QED
    BY <2>1, SlotsFrame DEF Pool
<1>5. CASE Release /\ mb_mapping /\ pc' \in {"accept", "exited"}
  <2>1. ~mb_mapping'
    BY <1>5 DEF Release
  <2>2. file' = [f \in Fd |-> IF f \in TcpFds \cup RtuFds THEN "free" ELSE file[f]]
    BY <1>5, CloseFile DEF Release
  <2>3. \A f \in Fd : file[f] \in Client => f \in TcpFds
    BY <1>5 DEF Pool, SlotsExact, UsedSlots, TcpFds
  <2> QED
    BY <1>5, <2>1, <2>2, <2>3 DEF Pool
<1>6. CASE CleanupStopped \/ FinalCleanup
  BY <1>1, <1>5, <1>6 DEF CleanupStopped, FinalCleanup, net, tcp
<1>7. CASE Accept
  <2>1. mb_mapping /\ UNCHANGED mb_mapping /\ pc' \in {"clients", "rtu", "blocked"}
    BY <1>7 DEF Accept, Handling, Stage
  <2>2. CASE ListenerReady /\ backlog # <<>> /\ AcceptClient
    BY <2>1, <2>2, AcceptSlots DEF Pool, ListenerReady
  <2>3. CASE ListenerReady /\ Close({tcp_listen_sock}) /\ UNCHANGED pool
    <3>1. file[tcp_listen_sock] = "listener"
      BY <2>3 DEF ListenerReady, Handles
    <3>2. file' = [f \in Fd |-> IF f \in {tcp_listen_sock} THEN "free" ELSE file[f]]
      BY <2>3, CloseFile
    <3> QED
      BY <1>1, <2>1, <2>3, <3>1, <3>2
  <2>4. CASE UNCHANGED <<pool, file>>
    BY <1>1, <2>1, <2>4
  <2> QED
    BY <1>7, <2>2, <2>3, <2>4 DEF Accept, RejectClient, AcceptFails, net
<1>8. CASE HandleClient
  <2>1. /\ mb_mapping /\ enable_tcp /\ i \in Slot /\ sock # NoFd
        /\ UNCHANGED mb_mapping
    BY <1>8 DEF HandleClient, Stage
  <2>2. CASE Disconnect(file[sock])
    <3>1. i \in UsedSlots
      BY <2>1 DEF UsedSlots, FreeSlots, sock
    <3> QED
      BY <2>1, <2>2, <3>1, DisconnectSlots DEF Pool
  <2>3. CASE UNCHANGED <<pool, file>>
    BY <1>1, <2>1, <2>3
  <2> QED
    BY <1>8, <2>2, <2>3 DEF HandleClient, Serve, net
<1>9. CASE HandleRtu
  <2>1. UNCHANGED <<pool, mb_mapping>> /\ pc' \in {"reconnect", "blocked"}
    BY <1>9 DEF HandleRtu, tcp
  <2>2. \A f \in Fd : file'[f] \in Client <=> file[f] \in Client
    <3>1. CASE UNCHANGED file
      BY <3>1
    <3>2. CASE RtuReady /\ DropRtu
      <4>1. /\ file' = [f \in Fd |-> IF f \in {ctx_rtu} THEN "free" ELSE file[f]]
            /\ file[ctx_rtu] = "serial"
        BY <3>2, CloseFile DEF DropRtu, RtuReady, Handles
      <4> QED
        BY <4>1
    <3> QED
      BY <1>9, <3>1, <3>2 DEF HandleRtu, ServeRtu, net
  <2> QED
    BY <1>1, <2>1, <2>2
<1>10. CASE \/ LoopTest \/ Select \/ SelectInterrupted \/ SelectFails \/ ReadCommand
            \/ ReadEof \/ NoCommand \/ NoInit \/ SkipHandling \/ SkipClient \/ Environment
            \/ UNCHANGED vars
  <2>1. UNCHANGED <<file, pool>>
    BY <1>10, QuietSteps DEF tcp
  <2>2. UNCHANGED mb_mapping /\ (pc' \in {"init_rtu", "init_mapping"} => pc' = pc)
    BY <1>10
       DEF LoopTest, Select, SelectInterrupted, SelectFails, ReadCommand, process_json, ReadEof,
           NoCommand, NoInit, SkipHandling, SkipClient, NextSlot, Environment, Signal,
           WritePart, WriteCommand, CloseStdin, ClientConnects, ClientSends, ClientLeaves, Unplug, Plug,
           SerialBytes, vars, program
  <2> QED
    BY <1>1, <2>1, <2>2
<1> QED
  BY <1>2, <1>3, <1>4, <1>6, <1>7, <1>8, <1>9, <1>10 DEF Next, Server, Terminated

-----------------------------------------------------------------------------
(* select()'s answer.                                                      *)

\* Where the answer is still to be used as a whole.
Pending ==
  \/ pc \in {"stdin", "init", "init_rtu", "init_mapping", "cleanup"}
  \/ pc = "accept" /\ server_state = "running"

\* The slots that the client loop has still to look at hold open connections.
LEMMA SlotsOpen ==
  ASSUME TypeInv, Kernel, SlotsExact
  PROVE  \A s \in UsedSlots : /\ s \in Slot /\ tcp_conn_socks[s] \in Fd
                              /\ file[tcp_conn_socks[s]] \in Client
                              /\ \A t \in UsedSlots :
                                   t # s => file[tcp_conn_socks[t]] # file[tcp_conn_socks[s]]
<1>1. \A s \in UsedSlots : /\ s \in Slot /\ tcp_conn_socks[s] \in Fd
                           /\ file[tcp_conn_socks[s]] \in Client
  BY DEF TypeInv, TypeOK, SlotsExact, UsedSlots, FreeSlots
<1>2. ASSUME NEW s \in UsedSlots, NEW t \in UsedSlots, t # s
      PROVE  file[tcp_conn_socks[t]] # file[tcp_conn_socks[s]]
  <2>1. tcp_conn_socks[t] # tcp_conn_socks[s]
    BY <1>2 DEF SlotsExact
  <2> QED
    BY <1>1, <2>1 DEF Kernel
<1> QED
  BY <1>1, <1>2

\* A descriptor that was free is not in the answer, so opening it is harmless.
LEMMA OpenAnswer ==
  ASSUME TypeInv, NEW g \in Fd, NEW x, LowestFree(g), file' = [file EXCEPT ![g] = x],
         UNCHANGED <<backlog, inbox, fds>>, \A f \in fds : StillReadable(f)
  PROVE  \A f \in fds' : StillReadable(f)'
<1>1. file[g] = "free"
  BY DEF LowestFree, OpenFds
<1>2. \A f \in fds : f \in Fd /\ f # g /\ file'[f] = file[f]
  BY <1>1 DEF StillReadable, TypeInv, TypeOK
<1> QED
  BY <1>2 DEF StillReadable

\* Accept leaves every connection that the answer names readable.
LEMMA AcceptAnswer ==
  ASSUME TypeInv, Kernel, Handles, SlotsExact, \A f \in fds : StillReadable(f),
         UNCHANGED fds,
         \/ backlog # <<>> /\ (AcceptClient \/ RejectClient)
         \/ tcp_listen_sock # NoFd /\ Close({tcp_listen_sock}) /\ UNCHANGED pool
         \/ UNCHANGED <<pool, net>>
  PROVE  \A s \in UsedSlots' :
           tcp_conn_socks'[s] \in fds' => inbox'[file'[tcp_conn_socks'[s]]] # "none"
<1> USE NamesDistinct DEF TypeInv, TypeOK
<1>0. \A s \in UsedSlots : tcp_conn_socks[s] \in fds => inbox[file[tcp_conn_socks[s]]] # "none"
  BY SlotsOpen DEF StillReadable
<1>1. CASE backlog # <<>> /\ AcceptClient
  <2>1. PICK slot \in Slot, g \in Fd :
          /\ LowestFree(g) /\ file' = [file EXCEPT ![g] = Head(backlog)]
          /\ tcp_conn_socks' = [tcp_conn_socks EXCEPT ![slot] = g]
          /\ UNCHANGED inbox
    BY <1>1 DEF AcceptClient
  <2>2. file[g] = "free" /\ g \notin fds
    BY <2>1 DEF LowestFree, OpenFds, StillReadable
  <2>3. \A s \in UsedSlots' : s = slot \/ (s \in UsedSlots /\ tcp_conn_socks'[s] = tcp_conn_socks[s])
    BY <2>1 DEF UsedSlots, FreeSlots
  <2>4. \A s \in UsedSlots : tcp_conn_socks[s] # g /\ file'[tcp_conn_socks[s]] = file[tcp_conn_socks[s]]
    BY <2>1, <2>2, SlotsOpen
  <2> QED
    BY <1>0, <2>1, <2>2, <2>3, <2>4
<1>2. CASE backlog # <<>> /\ RejectClient
  <2>1. \A s \in UsedSlots : file[tcp_conn_socks[s]] # Head(backlog)
    <3>1. \A f \in Fd : file[f] # Head(backlog)
      BY <1>2, QueueFront DEF Kernel
    <3> QED
      BY <3>1, SlotsOpen
  <2>2. UNCHANGED <<file, pool>> /\ inbox' = [inbox EXCEPT ![Head(backlog)] = "none"]
    BY <1>2 DEF RejectClient
  <2>3. UNCHANGED UsedSlots
    BY <2>2 DEF pool, UsedSlots, FreeSlots
  <2> QED
    BY <1>0, <2>1, <2>2, <2>3, SlotsOpen DEF pool
<1>3. CASE tcp_listen_sock # NoFd /\ Close({tcp_listen_sock}) /\ UNCHANGED pool
  <2>1. file[tcp_listen_sock] = "listener"
    BY <1>3 DEF Handles
  <2>2. \A s \in UsedSlots : /\ tcp_conn_socks[s] # tcp_listen_sock
                             /\ file[tcp_conn_socks[s]] \notin Queued
    <3>1. \A f \in Fd : file[f] \notin Queued
      BY DEF Kernel, Queued
    <3> QED
      BY <2>1, <3>1, SlotsOpen
  <2>3. \A c \in Client : c \notin Queued => inbox'[c] = inbox[c]
    BY <1>3, <2>1 DEF Close
  <2>4. \A s \in UsedSlots : file'[tcp_conn_socks[s]] = file[tcp_conn_socks[s]]
    BY <1>3, <2>2, SlotsOpen DEF Close
  <2>5. UNCHANGED UsedSlots
    BY <1>3 DEF pool, UsedSlots, FreeSlots
  <2> QED
    BY <1>0, <1>3, <2>2, <2>3, <2>4, <2>5, SlotsOpen DEF pool
<1>4. CASE UNCHANGED <<pool, net>>
  BY <1>0, <1>4 DEF pool, net, UsedSlots, FreeSlots
<1> QED
  BY <1>1, <1>2, <1>3, <1>4

\* Serving or dropping one connection leaves the others as they were.
LEMMA HandleAnswer ==
  ASSUME TypeInv, Kernel, SlotsExact, i \in UsedSlots,
         Serve(file[sock]) \/ Disconnect(file[sock])
  PROVE  \A s \in UsedSlots' :
           s # i => /\ s \in UsedSlots /\ tcp_conn_socks'[s] = tcp_conn_socks[s]
                    /\ inbox'[file'[tcp_conn_socks[s]]] = inbox[file[tcp_conn_socks[s]]]
<1> USE NamesDistinct DEF TypeInv, TypeOK
<1> DEFINE c == file[sock]
<1>1. c \in Client /\ sock \in Fd /\ \A s \in UsedSlots : s # i => file[tcp_conn_socks[s]] # c
  BY SlotsOpen DEF sock
<1>2. CASE Serve(c)
  BY <1>1, <1>2, SlotsOpen DEF Serve, pool, UsedSlots, FreeSlots
<1>3. CASE Disconnect(c)
  <2>1. tcp_conn_socks' = [tcp_conn_socks EXCEPT ![i] = NoFd] /\ Close({sock})
    BY <1>3 DEF Disconnect
  <2>2. file[sock] # "listener"
    BY <1>1
  <2>3. \A d \in Client : d # c => inbox'[d] = inbox[d]
    BY <2>1, <2>2 DEF Close
  <2>4. \A f \in Fd : f # sock => file'[f] = file[f]
    BY <2>1 DEF Close
  <2>5. \A s \in UsedSlots' : s # i => s \in UsedSlots /\ tcp_conn_socks'[s] = tcp_conn_socks[s]
    BY <2>1 DEF UsedSlots, FreeSlots
  <2> QED
    BY <1>1, <2>3, <2>4, <2>5, SlotsOpen
<1> QED
  BY <1>2, <1>3

LEMMA AnswerNext == IInv /\ [Next]_vars => AnswerHolds'
<1> SUFFICES ASSUME IInv, [Next]_vars PROVE AnswerHolds'
  OBVIOUS
<1>0. TypeInv /\ Kernel /\ Handles /\ Pool /\ Stage /\ AnswerHolds
  BY DEF IInv, TypeInv
<1> USE <1>0 DEF TypeInv, TypeOK
<1>1. CASE pc' \notin {"stdin", "init", "init_rtu", "init_mapping", "cleanup", "accept", "clients", "blocked"}
  BY <1>1 DEF AnswerHolds
<1>2. CASE /\ Pending /\ pc' # "clients" /\ pc' # "blocked"
           /\ UNCHANGED <<fds, net>>
  BY <1>2 DEF AnswerHolds, Pending, StillReadable, net
<1>3. CASE LoopTest \/ SelectInterrupted \/ SelectFails \/ SkipHandling \/ FinalCleanup
           \/ HandleRtu \/ Reconnect
  <2>1. HandleRtu => pc' = "reconnect"
    BY DEF HandleRtu, RtuReady, LineHolds, IInv
  <2> QED
    BY <1>1, <1>3, <2>1 DEF LoopTest, SelectInterrupted, SelectFails, SkipHandling,
                            FinalCleanup, Reconnect
<1>4. CASE Select
  <2>1. /\ pc' = "stdin" /\ UNCHANGED net
        /\ \A f \in fds' : file[f] # "free" /\ Readable(f) /\ f \in Fd
    BY <1>4 DEF Select, OpenFds
  <2>2. \A f \in fds' : StillReadable(f)
    BY <2>1, NamesDistinct DEF Readable, StillReadable
  <2> QED
    BY <2>1, <2>2 DEF AnswerHolds, StillReadable, net
<1>5. CASE ReadCommand \/ ReadEof \/ NoCommand \/ NoInit \/ InitMapping
  BY <1>1, <1>2, <1>5 DEF ReadCommand, process_json, ReadEof, NoCommand, NoInit, InitMapping, Pending
<1>6. CASE InitTcp \/ InitRtu
  <2>1. /\ UNCHANGED <<fds, backlog, inbox>> /\ pc' \in {"while", "init_rtu", "init_mapping"}
        /\ \A f \in fds : StillReadable(f)
    BY <1>6 DEF InitTcp, InitRtu, AnswerHolds
  <2>2. UNCHANGED file \/ \E g \in Fd, x \in {"listener", "serial"} :
                            LowestFree(g) /\ file' = [file EXCEPT ![g] = x]
    BY <1>6 DEF InitTcp, InitRtu, ConnectRtu, ConnectRtuFails
  <2>3. \A f \in fds' : StillReadable(f)'
    BY <2>1, <2>2, OpenAnswer DEF StillReadable
  <2> QED
    BY <2>1, <2>3 DEF AnswerHolds
<1>7. CASE CleanupStopped
  <2>1. CASE server_state = "running"
    BY <1>2, <1>7, <2>1 DEF CleanupStopped, Pending
  <2>2. CASE server_state # "running"
    BY <1>7, <2>2 DEF CleanupStopped, AnswerHolds, control
  <2> QED
    BY <2>1, <2>2
<1>8. CASE Accept
  <2>1. /\ mb_mapping /\ i' = 0 /\ UNCHANGED fds /\ \A f \in fds : StillReadable(f)
        /\ pc' = "clients" => enable_tcp
        /\ pc' \in {"clients", "rtu", "blocked"}
    BY <1>8 DEF Accept, Handling, Stage, AnswerHolds, IInv, IndexReset
  <2>2. pc' # "blocked"
    BY <1>8, <2>1 DEF Accept, ListenerReady, Handles, StillReadable
  <2>3. pc' = "clients" =>
          \A s \in UsedSlots' :
            tcp_conn_socks'[s] \in fds' => inbox'[file'[tcp_conn_socks'[s]]] # "none"
    <3> SUFFICES ASSUME pc' = "clients"
                 PROVE  \A s \in UsedSlots' : tcp_conn_socks'[s] \in fds' =>
                          inbox'[file'[tcp_conn_socks'[s]]] # "none"
      OBVIOUS
    <3>1. SlotsExact
      BY <2>1 DEF Pool
    <3>2. \/ backlog # <<>> /\ (AcceptClient \/ RejectClient)
          \/ tcp_listen_sock # NoFd /\ Close({tcp_listen_sock}) /\ UNCHANGED pool
          \/ UNCHANGED <<pool, net>>
      BY <1>8 DEF Accept, AcceptFails, ListenerReady
    <3> QED
      BY <2>1, <3>1, <3>2, AcceptAnswer
  <2> QED
    BY <2>1, <2>2, <2>3 DEF AnswerHolds
<1>9. CASE HandleClient
  <2> DEFINE c == file[sock]
  <2>1. /\ mb_mapping /\ enable_tcp /\ i \in Slot /\ pc = "clients" /\ UNCHANGED fds
        /\ sock # NoFd /\ sock \in fds
    BY <1>9 DEF HandleClient, Stage
  <2>2. SlotsExact /\ i \in UsedSlots /\ i \in Int
    BY <2>1, SlotFacts DEF Pool, UsedSlots, FreeSlots, sock
  <2>3. c \in Client /\ inbox[c] # "none"
    BY <2>1, <2>2, SlotsOpen DEF AnswerHolds, sock
  <2>4. (Serve(c) \/ Disconnect(c)) /\ i' = i + 1 /\ pc' \in {"clients", "rtu"}
    BY <1>9, <2>3 DEF HandleClient, NextSlot
  <2>5. ASSUME NEW s \in UsedSlots', s >= i', tcp_conn_socks'[s] \in fds'
        PROVE  inbox'[file'[tcp_conn_socks'[s]]] # "none"
    <3>1. s \in Slot /\ s # i /\ s >= i
      <4>1. s \in Slot
        BY <2>5 DEF UsedSlots
      <4> QED
        BY <2>1, <2>4, <2>5, <4>1, SlotAfter
    <3> QED
      BY <2>1, <2>2, <2>4, <2>5, <3>1, HandleAnswer DEF AnswerHolds
  <2> QED
    BY <2>4, <2>5 DEF AnswerHolds
<1>10. CASE SkipClient
  <2>1. /\ pc = "clients" /\ i \in Slot /\ i' = i + 1 /\ pc' \in {"clients", "rtu"}
        /\ UNCHANGED <<fds, tcp, net>>
    BY <1>10 DEF SkipClient, NextSlot
  <2>2. UNCHANGED <<UsedSlots, fds, tcp_conn_socks, inbox, file>>
    BY <2>1 DEF UsedSlots, FreeSlots, tcp, pool, net
  <2>3. \A s \in UsedSlots : s >= i' => s >= i
    BY <2>1, SlotAfter DEF UsedSlots
  <2>4. \A s \in UsedSlots :
          s >= i /\ tcp_conn_socks[s] \in fds => inbox[file[tcp_conn_socks[s]]] # "none"
    BY <2>1 DEF AnswerHolds
  <2>5. \A s \in UsedSlots' :
          s >= i' /\ tcp_conn_socks'[s] \in fds' => inbox'[file'[tcp_conn_socks'[s]]] # "none"
    BY <2>2, <2>3, <2>4
  <2> QED
    BY <2>1, <2>5 DEF AnswerHolds
<1>11. CASE Environment
  <2>1. /\ UNCHANGED <<pc, i, fds, pool, file>>
        /\ server_state' = server_state \/ server_state' = "stopped"
        /\ backlog # <<>> => backlog' # <<>>
        /\ \A c \in Client : inbox[c] # "none" => inbox'[c] # "none"
    <3>1. CASE UNCHANGED net
      <4>1. Signal \/ UNCHANGED program
        BY <1>11 DEF Environment, WritePart, WriteCommand, CloseStdin, ClientConnects, ClientSends,
                     ClientLeaves, Unplug, Plug, SerialBytes
      <4>2. UNCHANGED <<pc, i, fds, pool>> /\ server_state' \in {server_state, "stopped"}
        BY <4>1 DEF Signal, program, tcp, pool
      <4> QED
        BY <3>1, <4>2 DEF net
    <3>2. CASE \E c \in Client : ClientConnects(c) \/ ClientSends(c) \/ ClientLeaves(c)
      <4>1. UNCHANGED <<program, file>>
        BY <3>2 DEF ClientConnects, ClientSends, ClientLeaves
      <4>2. backlog # <<>> => backlog' # <<>>
        BY <3>2 DEF ClientConnects, ClientSends, ClientLeaves
      <4>3. \A c \in Client : inbox[c] # "none" => inbox'[c] # "none"
        BY <3>2 DEF ClientConnects, ClientSends, ClientLeaves
      <4> QED
        BY <4>1, <4>2, <4>3 DEF program, control, pool
    <3> QED
      BY <1>11, <3>1, <3>2 DEF Environment, Signal, WritePart, WriteCommand, CloseStdin, Unplug, Plug,
           SerialBytes
  <2>2. UNCHANGED UsedSlots
    BY <2>1 DEF UsedSlots, FreeSlots, pool
  <2>3. \A f \in fds : StillReadable(f) => StillReadable(f)'
    BY <2>1 DEF StillReadable
  <2>4. pc = "clients" => \A s \in UsedSlots : file[tcp_conn_socks[s]] \in Client
    BY DEF Stage, Pool, SlotsExact
  <2> QED
    BY <2>1, <2>2, <2>3, <2>4 DEF AnswerHolds, pool
<1>12. CASE UNCHANGED vars
  BY <1>12 DEF AnswerHolds, StillReadable, UsedSlots, FreeSlots, vars, program, tcp, pool, net, control
<1> QED
  BY <1>3, <1>4, <1>5, <1>6, <1>7, <1>8, <1>9, <1>10, <1>11, <1>12 DEF Next, Server, Terminated

\* The serial line keeps what select() saw until it is read: bytes stay, and a
\* hang-up stays until the context is dropped.  A line connected meanwhile has
\* a number that was free, which is not in the answer.
LEMMA LineNext == IInv /\ [Next]_vars => LineHolds'
<1> SUFFICES ASSUME IInv, [Next]_vars PROVE LineHolds'
  OBVIOUS
<1>0. TypeOK /\ Handles /\ AnswerHolds /\ LineHolds
  BY DEF IInv
<1> DEFINE Until == {"stdin", "init", "init_rtu", "init_mapping", "cleanup", "accept", "clients", "rtu"}
<1>1. CASE pc' \notin Until
  BY <1>1 DEF LineHolds
<1>2. CASE pc \in Until /\ UNCHANGED <<fds, ctx_rtu, serial>>
  BY <1>0, <1>2 DEF LineHolds, serial
<1>3. CASE LoopTest \/ SelectInterrupted \/ SelectFails \/ SkipHandling \/ FinalCleanup
           \/ HandleRtu \/ Reconnect
  BY <1>1, <1>3 DEF LoopTest, SelectInterrupted, SelectFails, SkipHandling, FinalCleanup,
                    HandleRtu, Reconnect
<1>4. CASE Select
  <2>1. ctx_rtu # NoFd => file[ctx_rtu] = "serial"
    BY <1>0 DEF Handles
  <2>2. \A f \in fds' : Readable(f)
    BY <1>4 DEF Select
  <2>3. UNCHANGED <<ctx_rtu, serial>>
    BY <1>4 DEF Select
  <2> QED
    BY <2>1, <2>2, <2>3, NamesDistinct DEF LineHolds, Readable, serial
<1>5. CASE ReadCommand \/ ReadEof \/ NoCommand \/ NoInit \/ InitTcp \/ InitMapping
  BY <1>2, <1>5 DEF ReadCommand, ReadEof, NoCommand, NoInit, InitTcp, InitMapping
<1>6. CASE InitRtu
  <2>1. CASE UNCHANGED <<ctx_rtu, serial>>
    BY <1>2, <1>6, <2>1 DEF InitRtu
  <2>2. CASE ConnectRtu
    <3>1. ctx_rtu' \in Fd /\ file[ctx_rtu'] = "free"
      BY <2>2 DEF ConnectRtu, LowestFree, OpenFds
    <3>2. ctx_rtu' \notin fds'
      BY <1>0, <1>6, <3>1 DEF InitRtu, AnswerHolds, StillReadable
    <3> QED
      BY <3>2 DEF LineHolds
  <2>3. CASE ConnectRtuFails
    BY <2>3 DEF ConnectRtuFails, LineHolds
  <2> QED
    BY <1>6, <2>1, <2>2, <2>3 DEF InitRtu
<1>7. CASE CleanupStopped
  <2>1. UNCHANGED <<fds, serial>> /\ (UNCHANGED ctx_rtu \/ ctx_rtu' = NoFd)
    BY <1>7 DEF CleanupStopped, Release
  <2>2. CASE ctx_rtu' = NoFd
    BY <2>2 DEF LineHolds
  <2> QED
    BY <1>2, <1>7, <2>1, <2>2 DEF CleanupStopped
<1>8. CASE Accept
  BY <1>2, <1>8 DEF Accept
<1>9. CASE HandleClient \/ SkipClient
  BY <1>2, <1>9 DEF HandleClient, SkipClient
<1>10. CASE Environment
  <2>1. UNCHANGED <<pc, fds, ctx_rtu>>
    BY <1>10 DEF Environment, Signal, WritePart, WriteCommand, CloseStdin, ClientConnects,
         ClientSends, ClientLeaves, Unplug, Plug, SerialBytes, program
  <2>2. ctx_rtu # NoFd /\ (hangup \/ serial_in) => hangup' \/ serial_in'
    BY <1>0, <1>10 DEF Environment, Signal, WritePart, WriteCommand, CloseStdin, ClientConnects,
         ClientSends, ClientLeaves, Unplug, Plug, SerialBytes, serial, TypeOK
  <2> QED
    BY <1>0, <2>1, <2>2 DEF LineHolds
<1>11. CASE UNCHANGED vars
  BY <1>0, <1>11 DEF LineHolds, vars, program, serial
<1> QED
  BY <1>3, <1>4, <1>5, <1>6, <1>7, <1>8, <1>9, <1>10, <1>11 DEF Next, Server, Terminated

-----------------------------------------------------------------------------
(* The invariant, and what follows from it.                                *)

LEMMA InitInv == Init => IInv
<1> SUFFICES ASSUME Init PROVE IInv
  OBVIOUS
<1>1. TypeInv
  BY InitType
<1>2. \A f \in Fd : file[f] \in {"stdin", "free"} /\ (file[f] = "stdin" => f = STDIN_FILENO)
  BY DEF Init
<1>3. Kernel
  BY <1>2, NamesDistinct DEF Init, Kernel
<1>4. Handles /\ Pool /\ Stage /\ AnswerHolds /\ LineHolds
  BY <1>2, NamesDistinct DEF Init, Handles, Pool, Stage, AnswerHolds, LineHolds
<1> QED
  BY <1>1, <1>3, <1>4 DEF IInv, TypeInv

LEMMA NextInv == IInv /\ [Next]_vars => IInv'
BY NextType, KernelNext, HandlesNext, PoolNext, StageNext, AnswerNext, LineNext DEF IInv, TypeInv

THEOREM Invariance == Spec => []IInv
BY InitInv, NextInv, PTL DEF Spec

\* The program never closes its own standard input, although its slots hold
\* the number 0 until the first successful listen.
THEOREM StdinStaysOpen == Spec => []StdinOpen
<1>1. IInv => StdinOpen
  BY DEF IInv, Kernel, StdinOpen
<1> QED
  BY Invariance, <1>1, PTL

\* The slot table is exact whenever the server is initialised: for every
\* number of slots and masters, in every order of the events.
THEOREM PoolIsExact == Spec => []PoolExact
<1>1. IInv => PoolExact
  <2> SUFFICES ASSUME IInv, mb_mapping, enable_tcp PROVE PoolExact
    BY DEF PoolExact
  <2>1. SlotsExact
    BY DEF IInv, Pool
  <2>2. \A c \in Connected : \E s \in UsedSlots : file[tcp_conn_socks[s]] = c
    BY <2>1 DEF SlotsExact, Connected
  <2> QED
    BY <2>1, <2>2 DEF SlotsExact, PoolExact
<1> QED
  BY Invariance, <1>1, PTL

\* No accept and no receive ever waits: what select() reported readable on a
\* socket or on the serial line is still readable when the loop gets to it.
THEOREM LoopNeverBlocks == Spec => []NeverBlocked
<1>1. IInv => NeverBlocked
  BY DEF IInv, AnswerHolds, NeverBlocked
<1> QED
  BY Invariance, <1>1, PTL

\* select() is given open descriptors only, and each of the handles stands
\* for what the loop takes it for.
THEOREM WatchesOpenOnly == Spec => []WatchedOpen
<1>1. IInv => WatchedOpen
  <2> SUFFICES ASSUME IInv PROVE WatchedOpen
    OBVIOUS
  <2>1. Handles /\ Kernel /\ TypeOK
    BY DEF IInv
  <2>2. \A f \in FdSet : f \in Fd /\ file[f] # "free"
    BY <2>1, NamesDistinct DEF FdSet, TcpFds, RtuFds, Handles, Kernel, TypeOK
  <2>3. Watched \subseteq OpenFds
    BY <2>2 DEF Watched, OpenFds
  <2> QED
    BY <2>1, <2>3 DEF WatchedOpen, Handles
<1> QED
  BY Invariance, <1>1, PTL
=============================================================================
