---------------------------- MODULE ModbusBackend ----------------------------
(***************************************************************************)
(* The modular server of src/src: the backend object, its TCP and RTU      *)
(* adapters, and the second RTU adapter of core/server_controller.c.  The  *)
(* loop that would call them is declared (server_controller.h) and defined *)
(* nowhere, so the caller here makes any call, in any order, on readiness  *)
(* select() would report, but keeps two rules that no adapter checks: it   *)
(* initialises no context that is live, and cleans up before it destroys.  *)
(***************************************************************************)
EXTENDS Integers, FiniteSets

CONSTANTS
  Client,           \* masters, each with at most one connection
  Fd,               \* descriptor numbers the process may hold
  MAX_TCP_CLIENTS   \* size of the slot table

NoFd == -1
Slot == 0 .. MAX_TCP_CLIENTS - 1
RtuAdapter == {"rtu_adapter", "server_controller"}

ASSUME BackendAssumption ==
  /\ IsFiniteSet(Client) /\ IsFiniteSet(Fd) /\ Fd \subseteq Nat
  /\ Client \cap {"free", "listener", "serial"} = {}
  /\ MAX_TCP_CLIENTS \in Nat \ {0}

VARIABLES
  linked,           \* which of the two RTU adapters the program is built with
  backend,          \* TRUE when the ModbusBackend is allocated
  ctx_tcp,          \* TRUE when the TCP context is allocated
  tcp_listen_sock,
  tcp_conn_socks,
  tcp_conn_count,
  ctx_rtu,          \* descriptor of the RTU context, NoFd for NULL
  rc,               \* what the last call returned
  file,             \* kernel: what each descriptor stands for
  queued,           \* masters the listener holds
  inbox,            \* what a receive on a master's connection finds
  plugged,          \* the serial device is there
  hangup            \* it left while ctx_rtu was connected: that handle is dead

tcp  == <<ctx_tcp, tcp_listen_sock, tcp_conn_socks, tcp_conn_count>>
net  == <<queued, inbox>>
line == <<plugged, hangup>>
backendVars == <<linked, backend, tcp, ctx_rtu, rc, file, net, line>>

OpenFds == {f \in Fd : file[f] # "free"}
TcpFds == ({tcp_listen_sock} \cup {tcp_conn_socks[s] : s \in Slot}) \ {NoFd}
Connected == {c \in Client : \E f \in Fd : file[f] = c}

BackendInit ==
  /\ linked \in RtuAdapter
  /\ backend = FALSE
  /\ ctx_tcp = FALSE
  /\ tcp_listen_sock = NoFd
  /\ tcp_conn_socks = [s \in Slot |-> NoFd]
  /\ tcp_conn_count = 0
  /\ ctx_rtu = NoFd
  /\ rc = 0
  /\ file = [f \in Fd |-> "free"]
  /\ queued = {}
  /\ inbox = [c \in Client |-> "none"]
  /\ plugged \in BOOLEAN
  /\ hangup = FALSE

-----------------------------------------------------------------------------
(* The backend object.                                                     *)

modbus_backend_create ==
  /\ ~backend
  /\ backend' \in BOOLEAN    \* malloc
  /\ ctx_tcp' = FALSE
  /\ ctx_rtu' = NoFd
  /\ tcp_listen_sock' = NoFd
  /\ tcp_conn_count' = 0
  /\ tcp_conn_socks' = [s \in Slot |-> NoFd]
  /\ rc' = 0
  /\ UNCHANGED <<linked, file, net, line>>

modbus_backend_destroy ==
  /\ backend
  /\ backend' = FALSE
  /\ UNCHANGED <<linked, tcp, ctx_rtu, rc, file, net, line>>

-----------------------------------------------------------------------------
(* tcp_adapter.c                                                           *)

\* Nothing tests what ctx_tcp and tcp_listen_sock held before: the call on a
\* backend with a live context would overwrite both and orphan the listener
\* and every connection.  A context whose listen fails is freed.
tcp_adapter_init ==
  /\ backend
  /\ \/ \E f \in Fd \ OpenFds :
          /\ ctx_tcp' = TRUE
          /\ tcp_listen_sock' = f
          /\ file' = [file EXCEPT ![f] = "listener"]
          /\ tcp_conn_socks' = [s \in Slot |-> NoFd]
          /\ tcp_conn_count' = 0
          /\ rc' = 0
     \/ /\ ctx_tcp' = FALSE
        /\ tcp_listen_sock' \in {tcp_listen_sock, NoFd}    \* no context, no listener
        /\ rc' = -1
        /\ UNCHANGED <<tcp_conn_socks, tcp_conn_count, file>>
  /\ UNCHANGED <<linked, backend, ctx_rtu, net, line>>

FreeSlots == {s \in Slot : tcp_conn_socks[s] = NoFd}

\* Mutant of find_free_tcp_client_slot: i <= MAX_TCP_CLIENTS, and what follows
\* the table happens to be -1.
find_free_tcp_client_slot_OneMore(slot) ==
  IF FreeSlots = {} THEN slot = MAX_TCP_CLIENTS
  ELSE slot \in FreeSlots /\ \A s \in FreeSlots : slot <= s

\* The slot is the first one that is free, -1 when none is.
find_free_tcp_client_slot(slot) ==
  IF FreeSlots = {} THEN slot = -1
  ELSE slot \in FreeSlots /\ \A s \in FreeSlots : slot <= s

\* The connection is taken from the queue, and dropped when the table is full.
tcp_adapter_accept_client ==
  /\ ctx_tcp
  /\ \E c \in queued, slot \in -1 .. MAX_TCP_CLIENTS, f \in Fd \ OpenFds :
       /\ find_free_tcp_client_slot(slot)
       /\ queued' = queued \ {c}
       /\ rc' = slot
       /\ IF slot = -1
          THEN /\ inbox' = [inbox EXCEPT ![c] = "none"]
               /\ UNCHANGED <<tcp_conn_socks, tcp_conn_count, file>>
          ELSE /\ file' = [file EXCEPT ![f] = c]
               /\ tcp_conn_socks' = [tcp_conn_socks EXCEPT ![slot] = f]
               /\ tcp_conn_count' = tcp_conn_count + 1
               /\ UNCHANGED inbox
  /\ UNCHANGED <<linked, backend, ctx_tcp, tcp_listen_sock, ctx_rtu, line>>

\* modbus_tcp_accept fails: no descriptor is left, or the master is gone.
tcp_adapter_accept_fails ==
  /\ ctx_tcp /\ queued # {}
  /\ rc' = -1
  /\ UNCHANGED <<linked, backend, tcp, ctx_rtu, file, net, line>>

\* An index out of range, or an empty slot.
tcp_adapter_handle_nobody(client_index) ==
  /\ backend
  /\ client_index \in Slot => tcp_conn_socks[client_index] = NoFd
  /\ rc' = -1
  /\ UNCHANGED <<linked, backend, tcp, ctx_rtu, file, net, line>>

\* Mutant of tcp_adapter_handle_query: a reply that fails drops the master.
tcp_adapter_handle_query_Drops(client_index) ==
  /\ tcp_conn_socks[client_index] # NoFd
  /\ LET sock == tcp_conn_socks[client_index]
     IN  /\ inbox[file[sock]] = "query"
         /\ inbox' = [inbox EXCEPT ![file[sock]] = "none"]
         /\ file' = [file EXCEPT ![sock] = "free"]
  /\ tcp_conn_socks' = [tcp_conn_socks EXCEPT ![client_index] = NoFd]
  /\ tcp_conn_count' = tcp_conn_count - 1
  /\ rc' = -1
  /\ UNCHANGED <<linked, backend, ctx_tcp, tcp_listen_sock, ctx_rtu, queued, line>>

\* A query: answered, or the reply fails and the slot stays; 0 when the
\* library filters it.
tcp_adapter_handle_query(client_index) ==
  /\ tcp_conn_socks[client_index] # NoFd
  /\ LET c == file[tcp_conn_socks[client_index]]
     IN  /\ inbox[c] = "query"
         /\ inbox' = [inbox EXCEPT ![c] = "none"]
  /\ rc' \in {1, 0, -1}
  /\ UNCHANGED <<linked, backend, tcp, ctx_rtu, file, queued, line>>

\* Mutant of tcp_adapter_handle_error: the socket is left to the next accept.
tcp_adapter_handle_error_KeepsSocket(client_index) ==
  /\ tcp_conn_socks[client_index] # NoFd
  /\ LET c == file[tcp_conn_socks[client_index]]
     IN  /\ inbox[c] \in {"broken", "eof"}
         /\ inbox' = [inbox EXCEPT ![c] = "none"]
  /\ tcp_conn_socks' = [tcp_conn_socks EXCEPT ![client_index] = NoFd]
  /\ tcp_conn_count' = tcp_conn_count - 1
  /\ rc' = -1
  /\ UNCHANGED <<linked, backend, ctx_tcp, tcp_listen_sock, ctx_rtu, file, queued, line>>

\* rc = -1: the master left, or what it sent is no whole query in time.
tcp_adapter_handle_error(client_index) ==
  /\ tcp_conn_socks[client_index] # NoFd
  /\ LET sock == tcp_conn_socks[client_index]
         c    == file[sock]
     IN  /\ inbox[c] \in {"broken", "eof"}
         /\ inbox' = [inbox EXCEPT ![c] = "none"]
         /\ file' = [file EXCEPT ![sock] = "free"]
  /\ tcp_conn_socks' = [tcp_conn_socks EXCEPT ![client_index] = NoFd]
  /\ tcp_conn_count' = tcp_conn_count - 1
  /\ rc' = -1
  /\ UNCHANGED <<linked, backend, ctx_tcp, tcp_listen_sock, ctx_rtu, queued, line>>

\* Mutant of tcp_adapter_cleanup: the count is left.
tcp_adapter_cleanup_KeepsCount ==
  /\ backend
  /\ file' = [f \in Fd |-> IF f \in TcpFds THEN "free" ELSE file[f]]
  /\ tcp_conn_socks' = [s \in Slot |-> NoFd]
  /\ tcp_conn_count' = tcp_conn_count
  /\ tcp_listen_sock' = NoFd
  /\ ctx_tcp' = FALSE
  /\ queued' = {}
  /\ inbox' = [c \in Client |-> "none"]
  /\ UNCHANGED <<linked, backend, ctx_rtu, rc, line>>

tcp_adapter_cleanup ==
  /\ backend
  /\ file' = [f \in Fd |-> IF f \in TcpFds THEN "free" ELSE file[f]]
  /\ tcp_conn_socks' = [s \in Slot |-> NoFd]
  /\ tcp_conn_count' = 0
  /\ tcp_listen_sock' = NoFd
  /\ ctx_tcp' = FALSE
  /\ queued' = {}
  /\ inbox' = [c \in Client |-> "none"]
  /\ UNCHANGED <<linked, backend, ctx_rtu, rc, line>>

-----------------------------------------------------------------------------
(* The RTU adapters.                                                       *)

\* modbus_new_rtu and modbus_connect, `after' being the descriptors once the
\* old context is gone.  A context that does not connect is freed.
Open(after) ==
  /\ \/ /\ plugged
        /\ \E f \in {g \in Fd : after[g] = "free"} :
             /\ ctx_rtu' = f
             /\ file' = [after EXCEPT ![f] = "serial"]
        /\ rc' = 0
     \/ /\ ctx_rtu' = NoFd
        /\ file' = after
        /\ rc' = -1
  /\ hangup' = FALSE
  /\ UNCHANGED <<linked, backend, tcp, net, plugged>>

\* The descriptors after modbus_close.
Closed == [f \in Fd |-> IF f = ctx_rtu THEN "free" ELSE file[f]]

\* Nor does this one test ctx_rtu: a live context would be overwritten.
rtu_adapter_init == backend /\ Open(file)

\* Mutant of rtu_adapter_reconnect: a context that is there is kept.
rtu_adapter_reconnect_KeepsOld ==
  /\ backend
  /\ IF ctx_rtu # NoFd
     THEN rc' = 0 /\ UNCHANGED <<linked, backend, tcp, ctx_rtu, file, net, line>>
     ELSE Open(file)

\* Both copies drop the old context first, whatever it is good for.
rtu_adapter_reconnect == backend /\ Open(Closed)

rtu_adapter_cleanup ==
  /\ backend
  /\ ctx_rtu' = NoFd
  /\ file' = Closed
  /\ hangup' = FALSE
  /\ UNCHANGED <<linked, backend, tcp, rc, net, plugged>>

\* No context; or a query that is answered, filtered, or whose reply fails.
rtu_adapter_handle ==
  /\ backend
  /\ IF ctx_rtu = NoFd THEN rc' = -1 ELSE ~hangup /\ rc' \in {1, 0, -1}
  /\ UNCHANGED <<linked, backend, tcp, ctx_rtu, file, net, line>>

\* A receive that fails, be it a dead line or a frame with a bad checksum on a
\* live one: one copy drops the context, the other leaves it to a reconnect.
rtu_adapter_handle_error ==
  /\ backend /\ ctx_rtu # NoFd
  /\ rc' = -1
  /\ IF linked = "server_controller"
     THEN ctx_rtu' = NoFd /\ file' = Closed /\ hangup' = FALSE
     ELSE UNCHANGED <<ctx_rtu, file, hangup>>
  /\ UNCHANGED <<linked, backend, tcp, net, plugged>>

-----------------------------------------------------------------------------
(* Masters and the serial device.                                          *)

Master(c) ==
  /\ \/ /\ tcp_listen_sock # NoFd /\ c \notin queued \cup Connected
        /\ queued' = queued \cup {c}
        /\ UNCHANGED inbox
     \/ /\ c \in queued \cup Connected /\ inbox[c] = "none"
        /\ \E what \in {"query", "broken", "eof"} : inbox' = [inbox EXCEPT ![c] = what]
        /\ UNCHANGED queued
  /\ UNCHANGED <<linked, backend, tcp, ctx_rtu, rc, file, line>>

\* A device that comes back serves new handles only.
Device ==
  /\ plugged' = ~plugged
  /\ hangup' = (hangup \/ (plugged /\ ctx_rtu # NoFd))
  /\ UNCHANGED <<linked, backend, tcp, ctx_rtu, rc, file, net>>

-----------------------------------------------------------------------------
\* The caller's two rules: an init is for a context that is not there
\* (tcp_adapter.c:8, rtu_adapter.c:13), and destroy comes after the cleanups
\* ("Cleanup will be done by adapters", modbus_backend.c:31).
BackendNext ==
  \/ modbus_backend_create
  \/ ~ctx_tcp /\ ctx_rtu = NoFd /\ modbus_backend_destroy
  \/ ~ctx_tcp /\ tcp_adapter_init
  \/ tcp_adapter_accept_client \/ tcp_adapter_accept_fails \/ tcp_adapter_cleanup
  \/ \E i \in -1 .. MAX_TCP_CLIENTS : tcp_adapter_handle_nobody(i)
  \/ \E s \in Slot : tcp_adapter_handle_query(s) \/ tcp_adapter_handle_error(s)
  \/ ctx_rtu = NoFd /\ rtu_adapter_init
  \/ rtu_adapter_reconnect \/ rtu_adapter_cleanup
  \/ rtu_adapter_handle \/ rtu_adapter_handle_error
  \/ \E c \in Client : Master(c)
  \/ Device

BackendSpec == BackendInit /\ [][BackendNext]_backendVars

-----------------------------------------------------------------------------
(* Properties.                                                             *)

BackendTypeOK ==
  /\ linked \in RtuAdapter
  /\ backend \in BOOLEAN /\ ctx_tcp \in BOOLEAN
  /\ tcp_listen_sock \in Fd \cup {NoFd} /\ ctx_rtu \in Fd \cup {NoFd}
  /\ tcp_conn_socks \in [Slot -> Fd \cup {NoFd}]
  /\ tcp_conn_count \in 0 .. MAX_TCP_CLIENTS
  /\ rc \in -1 .. MAX_TCP_CLIENTS
  /\ file \in [Fd -> Client \cup {"free", "listener", "serial"}]
  /\ queued \subseteq Client
  /\ inbox \in [Client -> {"none", "query", "broken", "eof"}]
  /\ plugged \in BOOLEAN /\ hangup \in BOOLEAN

\* A context that is not there has no sockets, and without a backend there is
\* no context.
Unallocated ==
  /\ ~ctx_tcp => tcp_listen_sock = NoFd /\ \A s \in Slot : tcp_conn_socks[s] = NoFd
  /\ ~backend => ~ctx_tcp /\ ctx_rtu = NoFd

\* Every descriptor the process holds is one the backend knows, as what it
\* takes it for, through accepts, rejects, errors, reconnects and cleanups; a
\* backend that was cleaned up leaves none behind (tcp_adapter.c:95-116,
\* rtu_adapter.c:69-122).  It is so for a caller that keeps its two rules: an
\* init of a context that is live would orphan the old one's descriptors.
NoOrphan ==
  /\ Unallocated
  /\ OpenFds = TcpFds \cup ({ctx_rtu} \ {NoFd})
  /\ tcp_listen_sock # NoFd => file[tcp_listen_sock] = "listener"
  /\ ctx_rtu # NoFd => file[ctx_rtu] = "serial"
  /\ \A s \in Slot : tcp_conn_socks[s] # NoFd => file[tcp_conn_socks[s]] \in Client

\* No two slots hold one descriptor, and tcp_conn_count is the number of
\* slots in use (tcp_adapter.c:44-93).
PoolExact ==
  /\ \A s, t \in Slot : tcp_conn_socks[s] = tcp_conn_socks[t] => s = t \/ tcp_conn_socks[s] = NoFd
  /\ tcp_conn_count = Cardinality(Slot \ FreeSlots)

\* A master that sends whole queries and stays keeps its connection until the
\* adapter is cleaned up, also when a reply to it fails, and whoever else
\* comes, leaves, sends what is no query or is turned away
\* (tcp_adapter.c:35-93).
NoInnocentDropped ==
  [][~tcp_adapter_cleanup =>
       \A c \in Connected : inbox[c] \in {"none", "query"} => c \in Connected']_backendVars

\* A reconnect that reports success leaves a handle that works, although the
\* handle_error of one copy leaves the dead one in place
\* (rtu_adapter.c:47-112, server_controller.c:47-87).
ReconnectGivesLiveLine ==
  [][rtu_adapter_reconnect /\ rc' = 0 => ctx_rtu' # NoFd /\ ~hangup']_backendVars

=============================================================================
