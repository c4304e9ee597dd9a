---------------------------- MODULE ModularProofs ----------------------------
(***************************************************************************)
(* Proofs about the modular server. The adapters (ModbusBackend), for any  *)
(* number of masters, descriptors and slots, either RTU adapter, and calls *)
(* in any order that keeps the caller's two rules. And what the modular    *)
(* server wrote a second time does what the main program does: the         *)
(* commands, for any size of a byte and of the bank and any updates        *)
(* (JsonCommand, an implementation of RegisterBank), and the reader of the *)
(* configuration, for any files whose mode is short (Config).              *)
(***************************************************************************)
EXTENDS ModbusBackend, JsonCommand, Config, FiniteSetTheorems, TLAPS

USE BackendAssumption DEF BackendAssumption

BackendInv == BackendTypeOK /\ NoOrphan /\ PoolExact

Kind == Client \cup {"free", "listener", "serial"}

LEMMA NamesDistinct ==
  /\ NoFd \notin Fd
  /\ \A c \in Client : c # "free" /\ c # "listener" /\ c # "serial"
  /\ 0 \in -1 .. MAX_TCP_CLIENTS /\ 1 \in -1 .. MAX_TCP_CLIENTS /\ -1 \in -1 .. MAX_TCP_CLIENTS
BY DEF NoFd

-----------------------------------------------------------------------------
(* The slot table.                                                         *)

UsedSlots == Slot \ FreeSlots

LEMMA SlotsFinite ==
  /\ IsFiniteSet(Slot) /\ Cardinality(Slot) = MAX_TCP_CLIENTS
  /\ \A s \in Slot : s \in Int /\ s # -1
BY FS_Interval DEF Slot

LEMMA UsedFinite ==
  /\ IsFiniteSet(UsedSlots)
  /\ Cardinality(UsedSlots) \in 0 .. MAX_TCP_CLIENTS
  /\ IsFiniteSet(UsedSlots') /\ Cardinality(UsedSlots') \in 0 .. MAX_TCP_CLIENTS
<1>1. \A T \in SUBSET Slot : IsFiniteSet(T) /\ Cardinality(T) \in 0 .. MAX_TCP_CLIENTS
  <2> SUFFICES ASSUME NEW T \in SUBSET Slot
               PROVE  IsFiniteSet(T) /\ Cardinality(T) \in 0 .. MAX_TCP_CLIENTS
    OBVIOUS
  <2>1. IsFiniteSet(T) /\ Cardinality(T) <= MAX_TCP_CLIENTS
    BY SlotsFinite, FS_Subset
  <2>2. Cardinality(T) \in Nat
    BY <2>1, FS_CardinalityType
  <2> QED
    BY <2>1, <2>2
<1> QED
  BY <1>1 DEF UsedSlots

\* Slots that are all empty are counted as none.
LEMMA EmptyPool ==
  ASSUME tcp_conn_socks' = [s \in Slot |-> NoFd], tcp_conn_count' = 0
  PROVE  PoolExact'
<1>1. UsedSlots' = {}
  BY DEF UsedSlots, FreeSlots
<1> QED
  BY <1>1, FS_EmptySet DEF PoolExact, UsedSlots

LEMMA FilledSlot ==
  ASSUME BackendInv, NEW slot \in FreeSlots, NEW f \in Fd \ OpenFds,
         tcp_conn_socks' = [tcp_conn_socks EXCEPT ![slot] = f],
         tcp_conn_count' = tcp_conn_count + 1
  PROVE  PoolExact'
<1> USE DEF BackendInv, BackendTypeOK
<1>1. slot \in Slot /\ slot \notin UsedSlots /\ f # NoFd
  BY NamesDistinct DEF FreeSlots, UsedSlots
<1>2. \A s \in Slot : tcp_conn_socks'[s] = IF s = slot THEN f ELSE tcp_conn_socks[s]
  BY <1>1
<1>3. UsedSlots' = UsedSlots \cup {slot}
  BY <1>1, <1>2 DEF UsedSlots, FreeSlots
<1>4. tcp_conn_count' = Cardinality(UsedSlots')
  <2>1. Cardinality(UsedSlots') = Cardinality(UsedSlots) + 1
    BY <1>1, <1>3, UsedFinite, FS_AddElement
  <2> QED
    BY <2>1 DEF PoolExact, UsedSlots
<1>5. \A s \in Slot : tcp_conn_socks[s] # f
  BY <1>1 DEF NoOrphan, TcpFds
<1>6. \A s, t \in Slot : tcp_conn_socks'[s] = tcp_conn_socks'[t] => s = t \/ tcp_conn_socks'[s] = NoFd
  BY <1>2, <1>5 DEF PoolExact
<1> QED
  BY <1>4, <1>6 DEF PoolExact, UsedSlots

LEMMA EmptiedSlot ==
  ASSUME BackendInv, NEW slot \in Slot, tcp_conn_socks[slot] # NoFd,
         tcp_conn_socks' = [tcp_conn_socks EXCEPT ![slot] = NoFd],
         tcp_conn_count' = tcp_conn_count - 1
  PROVE  PoolExact'
<1> USE DEF BackendInv, BackendTypeOK
<1>1. \A s \in Slot : tcp_conn_socks'[s] = IF s = slot THEN NoFd ELSE tcp_conn_socks[s]
  OBVIOUS
<1>2. slot \in UsedSlots /\ UsedSlots' = UsedSlots \ {slot}
  BY <1>1 DEF UsedSlots, FreeSlots
<1>3. tcp_conn_count' = Cardinality(UsedSlots')
  <2>1. Cardinality(UsedSlots') = Cardinality(UsedSlots) - 1
    BY <1>2, UsedFinite, FS_RemoveElement
  <2> QED
    BY <2>1 DEF PoolExact, UsedSlots
<1>4. \A s, t \in Slot : tcp_conn_socks'[s] = tcp_conn_socks'[t] => s = t \/ tcp_conn_socks'[s] = NoFd
  BY <1>1 DEF PoolExact
<1> QED
  BY <1>3, <1>4 DEF PoolExact, UsedSlots

LEMMA SamePool ==
  ASSUME PoolExact, UNCHANGED <<tcp_conn_socks, tcp_conn_count>>
  PROVE  PoolExact'
<1>1. UNCHANGED FreeSlots
  BY DEF FreeSlots
<1> QED
  BY <1>1 DEF PoolExact

-----------------------------------------------------------------------------
LEMMA InitPool == BackendInit => PoolExact
<1> SUFFICES ASSUME BackendInit PROVE PoolExact
  OBVIOUS
<1>1. UsedSlots = {}
  BY DEF BackendInit, UsedSlots, FreeSlots
<1> QED
  BY <1>1, FS_EmptySet DEF BackendInit, PoolExact, UsedSlots

LEMMA NextPool == BackendInv /\ [BackendNext]_backendVars => PoolExact'
<1> SUFFICES ASSUME BackendInv, [BackendNext]_backendVars PROVE PoolExact'
  OBVIOUS
<1>1. CASE modbus_backend_create \/ tcp_adapter_cleanup
  BY <1>1, EmptyPool DEF modbus_backend_create, tcp_adapter_cleanup
<1>2. CASE tcp_adapter_init
  BY <1>2, EmptyPool, SamePool DEF tcp_adapter_init, BackendInv
<1>3. CASE tcp_adapter_accept_client
  <2>1. PICK slot \in -1 .. MAX_TCP_CLIENTS, f \in Fd \ OpenFds :
          /\ find_free_tcp_client_slot(slot)
          /\ IF slot = -1 THEN UNCHANGED <<tcp_conn_socks, tcp_conn_count>>
             ELSE /\ tcp_conn_socks' = [tcp_conn_socks EXCEPT ![slot] = f]
                  /\ tcp_conn_count' = tcp_conn_count + 1
    BY <1>3 DEF tcp_adapter_accept_client
  <2>2. slot # -1 => slot \in FreeSlots
    BY <2>1 DEF find_free_tcp_client_slot
  <2> QED
    BY <2>1, <2>2, FilledSlot, SamePool DEF BackendInv
<1>4. CASE \E s \in Slot : tcp_adapter_handle_error(s)
  BY <1>4, EmptiedSlot DEF tcp_adapter_handle_error
<1>5. CASE UNCHANGED tcp
  BY <1>5, SamePool DEF tcp, BackendInv
<1>6. ASSUME \/ modbus_backend_destroy \/ tcp_adapter_accept_fails
             \/ \E i \in -1 .. MAX_TCP_CLIENTS : tcp_adapter_handle_nobody(i)
             \/ \E s \in Slot : tcp_adapter_handle_query(s)
             \/ \E c \in Client : Master(c)
             \/ Device \/ UNCHANGED backendVars
      PROVE  UNCHANGED tcp
  BY <1>6 DEF modbus_backend_destroy, tcp_adapter_accept_fails, tcp_adapter_handle_nobody,
              tcp_adapter_handle_query, Master, Device, backendVars
<1>7. ASSUME rtu_adapter_init \/ rtu_adapter_reconnect \/ rtu_adapter_cleanup
             \/ rtu_adapter_handle \/ rtu_adapter_handle_error
      PROVE  UNCHANGED tcp
  BY <1>7 DEF rtu_adapter_init, rtu_adapter_reconnect, rtu_adapter_cleanup,
              rtu_adapter_handle, rtu_adapter_handle_error, Open
<1> QED
  BY <1>1, <1>2, <1>3, <1>4, <1>5, <1>6, <1>7 DEF BackendNext

-----------------------------------------------------------------------------
(* Types.  The count is typed by PoolExact.                                *)

LEMMA CountType ==
  ASSUME PoolExact' PROVE tcp_conn_count' \in 0 .. MAX_TCP_CLIENTS
BY UsedFinite DEF PoolExact, UsedSlots

LEMMA InitType == BackendInit => BackendTypeOK
<1> SUFFICES ASSUME BackendInit PROVE BackendTypeOK
  OBVIOUS
<1>1. /\ tcp_conn_socks \in [Slot -> Fd \cup {NoFd}]
      /\ file \in [Fd -> Kind]
      /\ inbox \in [Client -> {"none", "query", "broken", "eof"}]
  BY DEF BackendInit, Kind
<1>2. backend \in BOOLEAN /\ ctx_tcp \in BOOLEAN /\ plugged \in BOOLEAN /\ hangup \in BOOLEAN
  BY DEF BackendInit
<1> QED
  BY <1>1, <1>2, NamesDistinct DEF BackendInit, BackendTypeOK, Kind

LEMMA OpenType ==
  ASSUME BackendTypeOK, NEW after \in [Fd -> Kind], Open(after)
  PROVE  /\ ctx_rtu' \in Fd \cup {NoFd}
         /\ file' \in [Fd -> Kind]
         /\ rc' \in -1 .. MAX_TCP_CLIENTS
         /\ hangup' \in BOOLEAN /\ UNCHANGED plugged
BY NamesDistinct DEF Open, Kind

LEMMA ClosedType ==
  ASSUME BackendTypeOK
  PROVE  file \in [Fd -> Kind] /\ Closed \in [Fd -> Kind]
BY DEF BackendTypeOK, Closed, Kind

LEMMA NextType == BackendInv /\ [BackendNext]_backendVars => BackendTypeOK'
<1> SUFFICES ASSUME BackendInv, [BackendNext]_backendVars PROVE BackendTypeOK'
  OBVIOUS
<1> USE DEF BackendTypeOK
<1>1. BackendTypeOK
  BY DEF BackendInv
<1>2. tcp_conn_count' \in 0 .. MAX_TCP_CLIENTS
  BY NextPool, CountType
<1>3. CASE modbus_backend_create \/ modbus_backend_destroy
  <2>1. backend' \in BOOLEAN /\ ctx_tcp' \in BOOLEAN
    BY <1>1, <1>3, Zenon DEF modbus_backend_create, modbus_backend_destroy, tcp
  <2>2. tcp_conn_socks' \in [Slot -> Fd \cup {NoFd}] /\ rc' \in -1 .. MAX_TCP_CLIENTS
    BY <1>1, <1>3, NamesDistinct DEF modbus_backend_create, modbus_backend_destroy, tcp
  <2> QED
    BY <1>1, <1>2, <1>3, <2>1, <2>2 DEF modbus_backend_create, modbus_backend_destroy, tcp, net, line
<1>4. CASE tcp_adapter_init \/ tcp_adapter_cleanup
  <2>1. ctx_tcp' \in BOOLEAN
    BY <1>1, <1>4, Zenon DEF tcp_adapter_init, tcp_adapter_cleanup
  <2>2. /\ tcp_conn_socks' \in [Slot -> Fd \cup {NoFd}] /\ rc' \in -1 .. MAX_TCP_CLIENTS
        /\ file' \in [Fd -> Client \cup {"free", "listener", "serial"}]
    BY <1>1, <1>4, NamesDistinct DEF tcp_adapter_init, tcp_adapter_cleanup, TcpFds
  <2> QED
    BY <1>1, <1>2, <1>4, <2>1, <2>2 DEF tcp_adapter_init, tcp_adapter_cleanup, net, line
<1>5. CASE tcp_adapter_accept_client
  <2>1. PICK c \in queued, slot \in -1 .. MAX_TCP_CLIENTS, f \in Fd \ OpenFds :
          /\ queued' = queued \ {c}
          /\ rc' = slot
          /\ IF slot = -1
             THEN /\ inbox' = [inbox EXCEPT ![c] = "none"]
                  /\ UNCHANGED <<tcp_conn_socks, tcp_conn_count, file>>
             ELSE /\ file' = [file EXCEPT ![f] = c]
                  /\ tcp_conn_socks' = [tcp_conn_socks EXCEPT ![slot] = f]
                  /\ tcp_conn_count' = tcp_conn_count + 1
                  /\ UNCHANGED inbox
    BY <1>5 DEF tcp_adapter_accept_client
  <2>2. UNCHANGED <<linked, backend, ctx_tcp, tcp_listen_sock, ctx_rtu, line>>
    BY <1>5 DEF tcp_adapter_accept_client
  <2> QED
    BY <1>1, <1>2, <2>1, <2>2 DEF line
<1>6. CASE \E s \in Slot : tcp_adapter_handle_query(s) \/ tcp_adapter_handle_error(s)
  <2>1. rc' \in -1 .. MAX_TCP_CLIENTS
    BY <1>6, NamesDistinct DEF tcp_adapter_handle_query, tcp_adapter_handle_error
  <2> QED
    BY <1>1, <1>2, <1>6, <2>1 DEF tcp_adapter_handle_query, tcp_adapter_handle_error, tcp, line
<1>7. CASE rtu_adapter_init \/ rtu_adapter_reconnect
  <2>1. Open(file) \/ Open(Closed)
    BY <1>7 DEF rtu_adapter_init, rtu_adapter_reconnect
  <2>2. /\ ctx_rtu' \in Fd \cup {NoFd}
        /\ file' \in [Fd -> Kind]
        /\ rc' \in -1 .. MAX_TCP_CLIENTS
        /\ hangup' \in BOOLEAN /\ UNCHANGED plugged
    BY <1>1, <2>1, ClosedType, OpenType
  <2> QED
    BY <1>1, <1>2, <2>1, <2>2 DEF Open, Kind, tcp, net
<1>8. CASE rtu_adapter_cleanup \/ rtu_adapter_handle \/ rtu_adapter_handle_error
  <2>1. file' \in [Fd -> Kind] /\ rc' \in -1 .. MAX_TCP_CLIENTS
    BY <1>1, <1>8, ClosedType, NamesDistinct
    DEF rtu_adapter_cleanup, rtu_adapter_handle, rtu_adapter_handle_error
  <2>2. hangup' \in BOOLEAN
    BY <1>1, <1>8, Zenon DEF rtu_adapter_cleanup, rtu_adapter_handle, rtu_adapter_handle_error, line
  <2> QED
    BY <1>1, <1>2, <1>8, <2>1, <2>2
    DEF rtu_adapter_cleanup, rtu_adapter_handle, rtu_adapter_handle_error, Kind, tcp, net, line
<1>9. CASE \/ tcp_adapter_accept_fails
           \/ \E i \in -1 .. MAX_TCP_CLIENTS : tcp_adapter_handle_nobody(i)
  BY <1>1, <1>2, <1>9, NamesDistinct
  DEF tcp_adapter_accept_fails, tcp_adapter_handle_nobody, tcp, net, line
<1>10. CASE \E c \in Client : Master(c)
  BY <1>1, <1>2, <1>10 DEF Master, tcp, line
<1>11. CASE Device
  <2>1. plugged' \in BOOLEAN /\ hangup' \in BOOLEAN
    BY <1>1, <1>11, Zenon DEF Device
  <2> QED
    BY <1>1, <1>2, <1>11, <2>1 DEF Device, tcp, net
<1>12. CASE UNCHANGED backendVars
  BY <1>1, <1>2, <1>12 DEF backendVars, tcp, net, line
<1> QED
  BY <1>3, <1>4, <1>5, <1>6, <1>7, <1>8, <1>9, <1>10, <1>11, <1>12 DEF BackendNext

-----------------------------------------------------------------------------
(* Descriptors.                                                            *)

\* NoOrphan's equation, descriptor by descriptor.
Owner(f) == f = tcp_listen_sock \/ f = ctx_rtu \/ \E s \in Slot : tcp_conn_socks[s] = f

LEMMA TcpOwned ==
  /\ \A f : f \in TcpFds <=> f # NoFd /\ (f = tcp_listen_sock \/ \E s \in Slot : tcp_conn_socks[s] = f)
  /\ \A f : f \in TcpFds' <=> f # NoFd /\ (f = tcp_listen_sock' \/ \E s \in Slot : tcp_conn_socks'[s] = f)
  /\ tcp_listen_sock = NoFd \/ tcp_listen_sock \in TcpFds
  /\ \A s \in Slot : tcp_conn_socks[s] = NoFd \/ tcp_conn_socks[s] \in TcpFds
BY DEF TcpFds

LEMMA Owners ==
  ASSUME BackendInv
  PROVE  /\ \A f \in Fd : file[f] # "free" <=> Owner(f)
         /\ \A f \in TcpFds : f \in Fd /\ f # ctx_rtu
         /\ tcp_listen_sock # NoFd => file[tcp_listen_sock] = "listener"
         /\ \A s \in Slot : tcp_conn_socks[s] # NoFd => file[tcp_conn_socks[s]] \in Client
<1> USE DEF BackendInv, BackendTypeOK
<1>1. \A f \in Fd : file[f] # "free" <=> Owner(f)
  BY TcpOwned, NamesDistinct DEF NoOrphan, OpenFds, Owner
<1>2. \A f \in TcpFds : f \in Fd
  BY TcpOwned
<1>3. \A f \in TcpFds : file[f] = "listener" \/ file[f] \in Client
  BY TcpOwned DEF NoOrphan
<1>4. ctx_rtu # NoFd => file[ctx_rtu] = "serial"
  BY DEF NoOrphan
<1>5. \A f \in TcpFds : f # ctx_rtu
  BY <1>3, <1>4, TcpOwned, NamesDistinct
<1> QED
  BY <1>1, <1>2, <1>5 DEF NoOrphan

LEMMA OwnersSuffice ==
  ASSUME BackendTypeOK', Unallocated',
         \A f \in Fd : file'[f] # "free" <=> Owner(f)',
         tcp_listen_sock' # NoFd => file'[tcp_listen_sock'] = "listener",
         ctx_rtu' # NoFd => file'[ctx_rtu'] = "serial",
         \A s \in Slot : tcp_conn_socks'[s] # NoFd => file'[tcp_conn_socks'[s]] \in Client
  PROVE  NoOrphan'
<1>1. \A f : f \in OpenFds' <=> f \in Fd /\ Owner(f)'
  BY DEF OpenFds
<1>2. \A f : f \in TcpFds' \cup ({ctx_rtu'} \ {NoFd}) <=> f # NoFd /\ Owner(f)'
  BY TcpOwned DEF Owner
<1>3. \A f : Owner(f)' /\ f # NoFd => f \in Fd
  BY DEF Owner, BackendTypeOK
<1>4. OpenFds' = TcpFds' \cup ({ctx_rtu'} \ {NoFd})
  BY <1>1, <1>2, <1>3, NamesDistinct
<1> QED
  BY <1>4 DEF NoOrphan

LEMMA InitOrphan == BackendInit => NoOrphan
<1> SUFFICES ASSUME BackendInit PROVE NoOrphan
  OBVIOUS
<1>1. OpenFds = {} /\ TcpFds = {} /\ ctx_rtu = NoFd
  BY DEF BackendInit, OpenFds, TcpFds
<1>2. \A s \in Slot : tcp_conn_socks[s] = NoFd
  BY DEF BackendInit
<1>3. Unallocated
  BY <1>2 DEF BackendInit, Unallocated
<1> QED
  BY <1>1, <1>2, <1>3 DEF BackendInit, NoOrphan

\* A serial line is opened once the old one is gone, and not by any other call.
LEMMA OpenOrphan ==
  ASSUME BackendInv, BackendTypeOK', backend, NEW after,
         after = Closed \/ (after = file /\ ctx_rtu = NoFd), Open(after)
  PROVE  NoOrphan'
<1>12. BackendTypeOK /\ NoOrphan
  BY DEF BackendInv
<1>1. \A f \in Fd : after[f] = IF f = ctx_rtu THEN "free" ELSE file[f]
  BY NamesDistinct DEF Closed
<1>2. UNCHANGED <<backend, ctx_tcp, tcp_listen_sock, tcp_conn_socks>>
  BY DEF Open, tcp
<1>3. \A f \in Fd : after[f] # "free" <=> f \in TcpFds
  BY <1>1, Owners, TcpOwned, NamesDistinct DEF Owner
<1>4. \A f \in TcpFds : after[f] = file[f]
  BY <1>1, Owners
<1>5. PICK f \in Fd \cup {NoFd} :
        /\ ctx_rtu' = f
        /\ f # NoFd => f \notin TcpFds
        /\ \A g \in Fd : file'[g] = IF g = f THEN "serial" ELSE after[g]
  <2>1. CASE \E f \in {g \in Fd : after[g] = "free"} :
               ctx_rtu' = f /\ file' = [after EXCEPT ![f] = "serial"]
    <3>1. after \in [Fd -> Kind]
      BY <1>12, ClosedType
    <3>2. PICK f \in Fd : after[f] = "free" /\ ctx_rtu' = f /\ file' = [after EXCEPT ![f] = "serial"]
      BY <2>1
    <3>3. \A g \in Fd : file'[g] = IF g = f THEN "serial" ELSE after[g]
      BY <3>1, <3>2
    <3> QED
      BY <1>3, <3>2, <3>3
  <2>2. CASE ctx_rtu' = NoFd /\ file' = after
    <3>1. \A g \in Fd : file'[g] = IF g = NoFd THEN "serial" ELSE after[g]
      BY <2>2, NamesDistinct
    <3> QED
      BY <2>2, <3>1
  <2> QED
    BY <2>1, <2>2 DEF Open
<1>6. \A g \in TcpFds : file'[g] = file[g]
  <2>1. \A g \in TcpFds : g \in Fd /\ g # f
    BY <1>5, Owners, TcpOwned
  <2> QED
    BY <1>4, <1>5, <2>1
<1>7. \A g \in Fd : file'[g] # "free" <=> Owner(g)'
  BY <1>2, <1>3, <1>5, TcpOwned, NamesDistinct DEF Owner
<1>8. ctx_rtu' # NoFd => file'[ctx_rtu'] = "serial"
  BY <1>5
<1>9. tcp_listen_sock' # NoFd => file'[tcp_listen_sock'] = "listener"
  BY <1>2, <1>6, Owners, TcpOwned
<1>10. \A s \in Slot : tcp_conn_socks'[s] # NoFd => file'[tcp_conn_socks'[s]] \in Client
  BY <1>2, <1>6, Owners, TcpOwned
<1>11. Unallocated'
  BY <1>2, <1>12 DEF Unallocated, NoOrphan
<1> QED
  BY <1>7, <1>8, <1>9, <1>10, <1>11, OwnersSuffice

LEMMA DropOrphan ==
  ASSUME BackendInv, BackendTypeOK', ctx_rtu' = NoFd, file' = Closed, UNCHANGED <<backend, tcp>>
  PROVE  NoOrphan'
<1> USE DEF BackendInv, BackendTypeOK
<1>1. \A f \in Fd : file'[f] = IF f = ctx_rtu THEN "free" ELSE file[f]
  BY DEF Closed
<1>2. \A g \in TcpFds : file'[g] = file[g]
  BY <1>1, Owners
<1>3. \A g \in Fd : file'[g] # "free" <=> Owner(g)'
  <2>1. \A g \in Fd : file'[g] # "free" <=> g # ctx_rtu /\ Owner(g)
    BY <1>1, Owners
  <2>2. \A g \in Fd : Owner(g)' <=> g # ctx_rtu /\ Owner(g)
    BY Owners, TcpOwned, NamesDistinct DEF Owner, tcp
  <2> QED
    BY <2>1, <2>2
<1>4. tcp_listen_sock' # NoFd => file'[tcp_listen_sock'] = "listener"
  BY <1>2, Owners, TcpOwned DEF tcp
<1>5. \A s \in Slot : tcp_conn_socks'[s] # NoFd => file'[tcp_conn_socks'[s]] \in Client
  BY <1>2, Owners, TcpOwned DEF tcp
<1>6. Unallocated'
  BY DEF Unallocated, NoOrphan, tcp
<1> QED
  BY <1>3, <1>4, <1>5, <1>6, OwnersSuffice

LEMMA SameFds ==
  ASSUME BackendInv, UNCHANGED <<backend, tcp, ctx_rtu, file>>
  PROVE  NoOrphan'
BY DEF BackendInv, NoOrphan, Unallocated, OpenFds, TcpFds, tcp

LEMMA CreateOrphan ==
  ASSUME BackendInv, BackendTypeOK',
         modbus_backend_create \/ (~ctx_tcp /\ ctx_rtu = NoFd /\ modbus_backend_destroy)
  PROVE  NoOrphan'
<1> USE DEF BackendInv, BackendTypeOK
<1>1. CASE modbus_backend_create
  <2>1. /\ ~backend /\ ~ctx_tcp /\ ctx_rtu = NoFd /\ tcp_listen_sock = NoFd
        /\ \A s \in Slot : tcp_conn_socks[s] = NoFd
    BY <1>1 DEF modbus_backend_create, NoOrphan, Unallocated
  <2>2. /\ ~ctx_tcp' /\ ctx_rtu' = NoFd /\ tcp_listen_sock' = NoFd
        /\ \A s \in Slot : tcp_conn_socks'[s] = NoFd
        /\ UNCHANGED file
    BY <1>1 DEF modbus_backend_create
  <2>3. \A f \in Fd : file'[f] # "free" <=> Owner(f)'
    BY <2>1, <2>2, Owners DEF Owner
  <2>4. Unallocated'
    BY <2>2 DEF Unallocated
  <2> QED
    BY <2>2, <2>3, <2>4, OwnersSuffice
<1>2. CASE ~ctx_tcp /\ ctx_rtu = NoFd /\ modbus_backend_destroy
  <2>1. Unallocated'
    BY <1>2 DEF modbus_backend_destroy, NoOrphan, Unallocated, tcp
  <2> QED
    BY <1>2, <2>1 DEF modbus_backend_destroy, NoOrphan, OpenFds, TcpFds, tcp
<1> QED
  BY <1>1, <1>2

LEMMA ListenOrphan ==
  ASSUME BackendInv, BackendTypeOK', ~ctx_tcp, tcp_adapter_init PROVE NoOrphan'
<1> USE DEF BackendInv, BackendTypeOK
<1>1. /\ backend /\ tcp_listen_sock = NoFd /\ \A s \in Slot : tcp_conn_socks[s] = NoFd
      /\ UNCHANGED <<backend, ctx_rtu>>
  BY DEF tcp_adapter_init, NoOrphan, Unallocated
<1>2. CASE \E f \in Fd \ OpenFds :
             /\ ctx_tcp' = TRUE
             /\ tcp_listen_sock' = f
             /\ file' = [file EXCEPT ![f] = "listener"]
             /\ tcp_conn_socks' = [s \in Slot |-> NoFd]
  <2>1. PICK f \in Fd \ OpenFds :
             /\ ctx_tcp' = TRUE
             /\ tcp_listen_sock' = f
             /\ file' = [file EXCEPT ![f] = "listener"]
             /\ tcp_conn_socks' = [s \in Slot |-> NoFd]
    BY <1>2
  <2>2. file[f] = "free" /\ ~Owner(f) /\ f # NoFd
    BY <2>1, Owners, NamesDistinct DEF OpenFds
  <2>3. \A g \in Fd : file'[g] = IF g = f THEN "listener" ELSE file[g]
    BY <2>1
  <2>4. \A g \in Fd : Owner(g)' <=> g = f \/ Owner(g)
    BY <1>1, <2>1, NamesDistinct DEF Owner
  <2>5. \A g \in Fd : file'[g] # "free" <=> Owner(g)'
    BY <2>3, <2>4, Owners
  <2>6. ctx_rtu' # NoFd => file'[ctx_rtu'] = "serial"
    BY <1>1, <2>2, <2>3 DEF NoOrphan, Owner
  <2>7. Unallocated'
    BY <1>1, <2>1 DEF Unallocated
  <2> QED
    BY <2>1, <2>3, <2>5, <2>6, <2>7, OwnersSuffice
<1>3. CASE /\ ctx_tcp' = FALSE
           /\ tcp_listen_sock' \in {tcp_listen_sock, NoFd}
           /\ UNCHANGED <<tcp_conn_socks, tcp_conn_count, file>>
  <2>1. UNCHANGED <<tcp_listen_sock, tcp_conn_socks, tcp_conn_count>>
    BY <1>1, <1>3
  <2>2. ctx_tcp' = ctx_tcp
    BY <1>3, Zenon
  <2> QED
    BY <1>1, <1>3, <2>1, <2>2, SameFds DEF tcp
<1> QED
  BY <1>2, <1>3 DEF tcp_adapter_init

LEMMA AcceptOrphan ==
  ASSUME BackendInv, BackendTypeOK', tcp_adapter_accept_client PROVE NoOrphan'
<1> USE DEF BackendInv, BackendTypeOK
<1>1. PICK c \in queued, slot \in -1 .. MAX_TCP_CLIENTS, f \in Fd \ OpenFds :
        /\ find_free_tcp_client_slot(slot)
        /\ IF slot = -1
           THEN UNCHANGED <<tcp_conn_socks, tcp_conn_count, file>>
           ELSE /\ file' = [file EXCEPT ![f] = c]
                /\ tcp_conn_socks' = [tcp_conn_socks EXCEPT ![slot] = f]
  BY DEF tcp_adapter_accept_client
<1>2. ctx_tcp /\ UNCHANGED <<backend, ctx_tcp, tcp_listen_sock, ctx_rtu>>
  BY DEF tcp_adapter_accept_client
<1>3. CASE slot = -1
  BY <1>1, <1>2, <1>3, SameFds DEF tcp
<1>4. CASE slot # -1
  <2>1. slot \in Slot /\ tcp_conn_socks[slot] = NoFd
    BY <1>1, <1>4 DEF find_free_tcp_client_slot, FreeSlots
  <2>2. file[f] = "free" /\ ~Owner(f) /\ f # NoFd /\ c \in Client
    BY <1>1, Owners, NamesDistinct DEF OpenFds
  <2>3. \A g \in Fd : file'[g] = IF g = f THEN c ELSE file[g]
    BY <1>1, <1>4
  <2>4. \A s \in Slot : tcp_conn_socks'[s] = IF s = slot THEN f ELSE tcp_conn_socks[s]
    BY <1>1, <1>4, <2>1
  <2>5. \A g \in Fd : Owner(g)' <=> g = f \/ Owner(g)
    BY <1>2, <2>1, <2>4, NamesDistinct DEF Owner
  <2>6. \A g \in Fd : file'[g] # "free" <=> Owner(g)'
    BY <2>2, <2>3, <2>5, Owners, NamesDistinct
  <2>7. ctx_rtu' # NoFd => file'[ctx_rtu'] = "serial"
    BY <1>2, <2>2, <2>3 DEF NoOrphan, Owner
  <2>8. tcp_listen_sock' # NoFd => file'[tcp_listen_sock'] = "listener"
    BY <1>2, <2>2, <2>3 DEF NoOrphan, Owner
  <2>9. \A s \in Slot : tcp_conn_socks'[s] # NoFd => file'[tcp_conn_socks'[s]] \in Client
    <3> SUFFICES ASSUME NEW s \in Slot, tcp_conn_socks'[s] # NoFd
                 PROVE  file'[tcp_conn_socks'[s]] \in Client
      OBVIOUS
    <3>1. CASE s = slot
      BY <2>2, <2>3, <2>4, <3>1
    <3>2. CASE s # slot
      <4>1. tcp_conn_socks'[s] = tcp_conn_socks[s] /\ tcp_conn_socks[s] \in Fd
        BY <2>4, <3>2
      <4>2. tcp_conn_socks[s] # f
        BY <2>2 DEF Owner
      <4>3. file[tcp_conn_socks[s]] \in Client
        BY <4>1, Owners
      <4> QED
        BY <2>3, <4>1, <4>2, <4>3
    <3> QED
      BY <3>1, <3>2
  <2>10. Unallocated'
    BY <1>2 DEF Unallocated, NoOrphan
  <2> QED
    BY <2>6, <2>7, <2>8, <2>9, <2>10, OwnersSuffice
<1> QED
  BY <1>3, <1>4

LEMMA ErrorOrphan ==
  ASSUME BackendInv, BackendTypeOK', NEW slot \in Slot, tcp_adapter_handle_error(slot)
  PROVE  NoOrphan'
<1> USE DEF BackendInv, BackendTypeOK
<1> DEFINE sock == tcp_conn_socks[slot]
<1>1. /\ sock \in Fd /\ file[sock] \in Client
      /\ UNCHANGED <<backend, ctx_tcp, tcp_listen_sock, ctx_rtu>>
  BY Owners DEF tcp_adapter_handle_error
<1>2. \A g \in Fd : file'[g] = IF g = sock THEN "free" ELSE file[g]
  BY DEF tcp_adapter_handle_error
<1>3. \A s \in Slot : tcp_conn_socks'[s] = IF s = slot THEN NoFd ELSE tcp_conn_socks[s]
  BY DEF tcp_adapter_handle_error
<1>4. \A s \in Slot : s # slot => tcp_conn_socks[s] # sock
  BY <1>1, NamesDistinct DEF PoolExact
<1>5. tcp_listen_sock # sock /\ ctx_rtu # sock
  BY <1>1, NamesDistinct DEF NoOrphan
<1> HIDE DEF sock
<1>6. \A g \in Fd : Owner(g)' <=> g # sock /\ Owner(g)
  BY <1>1, <1>3, <1>4, <1>5, NamesDistinct DEF Owner, sock
<1>7. \A g \in Fd : file'[g] # "free" <=> Owner(g)'
  BY <1>2, <1>6, Owners
<1>8. ctx_rtu' # NoFd => file'[ctx_rtu'] = "serial"
  BY <1>1, <1>2, <1>5 DEF NoOrphan
<1>9. tcp_listen_sock' # NoFd => file'[tcp_listen_sock'] = "listener"
  BY <1>1, <1>2, <1>5 DEF NoOrphan
<1>10. \A s \in Slot : tcp_conn_socks'[s] # NoFd => file'[tcp_conn_socks'[s]] \in Client
  <2>1. \A s \in Slot : tcp_conn_socks[s] # NoFd =>
          tcp_conn_socks[s] \in Fd /\ file[tcp_conn_socks[s]] \in Client
    BY Owners
  <2> QED
    BY <1>2, <1>3, <1>4, <2>1
<1>11. Unallocated'
  BY <1>1, <1>3 DEF Unallocated, NoOrphan
<1> QED
  BY <1>7, <1>8, <1>9, <1>10, <1>11, OwnersSuffice

LEMMA CleanupOrphan ==
  ASSUME BackendInv, BackendTypeOK', tcp_adapter_cleanup PROVE NoOrphan'
<1> USE DEF BackendInv, BackendTypeOK
<1>1. /\ backend /\ UNCHANGED <<backend, ctx_rtu>>
      /\ ~ctx_tcp' /\ tcp_listen_sock' = NoFd /\ \A s \in Slot : tcp_conn_socks'[s] = NoFd
  BY DEF tcp_adapter_cleanup
<1>2. \A g \in Fd : file'[g] = IF g \in TcpFds THEN "free" ELSE file[g]
  BY DEF tcp_adapter_cleanup
<1>3. \A g \in Fd : file'[g] # "free" <=> g = ctx_rtu
  BY <1>2, Owners, TcpOwned, NamesDistinct DEF Owner
<1>4. \A g \in Fd : file'[g] # "free" <=> Owner(g)'
  BY <1>1, <1>3, NamesDistinct DEF Owner
<1>5. ctx_rtu' # NoFd => file'[ctx_rtu'] = "serial"
  <2>1. ctx_rtu \notin TcpFds
    BY Owners
  <2> QED
    BY <1>1, <1>2, <2>1 DEF NoOrphan
<1>6. Unallocated'
  BY <1>1 DEF Unallocated
<1> QED
  BY <1>1, <1>4, <1>5, <1>6, OwnersSuffice

LEMMA NextOrphan == BackendInv /\ [BackendNext]_backendVars => NoOrphan'
<1> SUFFICES ASSUME BackendInv, [BackendNext]_backendVars PROVE NoOrphan'
  OBVIOUS
<1>1. BackendTypeOK'
  BY NextType
<1>2. CASE modbus_backend_create \/ (~ctx_tcp /\ ctx_rtu = NoFd /\ modbus_backend_destroy)
  BY <1>1, <1>2, CreateOrphan
<1>3. CASE ~ctx_tcp /\ tcp_adapter_init
  BY <1>1, <1>3, ListenOrphan
<1>4. CASE tcp_adapter_accept_client
  BY <1>1, <1>4, AcceptOrphan
<1>5. CASE \E s \in Slot : tcp_adapter_handle_error(s)
  BY <1>1, <1>5, ErrorOrphan
<1>6. CASE tcp_adapter_cleanup
  BY <1>1, <1>6, CleanupOrphan
<1>7. CASE (ctx_rtu = NoFd /\ rtu_adapter_init) \/ rtu_adapter_reconnect
  BY <1>1, <1>7, OpenOrphan DEF rtu_adapter_init, rtu_adapter_reconnect
<1>8. CASE rtu_adapter_cleanup
  BY <1>1, <1>8, DropOrphan DEF rtu_adapter_cleanup
<1>9. CASE rtu_adapter_handle_error
  BY <1>1, <1>9, DropOrphan, SameFds DEF rtu_adapter_handle_error
<1>10. CASE UNCHANGED <<backend, tcp, ctx_rtu, file>>
  BY <1>10, SameFds
<1>11. ASSUME \/ tcp_adapter_accept_fails
              \/ \E i \in -1 .. MAX_TCP_CLIENTS : tcp_adapter_handle_nobody(i)
              \/ \E s \in Slot : tcp_adapter_handle_query(s)
              \/ \E c \in Client : Master(c)
              \/ rtu_adapter_handle \/ Device \/ UNCHANGED backendVars
       PROVE  UNCHANGED <<backend, tcp, ctx_rtu, file>>
  BY <1>11 DEF tcp_adapter_accept_fails, tcp_adapter_handle_nobody, tcp_adapter_handle_query,
               Master, rtu_adapter_handle, Device, backendVars
<1> QED
  BY <1>2, <1>3, <1>4, <1>5, <1>6, <1>7, <1>8, <1>9, <1>10, <1>11 DEF BackendNext

-----------------------------------------------------------------------------
(* Theorems.                                                               *)

LEMMA Inductive == BackendSpec => []BackendInv
<1>1. BackendInit => BackendInv
  BY InitType, InitOrphan, InitPool DEF BackendInv
<1>2. BackendInv /\ [BackendNext]_backendVars => BackendInv'
  BY NextType, NextOrphan, NextPool DEF BackendInv
<1> QED
  BY <1>1, <1>2, PTL DEF BackendSpec

\* Every descriptor the process holds is one the backend knows, as what it
\* takes it for, in either build and in any order of calls by a caller that
\* initialises no context that is live and cleans up before it destroys
\* (tcp_adapter.c, rtu_adapter.c, server_controller.c:47-87).
THEOREM BackendOwnsAll == BackendSpec => []NoOrphan
BY Inductive, PTL DEF BackendInv

\* The slot table of the adapter is exact, for any number of slots and the
\* same caller: no socket is in two slots and the count is right
\* (tcp_adapter.c:44-93).
THEOREM BackendPoolIsExact == BackendSpec => []PoolExact
BY Inductive, PTL DEF BackendInv

\* Every variable of the modular server keeps its type.
THEOREM BackendTypeCorrect == BackendSpec => []BackendTypeOK
BY Inductive, PTL DEF BackendInv

\* A master whose queries are whole and that stays keeps its connection through
\* everything the adapters do, but for a cleanup: a reply that fails does not
\* drop it, nor does what the others send or how many they are
\* (tcp_adapter.c:35-93).
THEOREM InnocentsStay == BackendSpec => NoInnocentDropped
<1>1. BackendInv /\ [BackendNext]_backendVars =>
        [~tcp_adapter_cleanup =>
           \A c \in Connected : inbox[c] \in {"none", "query"} => c \in Connected']_backendVars
  <2> SUFFICES ASSUME BackendInv, BackendNext, ~tcp_adapter_cleanup,
                      NEW c \in Connected, inbox[c] \in {"none", "query"}
               PROVE  c \in Connected'
    OBVIOUS
  <2> USE DEF BackendInv, BackendTypeOK
  <2>1. PICK f \in Fd : file[f] = c
    BY DEF Connected
  <2>2. c \in Client /\ c # "free" /\ c # "serial"
    BY NamesDistinct DEF Connected
  <2>3. f \in OpenFds /\ f # ctx_rtu /\ Closed[f] = c
    BY <2>1, <2>2, NamesDistinct DEF OpenFds, NoOrphan, Closed
  <2>4. ASSUME file'[f] = c PROVE c \in Connected'
    BY <2>2, <2>4 DEF Connected
  <2>5. CASE tcp_adapter_init \/ tcp_adapter_accept_client
    <3>1. UNCHANGED file \/ \E g \in Fd \ OpenFds : \E x : file' = [file EXCEPT ![g] = x]
      BY <2>5 DEF tcp_adapter_init, tcp_adapter_accept_client
    <3> QED
      BY <2>1, <2>3, <2>4, <3>1
  <2>6. CASE \E s \in Slot : tcp_adapter_handle_error(s)
    <3>1. PICK s \in Slot : tcp_adapter_handle_error(s)
      BY <2>6
    <3>2. /\ inbox[file[tcp_conn_socks[s]]] \in {"broken", "eof"}
          /\ file' = [file EXCEPT ![tcp_conn_socks[s]] = "free"]
      BY <3>1 DEF tcp_adapter_handle_error
    <3>3. f # tcp_conn_socks[s]
      BY <2>1, <3>2
    <3> QED
      BY <2>1, <2>4, <3>2, <3>3
  <2>7. CASE rtu_adapter_init \/ rtu_adapter_reconnect
    <3>1. PICK after \in {file, Closed} : Open(after)
      BY <2>7 DEF rtu_adapter_init, rtu_adapter_reconnect
    <3>2. after \in [Fd -> Kind] /\ after[f] = c
      BY <2>1, <2>3, ClosedType
    <3>3. file' = after \/ \E g \in Fd : after[g] = "free" /\ file' = [after EXCEPT ![g] = "serial"]
      BY <3>1 DEF Open
    <3> QED
      BY <2>2, <2>4, <3>2, <3>3
  <2>8. CASE file' = Closed
    BY <2>3, <2>4, <2>8
  <2>9. CASE UNCHANGED file
    BY <2>1, <2>4, <2>9
  <2>10. ASSUME modbus_backend_create \/ modbus_backend_destroy \/ tcp_adapter_accept_fails
               \/ (\E i \in -1 .. MAX_TCP_CLIENTS : tcp_adapter_handle_nobody(i))
               \/ (\E s \in Slot : tcp_adapter_handle_query(s))
               \/ rtu_adapter_cleanup \/ rtu_adapter_handle \/ rtu_adapter_handle_error
               \/ (\E m \in Client : Master(m)) \/ Device
        PROVE  file' = Closed \/ UNCHANGED file
    BY <2>10 DEF modbus_backend_create, modbus_backend_destroy, tcp_adapter_accept_fails,
                 tcp_adapter_handle_nobody, tcp_adapter_handle_query, rtu_adapter_cleanup,
                 rtu_adapter_handle, rtu_adapter_handle_error, Master, Device
  <2> QED
    BY <2>5, <2>6, <2>7, <2>8, <2>9, <2>10 DEF BackendNext
<1> QED
  BY <1>1, Inductive, PTL DEF BackendSpec, NoInnocentDropped

\* A reconnect that says it worked left a handle that does, with any of the
\* descriptors, whatever became of the line before (rtu_adapter.c:47-112,
\* server_controller.c:47-87).
THEOREM ReconnectWorks == BackendSpec => ReconnectGivesLiveLine
<1>1. [rtu_adapter_reconnect /\ rc' = 0 => ctx_rtu' # NoFd /\ ~hangup']_backendVars
  <2> SUFFICES ASSUME rtu_adapter_reconnect, rc' = 0
               PROVE  ctx_rtu' # NoFd /\ ~hangup'
    OBVIOUS
  <2>1. ctx_rtu' \in Fd /\ hangup' = FALSE
    BY DEF rtu_adapter_reconnect, Open
  <2> QED
    BY <2>1, NamesDistinct
<1> QED
  BY <1>1, PTL DEF ReconnectGivesLiveLine

-----------------------------------------------------------------------------
(* The commands and the configuration.                                     *)

USE CommandAssumption DEF CommandAssumption

\* What the theorems need of the states: the registers are there, and a
\* request is a command or an update.
Shaped ==
  /\ tab_registers = [c \in Bank!Cell |-> tab_registers[c]]
  /\ request \in Bank!Request \cup {[kind |-> c] : c \in Command} \cup {NoRequest}

LEMMA WrittenShape ==
  ASSUME Shaped, NEW req, NEW idx
  PROVE  Written(req, idx) = [c \in Bank!Cell |-> Written(req, idx)[c]]
<1> USE DEF Shaped
<1>1. \A words, order : write_registers(idx, words, order)
                          = [c \in Bank!Cell |-> write_registers(idx, words, order)[c]]
  BY DEF write_registers
<1>2. \A x : [tab_registers EXCEPT ![idx] = x]
               = [c \in Bank!Cell |-> [tab_registers EXCEPT ![idx] = x][c]]
  OBVIOUS
<1> QED
  BY <1>1, <1>2 DEF Written

\* One update does what RegisterBank's Stored does.
LEMMA WrittenIsStored ==
  ASSUME Shaped, NEW req \in Bank!Request, NEW idx \in Bank!Register
  PROVE  Written(req, idx) = Bank!Stored(idx, Bank!WordsOf(req))
<1> USE DEF Shaped
<1> DEFINE order == Bank!parse_byte_order(req.byte_order)
           bo == parse_byte_order(req.byte_order)
           v == Bank!valueint(req.value) % Bank!Words
           u == (IF req.datatype = "float" THEN req.value ELSE Bank!valueint(req.value)) % Bank!DWords
           low == u % Bank!Words
           high == u \div Bank!Words
<1>1. /\ order = "SWAP" <=> bo = "ORDER_SWAP"
      /\ order = "BE" <=> bo = "ORDER_BE"
      /\ order = "LE" <=> bo = "ORDER_LE"
      /\ order \in {"LE", "BE", "SWAP"}
  BY DEF parse_byte_order, Bank!parse_byte_order, Bank!ByteOrder
<1>2. idx \in Int /\ \A c \in Bank!Cell : c \in Int
  BY DEF Bank!Register, Bank!Cell
<1>3. \A words : Bank!Stored(idx, words) =
        [c \in Bank!Cell |-> IF c - idx + 1 \in DOMAIN words THEN words[c - idx + 1] ELSE tab_registers[c]]
  BY DEF Bank!Stored
<1>4. \A w : swap(w) = Bank!Swap(w)
  BY DEF swap, Bank!Swap
<1>5. CASE req.kind # "number" \/ req.datatype = "other"
  <2>1. Bank!WordsOf(req) = <<>> /\ Written(req, idx) = tab_registers
    BY <1>5 DEF Bank!WordsOf, Written
  <2>2. Bank!Stored(idx, <<>>) = [c \in Bank!Cell |-> tab_registers[c]]
    BY <1>3
  <2> QED
    BY <2>1, <2>2
<1>6. CASE req.kind = "number" /\ req.datatype \in {"uint16", "int16"}
  <2> DEFINE w == IF order = "SWAP" THEN Bank!Swap(v) ELSE v
  <2>1. Bank!WordsOf(req) = <<w>>
    BY <1>6 DEF Bank!WordsOf
  <2>2. Written(req, idx) = [tab_registers EXCEPT ![idx] = w]
    BY <1>1, <1>4, <1>6 DEF Written
  <2> HIDE DEF w
  <2> DEFINE words == <<w>>
  <2>3. Bank!Stored(idx, words) = [c \in Bank!Cell |-> IF c = idx THEN w ELSE tab_registers[c]]
    <3>1. DOMAIN words = 1 .. 1 /\ words[1] = w
      OBVIOUS
    <3> HIDE DEF words
    <3>2. \A c \in Bank!Cell :
            /\ c - idx + 1 \in DOMAIN words <=> c = idx
            /\ c = idx => c - idx + 1 = 1
      BY <1>2, <3>1
    <3> QED
      BY <1>2, <1>3, <3>1, <3>2
  <2>4. [tab_registers EXCEPT ![idx] = w] = [c \in Bank!Cell |-> IF c = idx THEN w ELSE tab_registers[c]]
    OBVIOUS
  <2> QED
    BY <2>1, <2>2, <2>3, <2>4
<1>7. CASE req.kind = "number" /\ req.datatype \in {"uint32", "int32", "float"}
  <2>1. Bank!WordsOf(req) = Bank!Ordered(u, order)
    BY <1>7 DEF Bank!WordsOf
  <2>2. Written(req, idx) = write_registers(idx, <<low, high>>, bo)
    BY <1>7 DEF Written
  <2>3. Bank!Ordered(u, order) = CASE order = "SWAP" -> <<swap(low), swap(high)>>
                                   [] order = "BE" -> <<high, low>>
                                   [] OTHER -> <<low, high>>
    BY <1>4 DEF Bank!Ordered
  <2> HIDE DEF order, bo, u, low, high
  <2> DEFINE first == CASE order = "SWAP" -> swap(low) [] order = "BE" -> high [] OTHER -> low
             second == CASE order = "SWAP" -> swap(high) [] order = "BE" -> low [] OTHER -> high
  <2>4. Bank!Ordered(u, order) = <<first, second>>
    BY <1>1, <2>3
  <2>5. write_registers(idx, <<low, high>>, bo) =
          [c \in Bank!Cell |-> IF c - idx \in 0 .. 1 THEN <<first, second>>[c - idx + 1] ELSE tab_registers[c]]
    <3> DEFINE swapped == IF bo = "ORDER_SWAP" THEN [i \in 1 .. 2 |-> swap(<<low, high>>[i])] ELSE <<low, high>>
               out == IF bo = "ORDER_BE" THEN <<swapped[2], swapped[1]>> ELSE swapped
    <3>1. write_registers(idx, <<low, high>>, bo) =
            [c \in Bank!Cell |-> IF c - idx \in 0 .. 1 THEN out[c - idx + 1] ELSE tab_registers[c]]
      BY DEF write_registers
    <3>2. out[1] = first /\ out[2] = second
      BY <1>1
    <3> HIDE DEF out, first, second
    <3>3. \A c \in Bank!Cell : c - idx \in 0 .. 1 => out[c - idx + 1] = <<first, second>>[c - idx + 1]
      BY <1>2, <3>2
    <3> QED
      BY <3>1, <3>3
  <2> HIDE DEF first, second
  <2>6. DOMAIN <<first, second>> = 1 .. 2
    OBVIOUS
  <2>7. \A c \in Bank!Cell : c - idx + 1 \in DOMAIN <<first, second>> <=> c - idx \in 0 .. 1
    BY <1>2, <2>6
  <2> QED
    BY <1>3, <2>1, <2>2, <2>4, <2>5, <2>7
<1> QED
  BY <1>5, <1>6, <1>7 DEF Bank!Request, Bank!DataType

-----------------------------------------------------------------------------
(* Theorems.                                                               *)

LEMMA UpdateShape ==
  ASSUME Shaped, json_command_update_data
  PROVE  tab_registers' = [c \in Bank!Cell |-> tab_registers'[c]]
BY WrittenShape DEF json_command_update_data, Shaped

LEMMA ShapeInvariant == CommandSpec => []Shaped
<1>1. CommandInit => Shaped
  BY DEF CommandInit, Shaped
<1>2. Shaped /\ [CommandNext]_commandVars => Shaped'
  <2> SUFFICES ASSUME Shaped, [CommandNext]_commandVars PROVE Shaped'
    OBVIOUS
  <2>1. CASE Receives
    BY <2>1 DEF Receives, Shaped
  <2>2. CASE Starts
    BY <2>2 DEF Starts, Shaped
  <2>3. CASE json_command_process
    <3>1. tab_registers' = [c \in Bank!Cell |-> tab_registers'[c]]
      <4>1. Obeys(request.kind) => UNCHANGED tab_registers
        BY DEF Obeys
      <4> QED
        BY <2>3, <4>1, UpdateShape DEF json_command_process, Shaped
    <3> QED
      BY <2>3, <3>1 DEF json_command_process, Shaped
  <2>4. CASE UNCHANGED commandVars
    BY <2>4 DEF commandVars, Shaped
  <2> QED
    BY <2>1, <2>2, <2>3, <2>4 DEF CommandNext
<1> QED
  BY <1>1, <1>2, PTL DEF CommandSpec

LEMMA IndexIsInt ==
  ASSUME NEW req \in Bank!Request
  PROVE  /\ Bank!valueint(req.address) \in Int
         /\ Bank!Index(req) = Bank!valueint(req.address)
<1>1. req.address \in Int
  BY DEF Bank!Request
<1>2. Base * Base \in Nat
  OBVIOUS
<1>3. Bank!Words \in Nat
  BY <1>2 DEF Bank!Words
<1>4. Bank!DWords \in Nat
  BY <1>3 DEF Bank!DWords
<1>5. Bank!valueint(req.address) \in Int
  BY <1>1, <1>4 DEF Bank!valueint, Bank!INT_MAX, Bank!INT_MIN
<1> QED
  BY <1>5 DEF Bank!Index

\* With a mapping, an update does to the registers what main() does with a
\* range that starts at 0, and gives the same kind of answer
\* (json_command.c:56-123, json-modbus-server.c:209-257).
THEOREM CommandsLikeMain == CommandSpec => UpdatesLikeMain
<1>1. Shaped /\ [CommandNext]_commandVars =>
        [json_command_process /\ mapping /\ request.kind \notin Command
         => Bank!process_json]_commandVars
  <2> SUFFICES ASSUME Shaped, json_command_process, mapping, request.kind \notin Command
               PROVE  Bank!process_json
    OBVIOUS
  <2> DEFINE idx == Bank!valueint(request.address)
  <2>1. request \in Bank!Request /\ request # NoRequest /\ request' = NoRequest
    BY DEF json_command_process, Shaped
  <2>2. json_command_update_data
    BY DEF json_command_process
  <2>3. idx \in Int /\ Bank!Index(request) = idx
    BY <2>1, IndexIsInt
  <2>4. Bank!InRange(request) <=> 0 <= idx /\ idx < nb_registers
    BY <2>3 DEF Bank!InRange, Bank!Register
  <2>5. Bank!Drops \/ Bank!Refuses \/ Bank!Updates
    <3>1. CASE request.kind = "incomplete"
      BY <2>2, <3>1 DEF json_command_update_data, Bank!Drops
    <3>2. CASE request.kind # "incomplete" /\ ~Bank!InRange(request)
      BY <2>2, <2>3, <2>4, <3>2 DEF json_command_update_data, Bank!Refuses
    <3>3. CASE request.kind # "incomplete" /\ Bank!InRange(request)
      <4>1. reply' = "updated" /\ tab_registers' = Written(request, idx)
        BY <2>2, <2>3, <2>4, <3>3 DEF json_command_update_data
      <4>2. Written(request, idx) = Bank!Stored(idx, Bank!WordsOf(request))
        BY <2>1, <2>3, <3>3, WrittenIsStored DEF Bank!InRange
      <4> QED
        BY <2>3, <3>3, <4>1, <4>2 DEF Bank!Updates
    <3> QED
      BY <3>1, <3>2, <3>3
  <2> QED
    BY <2>1, <2>5 DEF Bank!process_json, Bank!NoRequest, NoRequest
<1> QED
  BY <1>1, ShapeInvariant, PTL DEF CommandSpec, UpdatesLikeMain

\* No order of commands, updates and start-up writes a register, or claims to
\* have, before the mapping is there (json_command.c:78).
THEOREM NoWriteBeforeMapping == CommandSpec => []NothingBeforeMapping
<1>1. CommandInit => NothingBeforeMapping
  BY DEF CommandInit, NothingBeforeMapping
<1>2. NothingBeforeMapping /\ [CommandNext]_commandVars => NothingBeforeMapping'
  <2> SUFFICES ASSUME NothingBeforeMapping, [CommandNext]_commandVars, ~mapping'
               PROVE  reply' # "updated" /\ \A c \in Bank!Cell : tab_registers'[c] = 0
    BY DEF NothingBeforeMapping, Bank!Cell
  <2>1. CASE Receives
    BY <2>1 DEF Receives, NothingBeforeMapping
  <2>2. CASE Starts
    <3>1. ~mapping
      BY <2>2, Zenon DEF Starts
    <3>2. reply' = "none" /\ tab_registers' = tab_registers
      BY <2>2 DEF Starts
    <3> QED
      BY <3>1, <3>2 DEF NothingBeforeMapping
  <2>3. CASE json_command_process
    <3>1. CASE json_command_update_data
      BY <3>1 DEF json_command_update_data, NothingBeforeMapping
    <3>2. CASE Obeys(request.kind)
      BY <3>2 DEF Obeys, NothingBeforeMapping
    <3> QED
      BY <2>3, <3>1, <3>2 DEF json_command_process
  <2>4. CASE UNCHANGED commandVars
    BY <2>4 DEF commandVars, NothingBeforeMapping
  <2> QED
    BY <2>1, <2>2, <2>3, <2>4 DEF CommandNext
<1> QED
  BY <1>1, <1>2, PTL DEF CommandSpec

-----------------------------------------------------------------------------
(* The two readers of the configuration file.                              *)

Keys == {"enable_tcp", "enable_rtu", "tcp_port", "unit_id", "serial_device", "baudrate",
         "parity", "data_bits", "stop_bits", "coils", "input_bits", "holding_regs", "input_regs"}

Keyed(c) == c = [k \in Keys |-> c[k]]

\* What one assignment of config_load changes, and what it leaves.
LEMMA NumberParsed ==
  ASSUME NEW c, Keyed(c), NEW j, NEW key \in Keys
  PROVE  /\ Keyed(ParseNumber(c, j, key))
         /\ \A k \in Keys : ParseNumber(c, j, key)[k] = IF k = key /\ IsNumber(j) THEN j.int ELSE c[k]
BY DEF ParseNumber, Keyed

LEMMA RegsParsed ==
  ASSUME NEW c, Keyed(c), NEW j, NEW key \in Keys
  PROVE  /\ Keyed(ParseRegs(c, j, key))
         /\ \A k \in Keys : ParseRegs(c, j, key)[k] = IF k = key THEN object_or_array(j, c[k]) ELSE c[k]
<1> DEFINE p == ParseRegs(c, j, key)
           new == object_or_array(j, c[key])
<1>1. p = [c EXCEPT ![key] = new] \/ (p = c /\ new = c[key])
  <2>1. CASE IsObject(j)
    <3>1. ~IsArray(j)
      BY <2>1 DEF IsObject, IsArray
    <3> QED
      BY <2>1, <3>1 DEF ParseRegs, object_or_array
  <2>2. CASE ~IsObject(j)
    <3>1. Len(j.items) >= 2 <=> Len(j.items) > 1
      BY SMT
    <3> QED
      BY <2>2, <3>1, Zenon DEF ParseRegs, object_or_array
  <2> QED
    BY <2>1, <2>2
<1> HIDE DEF p, new
<1>2. Keyed(p) /\ \A k \in Keys : p[k] = IF k = key THEN new ELSE c[k]
  BY <1>1 DEF Keyed
<1>3. \A k \in Keys : (IF k = key THEN new ELSE c[k]) = IF k = key THEN object_or_array(j, c[k]) ELSE c[k]
  BY DEF new
<1> QED
  BY <1>2, <1>3 DEF p

LEMMA ModeParsed ==
  ASSUME NEW c, Keyed(c), NEW root
  PROVE  /\ Keyed(ParseMode(c, root))
         /\ \A k \in Keys : ParseMode(c, root)[k] =
              CASE k = "enable_tcp" /\ IsString(root.mode) -> root.mode.tcp # 0
                [] k = "enable_rtu" /\ IsString(root.mode) -> root.mode.rtu # 0
                [] OTHER -> c[k]
BY DEF ParseMode, Keyed

\* What ParseSerial leaves under a key.
Serial(c, j, byte, k) ==
  CASE ~IsObject(j) -> c[k]
    [] k = "serial_device" /\ IsObject(j) /\ IsString(j.device) -> Copied(j.device.text, byte)
    [] k = "baudrate" /\ IsObject(j) /\ IsNumber(j.baudrate) -> j.baudrate.int
    [] k = "parity" /\ IsObject(j) /\ IsString(j.parity) -> j.parity.text
    [] k = "data_bits" /\ IsObject(j) /\ IsNumber(j.data_bits) -> j.data_bits.int
    [] k = "stop_bits" /\ IsObject(j) /\ IsNumber(j.stop_bits) -> j.stop_bits.int
    [] OTHER -> c[k]

LEMMA SerialParsed ==
  ASSUME NEW c, Keyed(c), NEW j, NEW byte
  PROVE  /\ Keyed(ParseSerial(c, j, byte))
         /\ \A k \in Keys : ParseSerial(c, j, byte)[k] = Serial(c, j, byte, k)
<1> DEFINE c1 == IF IsString(j.device)
                 THEN [c EXCEPT !.serial_device = Copied(j.device.text, byte)] ELSE c
           c2 == ParseNumber(c1, j.baudrate, "baudrate")
           c3 == IF IsString(j.parity) THEN [c2 EXCEPT !.parity = j.parity.text] ELSE c2
           c4 == ParseNumber(c3, j.data_bits, "data_bits")
           c5 == ParseNumber(c4, j.stop_bits, "stop_bits")
<1>1. /\ Keyed(c1)
      /\ \A k \in Keys : c1[k] = IF k = "serial_device" /\ IsString(j.device)
                                 THEN Copied(j.device.text, byte) ELSE c[k]
  BY DEF Keyed
<1>2. /\ Keyed(c2)
      /\ \A k \in Keys : c2[k] = IF k = "baudrate" /\ IsNumber(j.baudrate) THEN j.baudrate.int ELSE c1[k]
  <2> HIDE DEF c1
  <2>1. "baudrate" \in Keys
    BY DEF Keys
  <2> QED
    BY <1>1, <2>1, NumberParsed
<1>3. /\ Keyed(c3)
      /\ \A k \in Keys : c3[k] = IF k = "parity" /\ IsString(j.parity) THEN j.parity.text ELSE c2[k]
  <2> HIDE DEF c2
  <2> QED
    BY <1>2 DEF Keyed
<1>4. /\ Keyed(c4)
      /\ \A k \in Keys : c4[k] = IF k = "data_bits" /\ IsNumber(j.data_bits) THEN j.data_bits.int ELSE c3[k]
  <2> HIDE DEF c3
  <2>1. "data_bits" \in Keys
    BY DEF Keys
  <2> QED
    BY <1>3, <2>1, NumberParsed
<1>5. /\ Keyed(c5)
      /\ \A k \in Keys : c5[k] = IF k = "stop_bits" /\ IsNumber(j.stop_bits) THEN j.stop_bits.int ELSE c4[k]
  <2> HIDE DEF c4
  <2>1. "stop_bits" \in Keys
    BY DEF Keys
  <2> QED
    BY <1>4, <2>1, NumberParsed
<1>6. ParseSerial(c, j, byte) = IF IsObject(j) THEN c5 ELSE c
  BY DEF ParseSerial
<1> HIDE DEF c1, c2, c3, c4, c5
<1> QED
  BY <1>1, <1>2, <1>3, <1>4, <1>5, <1>6 DEF Serial

\* What a configuration made from the file f holds under a key, when the mode
\* is short and the device name ends within its 64 bytes.
Made(f, k) ==
  CASE k = "enable_tcp" -> f.mode.tcp # 0
    [] k = "enable_rtu" -> f.mode.rtu # 0
    [] k = "tcp_port" -> IF IsNumber(f.tcp_port) THEN f.tcp_port.int ELSE 1502
    [] k = "unit_id" -> IF IsNumber(f.unit_id) THEN f.unit_id.int ELSE 1
    [] k = "serial_device" -> IF ~(IsObject(f.serial) /\ IsString(f.serial.device)) THEN 12
                              ELSE IF f.serial.device.text > 63 THEN 63 ELSE f.serial.device.text
    [] k = "baudrate" -> IF IsObject(f.serial) /\ IsNumber(f.serial.baudrate)
                         THEN f.serial.baudrate.int ELSE 9600
    [] k = "parity" -> IF IsObject(f.serial) /\ IsString(f.serial.parity)
                       THEN f.serial.parity.text ELSE "N"
    [] k = "data_bits" -> IF IsObject(f.serial) /\ IsNumber(f.serial.data_bits)
                          THEN f.serial.data_bits.int ELSE 8
    [] k = "stop_bits" -> IF IsObject(f.serial) /\ IsNumber(f.serial.stop_bits)
                          THEN f.serial.stop_bits.int ELSE 1
    [] k = "coils" -> object_or_array(f.coils, <<0, 0>>)
    [] k = "input_bits" -> object_or_array(f.input_bits, <<0, 0>>)
    [] k = "holding_regs" -> object_or_array(f.holding_registers, <<0, 0>>)
    [] k = "input_regs" -> object_or_array(f.input_registers, <<0, 0>>)

Record(a, b, c, d, e, f, g, h, i, j, k, l, m) ==
  [enable_tcp |-> a, enable_rtu |-> b, tcp_port |-> c, unit_id |-> d,
   serial_device |-> e, baudrate |-> f, parity |-> g, data_bits |-> h, stop_bits |-> i,
   coils |-> j, input_bits |-> k, holding_regs |-> l, input_regs |-> m]

LEMMA RecordKeyed ==
  ASSUME NEW a, NEW b, NEW c, NEW d, NEW e, NEW f, NEW g, NEW h, NEW i, NEW j, NEW k, NEW l, NEW m
  PROVE  Keyed(Record(a, b, c, d, e, f, g, h, i, j, k, l, m))
BY SMTT(60) DEF Keyed, Record, Keys

\* A word found in a short mode is found by both readers.
LEMMA ShortWords ==
  ASSUME NEW f \in File, Readable(f), ShortMode(f)
  PROVE  IsString(f.mode) /\ InMode(f.mode.tcp) = (f.mode.tcp # 0)
                          /\ InMode(f.mode.rtu) = (f.mode.rtu # 0)
<1>1. f.mode.tcp \in Nat /\ f.mode.rtu \in Nat
  BY ConfigAssumption DEF ShortMode
<1> QED
  BY <1>1 DEF ShortMode, InMode

\* load_config() makes its settings in one piece.
LEMMA GlobalsLoaded ==
  ASSUME NEW f \in File, Readable(f), ShortMode(f)
  PROVE  load_config(f) = <<0, [k \in Keys |-> Made(f, k)]>>
<1> DEFINE m(k) == Made(f, k)
           c == Record(m("enable_tcp"), m("enable_rtu"), m("tcp_port"), m("unit_id"),
                       m("serial_device"), m("baudrate"), m("parity"), m("data_bits"),
                       m("stop_bits"), m("coils"), m("input_bits"), m("holding_regs"),
                       m("input_regs"))
<1>1. /\ m("enable_tcp") = InMode(f.mode.tcp) /\ m("enable_rtu") = InMode(f.mode.rtu)
      /\ IsString(f.mode)
  <2>1. Made(f, "enable_tcp") = (f.mode.tcp # 0)
    BY DEF Made
  <2>2. Made(f, "enable_rtu") = (f.mode.rtu # 0)
    BY DEF Made
  <2> QED
    BY <2>1, <2>2, ShortWords
<1>2. /\ m("tcp_port") = (IF IsNumber(f.tcp_port) THEN f.tcp_port.int ELSE 1502)
      /\ m("unit_id") = (IF IsNumber(f.unit_id) THEN f.unit_id.int ELSE 1)
  BY DEF Made
<1>3. m("serial_device") = (IF ~(IsObject(f.serial) /\ IsString(f.serial.device)) THEN 12
                            ELSE IF f.serial.device.text > 63 THEN 63 ELSE f.serial.device.text)
  BY DEF Made
<1>4. /\ m("baudrate") = (IF IsObject(f.serial) /\ IsNumber(f.serial.baudrate)
                          THEN f.serial.baudrate.int ELSE 9600)
      /\ m("parity") = (IF IsObject(f.serial) /\ IsString(f.serial.parity)
                        THEN f.serial.parity.text ELSE "N")
  BY DEF Made
<1>5. /\ m("data_bits") = (IF IsObject(f.serial) /\ IsNumber(f.serial.data_bits)
                           THEN f.serial.data_bits.int ELSE 8)
      /\ m("stop_bits") = (IF IsObject(f.serial) /\ IsNumber(f.serial.stop_bits)
                           THEN f.serial.stop_bits.int ELSE 1)
  BY DEF Made
<1>6. /\ m("coils") = object_or_array(f.coils, <<0, 0>>)
      /\ m("input_bits") = object_or_array(f.input_bits, <<0, 0>>)
      /\ m("holding_regs") = object_or_array(f.holding_registers, <<0, 0>>)
      /\ m("input_regs") = object_or_array(f.input_registers, <<0, 0>>)
  BY DEF Made
<1>7. \A k \in Keys : c[k] = m(k)
  <2> HIDE DEF m
  <2> QED
    BY DEF Record, Keys
<1>8. Keyed(c)
  BY RecordKeyed
<1>9. load_config(f) = <<0, c>>
  <2> HIDE DEF m
  <2>1. /\ Globals.tcp_port = 1502 /\ Globals.unit_id = 1 /\ Globals.serial_device = 12
        /\ Globals.baudrate = 9600 /\ Globals.parity = "N" /\ Globals.data_bits = 8
        /\ Globals.stop_bits = 1 /\ Globals.coils = <<0, 0>> /\ Globals.input_bits = <<0, 0>>
        /\ Globals.holding_regs = <<0, 0>> /\ Globals.input_regs = <<0, 0>>
    BY DEF Globals
  <2>2. \A old : (IF (IF IsObject(f.serial) /\ IsString(f.serial.device)
                      THEN f.serial.device.text ELSE 12) > 63 THEN 63
                  ELSE IF IsObject(f.serial) /\ IsString(f.serial.device)
                       THEN f.serial.device.text ELSE 12) = m("serial_device")
    BY <1>3
  <2> QED
    BY <1>1, <1>2, <1>3, <1>4, <1>5, <1>6, <2>1, <2>2 DEF load_config, Record, IsString, IsNumber
<1> HIDE DEF c
<1> QED
  BY <1>7, <1>8, <1>9 DEF Keyed

\* config_load() makes them one assignment after the other.
LEMMA AllParsed ==
  ASSUME NEW f \in File, NEW byte \in {0, 1}, Readable(f), ShortMode(f),
         Parsed(f, byte).serial_device < 64
  PROVE  Parsed(f, byte) = [k \in Keys |-> Made(f, k)]
<1> DEFINE c1 == ParseMode(Defaults, f)
           c2 == ParseNumber(c1, f.tcp_port, "tcp_port")
           c3 == ParseNumber(c2, f.unit_id, "unit_id")
           c4 == ParseSerial(c3, f.serial, byte)
           c5 == ParseRegs(c4, f.coils, "coils")
           c6 == ParseRegs(c5, f.input_bits, "input_bits")
           c7 == ParseRegs(c6, f.holding_registers, "holding_regs")
           c8 == ParseRegs(c7, f.input_registers, "input_regs")
<1>1. Keyed(Defaults)
  BY SMTT(60) DEF Keyed, Keys, Defaults
<1>2. /\ Keyed(c1)
      /\ \A k \in Keys : c1[k] = CASE k = "enable_tcp" -> f.mode.tcp # 0
                                   [] k = "enable_rtu" -> f.mode.rtu # 0
                                   [] OTHER -> Defaults[k]
  <2>1. IsString(f.mode)
    BY ShortWords
  <2>2. \A root : Keyed(ParseMode(Defaults, root))
    BY <1>1, ModeParsed
  <2> QED
    BY <1>1, <2>1, <2>2, ModeParsed
<1>3. /\ Keyed(c2)
      /\ \A k \in Keys : c2[k] = IF k = "tcp_port" /\ IsNumber(f.tcp_port) THEN f.tcp_port.int ELSE c1[k]
  <2> HIDE DEF c1
  <2>1. "tcp_port" \in Keys
    BY DEF Keys
  <2> QED
    BY <1>2, <2>1, NumberParsed
<1>4. /\ Keyed(c3)
      /\ \A k \in Keys : c3[k] = IF k = "unit_id" /\ IsNumber(f.unit_id) THEN f.unit_id.int ELSE c2[k]
  <2> HIDE DEF c2
  <2>1. "unit_id" \in Keys
    BY DEF Keys
  <2> QED
    BY <1>3, <2>1, NumberParsed
<1>5. /\ Keyed(c4)
      /\ \A k \in Keys : c4[k] = Serial(c3, f.serial, byte, k)
  <2> HIDE DEF c3
  <2> QED
    BY <1>4, SerialParsed
<1>6. /\ Keyed(c5)
      /\ \A k \in Keys : c5[k] = IF k = "coils" THEN object_or_array(f.coils, c4[k]) ELSE c4[k]
  <2> HIDE DEF c4
  <2>1. "coils" \in Keys
    BY DEF Keys
  <2> QED
    BY <1>5, <2>1, RegsParsed
<1>7. /\ Keyed(c6)
      /\ \A k \in Keys : c6[k] = IF k = "input_bits" THEN object_or_array(f.input_bits, c5[k]) ELSE c5[k]
  <2> HIDE DEF c5
  <2>1. "input_bits" \in Keys
    BY DEF Keys
  <2> QED
    BY <1>6, <2>1, RegsParsed
<1>8. /\ Keyed(c7)
      /\ \A k \in Keys : c7[k] = IF k = "holding_regs"
                                 THEN object_or_array(f.holding_registers, c6[k]) ELSE c6[k]
  <2> HIDE DEF c6
  <2>1. "holding_regs" \in Keys
    BY DEF Keys
  <2> QED
    BY <1>7, <2>1, RegsParsed
<1>9. /\ Keyed(c8)
      /\ \A k \in Keys : c8[k] = IF k = "input_regs"
                                 THEN object_or_array(f.input_registers, c7[k]) ELSE c7[k]
  <2> HIDE DEF c7
  <2>1. "input_regs" \in Keys
    BY DEF Keys
  <2> QED
    BY <1>8, <2>1, RegsParsed
<1>10. Parsed(f, byte) = c8
  BY DEF Parsed
<1> HIDE DEF c1, c2, c3, c4, c5, c6, c7, c8
<1>11. \A k \in Keys : c8[k] =
         CASE k = "coils" -> object_or_array(f.coils, c4[k])
           [] k = "input_bits" -> object_or_array(f.input_bits, c4[k])
           [] k = "holding_regs" -> object_or_array(f.holding_registers, c4[k])
           [] k = "input_regs" -> object_or_array(f.input_registers, c4[k])
           [] OTHER -> c4[k]
  BY <1>6, <1>7, <1>8, <1>9
<1>12. \A k \in Keys : c3[k] =
         CASE k = "enable_tcp" -> f.mode.tcp # 0
           [] k = "enable_rtu" -> f.mode.rtu # 0
           [] k = "tcp_port" /\ IsNumber(f.tcp_port) -> f.tcp_port.int
           [] k = "unit_id" /\ IsNumber(f.unit_id) -> f.unit_id.int
           [] OTHER -> Defaults[k]
  BY <1>2, <1>3, <1>4
<1>13. "serial_device" \in Keys /\ c8["serial_device"] < 64
  <2>1. c8.serial_device < 64
    BY <1>10
  <2> QED
    BY <2>1 DEF Keys
<1>14. c8["serial_device"] = Made(f, "serial_device")
  <2> DEFINE j == f.serial
  <2>1. c4["serial_device"] < 64 /\ c8["serial_device"] = c4["serial_device"]
    BY <1>11, <1>13
  <2>2. c3["serial_device"] = 12
    BY <1>12, <1>13 DEF Defaults
  <2>3. CASE IsObject(j) /\ IsString(j.device)
    <3>1. j.device.text \in Nat
      BY <2>3, ConfigAssumption
    <3>2. c4["serial_device"] = Copied(j.device.text, byte)
      BY <1>5, <1>13, <2>3 DEF Serial
    <3>3. Made(f, "serial_device") = IF j.device.text > 63 THEN 63 ELSE j.device.text
      BY <2>3 DEF Made
    <3> QED
      BY <2>1, <3>1, <3>2, <3>3 DEF Copied
  <2>4. CASE ~(IsObject(j) /\ IsString(j.device))
    <3>1. c4["serial_device"] = 12
      BY <1>5, <1>13, <2>2, <2>4 DEF Serial
    <3>2. Made(f, "serial_device") = 12
      BY <2>4 DEF Made
    <3> QED
      BY <2>1, <3>1, <3>2
  <2> QED
    BY <2>3, <2>4
<1>15. \A k \in {"enable_tcp", "enable_rtu", "tcp_port", "unit_id"} : c8[k] = Made(f, k)
  BY <1>5, <1>11, <1>12 DEF Keys, Serial, Made, Defaults
<1>16. \A k \in {"baudrate", "parity", "data_bits", "stop_bits"} : c8[k] = Made(f, k)
  BY <1>5, <1>11, <1>12 DEF Keys, Serial, Made, Defaults
<1>17. \A k \in {"coils", "input_bits", "holding_regs", "input_regs"} : c8[k] = Made(f, k)
  BY <1>5, <1>11, <1>12 DEF Keys, Serial, Made, Defaults
<1>18. \A k \in Keys : c8[k] = Made(f, k)
  BY <1>14, <1>15, <1>16, <1>17 DEF Keys
<1>19. c8 = [k \in Keys |-> c8[k]]
  BY <1>9 DEF Keyed
<1> QED
  BY <1>10, <1>18, <1>19

\* The step of a reader, whichever it is, on such a file.
LEMMA StepAgrees ==
  ASSUME settings \in File, memory \in {0, 1}, ConfigNext, Readable(settings), ShortMode(settings),
         config_load(settings, memory)[2].serial_device < 64
  PROVE  <<loaded', config'>> = config_load(settings, memory)
<1>1. config_load(settings, memory) = <<0, Parsed(settings, memory)>>
  BY DEF config_load, Readable
<1>2. Parsed(settings, memory).serial_device < 64
  BY <1>1
<1>3. load_config(settings) = config_load(settings, memory)
  BY <1>1, <1>2, GlobalsLoaded, AllParsed
<1>4. Load(config_load(settings, memory))
  BY <1>3 DEF ConfigNext
<1> QED
  BY <1>1, <1>4 DEF Load

\* Whichever of the two readers the program is built with, a file that names
\* its mode within 15 characters gives the same result and the same settings,
\* whatever its other keys hold, as long as the second leaves the device name
\* terminated (json-modbus-server.c:51-130, config_loader.c:8-109): 13 keys,
\* made in one piece by the one and assigned in turn by the other.
THEOREM LoadersNeverDrift == ConfigSpec => LoadersAgree
<1> DEFINE Inv == settings \in File /\ memory \in {0, 1}
<1>1. ConfigInit => Inv
  BY DEF ConfigInit
<1>2. Inv /\ [ConfigNext]_configVars => Inv'
  BY DEF ConfigNext, Load, configVars
<1>3. Inv /\ [ConfigNext]_configVars =>
        [ConfigNext /\ Readable(settings) /\ ShortMode(settings)
         /\ config_load(settings, memory)[2].serial_device < 64
         => <<loaded', config'>> = config_load(settings, memory)]_configVars
  BY StepAgrees
<1> QED
  BY <1>1, <1>2, <1>3, PTL DEF ConfigSpec, LoadersAgree
=============================================================================
