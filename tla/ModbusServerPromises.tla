------------------------ MODULE ModbusServerPromises ------------------------
(***************************************************************************)
(* What a server that keeps its invariant promises, for every value of the *)
(* constants: no step of an initialised server loses a descriptor; with    *)
(* one transport none is open when main() returns; it never again meets a  *)
(* command without its mapping; a stop ends the iteration it falls in, the *)
(* last; and each step maps to a step of ModbusService or leaves Phase and *)
(* Connected as they are.                                                  *)
(***************************************************************************)
EXTENDS ModbusServerProofs

Held == TcpFds \cup RtuFds

\* A step keeps track of its descriptors when what it opens is held after it,
\* and what it lets go is closed.
LEMMA KeepsTrack ==
  ASSUME \A f \in Fd : file'[f] # "free" => file[f] # "free" \/ f \in Held',
         \A f \in Fd : f \in Held /\ f \notin Held' => file'[f] = "free" \/ f = STDIN_FILENO
  PROVE  Leaked' \subseteq Leaked
BY DEF Leaked, OpenFds, Held

LEMMA SameHeld == UNCHANGED <<file, tcp, ctx_rtu>> => Held' = Held /\ Leaked' = Leaked /\ OpenFds' = OpenFds
BY DEF Held, Leaked, OpenFds, TcpFds, RtuFds, tcp, pool

\* The kernel objects a connect may bring.
LEMMA ConnectTracks ==
  ASSUME IInv, UNCHANGED tcp, enable_rtu, ctx_rtu = NoFd, ConnectRtu \/ ConnectRtuFails
  PROVE  Leaked' \subseteq Leaked
<1>1. TcpFds' = TcpFds /\ RtuFds = {}
  BY DEF TcpFds, RtuFds, tcp, pool
<1>2. CASE ConnectRtu
  <2>1. PICK f \in Fd : ctx_rtu' = f /\ file' = [file EXCEPT ![f] = "serial"]
    BY <1>2 DEF ConnectRtu
  <2>2. f \in Held'
    BY <2>1, NamesDistinct DEF Held, RtuFds
  <2>3. \A g \in Fd : file'[g] # "free" => file[g] # "free" \/ g \in Held'
    BY <2>1, <2>2 DEF IInv, TypeOK
  <2> QED
    BY <1>1, <2>3, KeepsTrack DEF Held
<1>3. CASE ConnectRtuFails
  BY <1>1, <1>3, KeepsTrack DEF ConnectRtuFails, Held
<1> QED
  BY <1>2, <1>3

\* A connection that is accepted gets a slot that was free.
LEMMA AcceptTracks ==
  ASSUME IInv, mb_mapping, Accept
  PROVE  Leaked' \subseteq Leaked
<1>1. RtuFds' = RtuFds
  BY DEF Accept, RtuFds
<1>2. CASE UNCHANGED <<tcp_listen_sock, pool, file>>
  <2>1. UNCHANGED <<file, tcp, ctx_rtu>>
    BY <1>2 DEF Accept, tcp
  <2> QED
    BY <2>1, SameHeld
<1>3. CASE ListenerReady /\ AcceptClient
  <2>1. PICK slot \in Slot, f \in Fd :
          /\ find_free_tcp_client_slot(slot)
          /\ file' = [file EXCEPT ![f] = Head(backlog)]
          /\ tcp_conn_socks' = [tcp_conn_socks EXCEPT ![slot] = f]
          /\ UNCHANGED tcp_listen_sock
    BY <1>3 DEF AcceptClient
  <2>2. tcp_conn_socks[slot] = NoFd
    BY <2>1 DEF find_free_tcp_client_slot, FreeSlots, Slot
  <2>3. \A s \in Slot : tcp_conn_socks'[s] = IF s = slot THEN f ELSE tcp_conn_socks[s]
    BY <2>1 DEF IInv, TypeOK
  <2>4. f \in TcpFds' /\ TcpFds \subseteq TcpFds'
    BY <1>3, <2>1, <2>2, <2>3, NamesDistinct DEF ListenerReady, TcpFds
  <2>5. \A g \in Fd : file'[g] # "free" => file[g] # "free" \/ g \in Held'
    BY <2>1, <2>4 DEF IInv, TypeOK, Held
  <2> QED
    BY <1>1, <2>4, <2>5, KeepsTrack DEF Held
<1>4. CASE ListenerReady /\ Close({tcp_listen_sock}) /\ tcp_listen_sock' = NoFd /\ UNCHANGED pool
  <2>1. file' = [f \in Fd |-> IF f \in {tcp_listen_sock} THEN "free" ELSE file[f]]
    BY <1>4, CloseFile
  <2>2. \A f \in TcpFds : f = tcp_listen_sock \/ f \in TcpFds'
    BY <1>4 DEF TcpFds, pool
  <2> QED
    BY <1>1, <2>1, <2>2, KeepsTrack DEF Held
<1> QED
  BY <1>2, <1>3, <1>4 DEF Accept, RejectClient, AcceptFails, net, pool

LEMMA ClientTracks ==
  ASSUME IInv, HandleClient
  PROVE  Leaked' \subseteq Leaked
<1>1. RtuFds' = RtuFds /\ i \in Slot /\ sock # NoFd
  BY DEF HandleClient, RtuFds, IInv, TypeOK
<1>2. CASE UNCHANGED <<file, pool>>
  BY <1>2, SameHeld DEF HandleClient, tcp
<1>3. CASE Disconnect(file[sock])
  <2>1. file' = [f \in Fd |-> IF f \in {sock} THEN "free" ELSE file[f]]
    BY <1>3, CloseFile DEF Disconnect
  <2>2. \A s \in Slot : tcp_conn_socks'[s] = IF s = i THEN NoFd ELSE tcp_conn_socks[s]
    BY <1>1, <1>3 DEF Disconnect, IInv, TypeOK
  <2>3. \A f \in TcpFds : f = sock \/ f \in TcpFds'
    BY <2>2 DEF HandleClient, TcpFds, sock
  <2> QED
    BY <1>1, <2>1, <2>3, KeepsTrack DEF Held
<1> QED
  BY <1>2, <1>3 DEF HandleClient, Serve, net, pool

LEMMA RtuTracks ==
  ASSUME IInv, HandleRtu
  PROVE  Leaked' \subseteq Leaked
<1>1. UNCHANGED tcp
  BY DEF HandleRtu
<1>2. CASE UNCHANGED <<file, ctx_rtu>>
  BY <1>1, <1>2, SameHeld
<1>3. CASE DropRtu
  <2>1. file' = [f \in Fd |-> IF f \in {ctx_rtu} THEN "free" ELSE file[f]]
    BY <1>3, CloseFile DEF DropRtu
  <2>2. TcpFds' = TcpFds /\ \A f \in RtuFds : f = ctx_rtu
    BY <1>1 DEF TcpFds, RtuFds, tcp, pool
  <2> QED
    BY <2>1, <2>2, KeepsTrack DEF Held
<1> QED
  BY <1>2, <1>3 DEF HandleRtu, ServeRtu, net

LEMMA ServingTracks ==
  ASSUME IInv, [Next]_vars, mb_mapping, mb_mapping'
  PROVE  Leaked' \subseteq Leaked
<1>1. CASE UNCHANGED <<file, tcp, ctx_rtu>>
  BY <1>1, SameHeld
<1>2. CASE InitTcp \/ InitRtu
  BY <1>2 DEF InitTcp, InitRtu, InitNeeded, IInv, Stage
<1>3. CASE CleanupStopped \/ FinalCleanup
  BY <1>1, <1>3 DEF CleanupStopped, FinalCleanup, Release, net
<1>4. CASE Accept
  BY <1>4, AcceptTracks
<1>5. CASE HandleClient
  BY <1>5, ClientTracks
<1>6. CASE HandleRtu
  BY <1>6, RtuTracks
<1>7. CASE Reconnect
  BY <1>1, <1>7, ConnectTracks DEF Reconnect
<1> QED
  BY <1>1, <1>2, <1>3, <1>4, <1>5, <1>6, <1>7, QuietSteps DEF Next, Server, Terminated

\* No step of an initialised server loses track of an open descriptor: not a
\* disconnect, a rejected client, a failed accept or a reconnect (lines
\* 579-661), for every number of slots and any faults.
THEOREM ServingNeverLeaks == Spec => NoLeakWhileServing
<1>1. IInv /\ [Next]_vars => (mb_mapping /\ mb_mapping' => Leaked' \subseteq Leaked)
  BY ServingTracks
<1>2. IInv /\ [Next]_vars => [mb_mapping /\ mb_mapping' => Leaked' \subseteq Leaked]_vars
  BY <1>1
<1> QED
  BY <1>2, Invariance, PTL DEF Spec, NoLeakWhileServing

-----------------------------------------------------------------------------
(* With one transport, and memory for the mapping, nothing is open after   *)
(* the return of main().                                                   *)

OneTransport == ~(enable_tcp /\ enable_rtu) /\ "mapping" \notin Faults

OnlyStdin == OpenFds = {STDIN_FILENO}

\* Without a mapping nothing is open, but between the stages of a start-up
\* that is going to succeed.
Clean ==
  /\ Leaked = {}
  /\ \/ mb_mapping
     \/ pc = "init_mapping"
     \/ pc = "init_rtu" /\ enable_tcp
     \/ OnlyStdin
  /\ pc = "exited" => OnlyStdin

LEMMA StdinAlone == OnlyStdin' => Leaked' = {}
BY DEF OnlyStdin, Leaked

LEMMA StdinIsOpen == IInv => STDIN_FILENO \in OpenFds /\ STDIN_FILENO \in Fd
BY NamesDistinct DEF IInv, Kernel, OpenFds

\* One descriptor is opened beside stdin.
LEMMA OpensOne ==
  ASSUME OnlyStdin, NEW f \in Fd, NEW x, file' = [file EXCEPT ![f] = x], f \in Held', IInv
  PROVE  Leaked' = {}
<1>1. \A g \in Fd : file'[g] # "free" => g = f \/ file[g] # "free"
  BY DEF IInv, TypeOK
<1> QED
  BY <1>1 DEF OnlyStdin, OpenFds, Leaked, Held

\* What Release leaves when nothing is lost.
LEMMA ReleaseCleans ==
  ASSUME IInv, Leaked = {}, mb_mapping, Release
  PROVE  OnlyStdin'
<1>1. \A f \in Held : f # STDIN_FILENO
  BY OwnedOpen DEF IInv, TypeInv, Held
<1>2. file' = [f \in Fd |-> IF f \in Held THEN "free" ELSE file[f]]
  BY CloseFile DEF Release, Held
<1>3. \A f \in OpenFds : f = STDIN_FILENO \/ f \in Held
  BY DEF Leaked, Held
<1>4. STDIN_FILENO \in OpenFds /\ STDIN_FILENO \in Fd
  BY StdinIsOpen
<1> QED
  BY <1>1, <1>2, <1>3, <1>4 DEF OnlyStdin, OpenFds

LEMMA ExitStep ==
  ASSUME [Next]_vars, pc' = "exited"
  PROVE  FinalCleanup \/ UNCHANGED vars
<1>1. ~Environment
  BY DEF Environment, Signal, WritePart, WriteCommand, CloseStdin, ClientConnects, ClientSends,
         ClientLeaves, Unplug, Plug, SerialBytes, Alive, program
<1>2. ~(LoopTest \/ Select \/ SelectInterrupted \/ SelectFails \/ ReadCommand
        \/ ReadEof \/ NoCommand \/ NoInit \/ InitTcp \/ InitRtu \/ InitMapping)
  BY DEF LoopTest, Select, SelectInterrupted, SelectFails, ReadCommand, process_json,
         ReadEof, NoCommand, NoInit, InitTcp, InitRtu, InitMapping
<1>3. ~(CleanupStopped \/ SkipHandling \/ Accept \/ HandleClient \/ SkipClient
        \/ HandleRtu \/ Reconnect)
  BY DEF CleanupStopped, SkipHandling, Accept, HandleClient, SkipClient, NextSlot,
         HandleRtu, Reconnect
<1> QED
  BY <1>1, <1>2, <1>3 DEF Next, Server, Terminated

\* Where the mapping comes from, and where it goes.
LEMMA MappingSteps ==
  ASSUME IInv, [Next]_vars
  PROVE  /\ ~mb_mapping /\ mb_mapping' => InitMapping
         /\ mb_mapping /\ ~mb_mapping' => Release
<1>1. CASE UNCHANGED mb_mapping
  BY <1>1
<1>2. CASE CleanupStopped \/ FinalCleanup
  BY <1>2 DEF CleanupStopped, FinalCleanup, Release
<1>3. CASE InitMapping
  BY <1>3 DEF InitMapping, IInv, Stage
<1>4. CASE Server
  BY <1>1, <1>2, <1>3, <1>4
     DEF Server, LoopTest, Select, SelectInterrupted, SelectFails, ReadCommand, ReadEof,
         NoCommand, NoInit, InitTcp, InitRtu, SkipHandling, Accept, HandleClient,
         SkipClient, HandleRtu, Reconnect
<1>5. CASE Environment \/ UNCHANGED vars
  BY <1>1, <1>5
     DEF Environment, Signal, WritePart, WriteCommand, CloseStdin, ClientConnects, ClientSends,
         ClientLeaves, Unplug, Plug, SerialBytes, vars, program
<1> QED
  BY <1>4, <1>5 DEF Next, Terminated

\* A start-up begins with stdin alone, and what it opens it holds.
LEMMA StartTracks ==
  ASSUME OneTransport, IInv, Clean, InitTcp \/ InitRtu
  PROVE  /\ Leaked' = {}
         /\ pc' = "init_mapping" \/ (pc' = "init_rtu" /\ enable_tcp) \/ OnlyStdin'
<1> USE DEF Clean
<1>1. ~mb_mapping
  BY DEF InitTcp, InitRtu, InitNeeded, IInv, Stage
<1>2. CASE UNCHANGED file /\ OnlyStdin
  BY <1>2, StdinAlone DEF OnlyStdin, OpenFds
<1>3. CASE InitTcp
  <2>1. OnlyStdin
    BY <1>1, <1>3 DEF InitTcp
  <2>2. CASE file' # file
    <3>1. PICK f \in Fd : tcp_listen_sock' = f /\ file' = [file EXCEPT ![f] = "listener"]
      BY <1>3, <2>2 DEF InitTcp
    <3>2. enable_tcp /\ pc' = "init_rtu"
      BY <1>3, <2>2 DEF InitTcp
    <3>3. f \in Held'
      BY <3>1, <3>2, NamesDistinct DEF Held, TcpFds
    <3> QED
      BY <2>1, <3>1, <3>2, <3>3, OpensOne
  <2> QED
    BY <1>2, <2>1, <2>2
<1>4. CASE InitRtu /\ enable_rtu
  <2>1. OnlyStdin
    BY <1>1, <1>4 DEF InitRtu, OneTransport
  <2>2. CASE ConnectRtu
    <3>1. PICK f \in Fd : ctx_rtu' = f /\ file' = [file EXCEPT ![f] = "serial"]
      BY <2>2 DEF ConnectRtu
    <3>2. f \in Held'
      BY <1>4, <3>1, NamesDistinct DEF Held, RtuFds
    <3>3. Leaked' = {}
      BY <2>1, <3>1, <3>2, OpensOne
    <3>4. pc' = "init_mapping" \/ ConnectRtuFails
      BY <1>4 DEF InitRtu
    <3> QED
      BY <1>2, <2>1, <3>3, <3>4 DEF ConnectRtuFails
  <2>3. CASE ConnectRtuFails
    BY <1>2, <2>1, <2>3 DEF ConnectRtuFails
  <2> QED
    BY <1>4, <2>2, <2>3 DEF InitRtu
<1>5. CASE InitRtu /\ ~enable_rtu
  BY <1>5, SameHeld DEF InitRtu
<1> QED
  BY <1>3, <1>4, <1>5

LEMMA CleanNext ==
  ASSUME OneTransport, IInv, Clean, [Next]_vars
  PROVE  Clean'
<1> USE DEF Clean
<1>1. CASE OnlyStdin'
  BY <1>1, StdinAlone
<1>2. CASE mb_mapping /\ ~mb_mapping'
  BY <1>1, <1>2, MappingSteps, ReleaseCleans
<1>3. CASE pc' = "exited"
  <2>1. CASE UNCHANGED vars
    BY <1>1, <1>3, <2>1 DEF vars, program, net, OnlyStdin, OpenFds
  <2>2. CASE FinalCleanup /\ ~mb_mapping
    BY <1>1, <2>2 DEF FinalCleanup, net, OnlyStdin, OpenFds
  <2>3. CASE FinalCleanup /\ mb_mapping
    BY <1>2, <2>3 DEF FinalCleanup, Release
  <2> QED
    BY <1>3, <2>1, <2>2, <2>3, ExitStep
<1>4. CASE mb_mapping' /\ pc' # "exited"
  <2>1. CASE mb_mapping
    BY <1>4, <2>1, ServingTracks
  <2>2. CASE ~mb_mapping
    BY <1>4, <2>2, MappingSteps, SameHeld, QuietSteps
  <2> QED
    BY <2>1, <2>2
<1>5. CASE ~mb_mapping /\ ~mb_mapping' /\ pc' # "exited"
  <2>1. CASE InitTcp \/ InitRtu
    BY <1>5, <2>1, StartTracks
  <2>2. CASE UNCHANGED <<file, tcp, ctx_rtu>> /\ ~InitRtu
    <3>1. Leaked' = {} /\ (OnlyStdin => OnlyStdin')
      BY <2>2, SameHeld DEF OnlyStdin
    <3>2. CASE UNCHANGED pc
      BY <1>5, <3>1, <3>2
    <3>3. CASE pc \notin {"init_rtu", "init_mapping"}
      BY <1>1, <1>5, <3>1, <3>3
    <3>4. UNCHANGED pc \/ pc \notin {"init_rtu", "init_mapping"}
      <4>1. Environment \/ UNCHANGED vars => UNCHANGED pc
        BY DEF Environment, Signal, WritePart, WriteCommand, CloseStdin, ClientConnects, ClientSends,
               ClientLeaves, Unplug, Plug, SerialBytes, vars, program
      <4>2. Server /\ ~InitRtu => pc \notin {"init_rtu", "init_mapping"}
        BY <1>5
           DEF Server, LoopTest, Select, SelectInterrupted, SelectFails, ReadCommand,
               ReadEof, NoCommand, NoInit, InitTcp, InitMapping, CleanupStopped,
               SkipHandling, Accept, HandleClient, SkipClient, HandleRtu, Reconnect,
               FinalCleanup, OneTransport
      <4> QED
        BY <2>2, <4>1, <4>2 DEF Next, Terminated
    <3> QED
      BY <3>2, <3>3, <3>4
  <2>3. CASE CleanupStopped \/ FinalCleanup
    BY <1>5, <2>1, <2>2, <2>3 DEF CleanupStopped, FinalCleanup, net
  <2>4. ~(Accept \/ HandleClient \/ HandleRtu \/ Reconnect)
    BY <1>5 DEF Accept, Handling, HandleClient, HandleRtu, Reconnect, IInv, Stage
  <2> QED
    BY <2>1, <2>2, <2>3, <2>4, QuietSteps DEF Next, Server, Terminated
<1> QED
  BY <1>2, <1>3, <1>4, <1>5

\* With one transport, and whatever else fails, the server gives every
\* descriptor back before main() returns, also when a signal ends it in the
\* middle of a start-up (lines 496-577, 664-684).
THEOREM ExitIsClean == OneTransport => (Spec => []ExitReleasesAll)
<1> SUFFICES ASSUME OneTransport PROVE Spec => []ExitReleasesAll
  OBVIOUS
<1>1. Init => Clean
  <2> SUFFICES ASSUME Init PROVE Clean
    OBVIOUS
  <2>1. OnlyStdin
    BY NamesDistinct DEF Init, OnlyStdin, OpenFds
  <2> QED
    BY <2>1 DEF Clean, OnlyStdin, Leaked
<1>2. IInv /\ Clean /\ [Next]_vars => Clean'
  BY CleanNext
<1>3. Clean => ExitReleasesAll
  BY DEF Clean, OnlyStdin, ExitReleasesAll
<1> QED
  BY <1>1, <1>2, <1>3, Invariance, PTL DEF Spec

-----------------------------------------------------------------------------
(* Once it was ready, a server meets no command without its mapping.       *)

\* What is true from the first moment there is a mapping on: there still is
\* one, or the loop runs to its end without reading another command.
WasReady ==
  \/ mb_mapping
  \/ pc \in {"final", "exited"}
  \/ ~running /\ pc \in {"accept", "while"}

\* Without a mapping no master or serial line is served, and no start-up
\* begins, in a server that was asked to stop.
LEMMA WasReadyNext ==
  ASSUME IInv, WasReady, [Next]_vars
  PROVE  WasReady'
<1> USE DEF WasReady
<1>1. CASE mb_mapping'
  BY <1>1
<1>2. CASE mb_mapping /\ ~mb_mapping'
  <2>1. CASE FinalCleanup
    BY <2>1 DEF FinalCleanup
  <2>2. CASE CleanupStopped
    BY <1>2, <2>2 DEF CleanupStopped, control, IInv, Stage
  <2>3. CASE InitMapping
    BY <1>2, <2>3 DEF InitMapping
  <2>4. CASE UNCHANGED mb_mapping
    BY <1>2, <2>4
  <2>5. Server => FinalCleanup \/ CleanupStopped \/ InitMapping \/ UNCHANGED mb_mapping
    BY DEF Server, LoopTest, Select, SelectInterrupted, SelectFails, ReadCommand, ReadEof,
           NoCommand, NoInit, InitTcp, InitRtu, SkipHandling, Accept, HandleClient,
           SkipClient, HandleRtu, Reconnect
  <2>6. Environment \/ Terminated \/ UNCHANGED vars => UNCHANGED mb_mapping
    BY DEF Environment, Signal, WritePart, WriteCommand, CloseStdin, ClientConnects, ClientSends,
           ClientLeaves, Unplug, Plug, SerialBytes, Terminated, vars, program
  <2> QED
    BY <2>1, <2>2, <2>3, <2>4, <2>5, <2>6 DEF Next
<1>3. CASE ~mb_mapping /\ ~mb_mapping'
  <2>1. pc \in {"final", "exited"} \/ (~running /\ pc \in {"accept", "while"})
    BY <1>3
  <2>2. ~Handling \/ pc # "accept"
    BY <1>3 DEF Handling, IInv, Stage
  <2>3. Server => LoopTest \/ SkipHandling \/ FinalCleanup
    BY <2>1, <2>2
       DEF Server, Select, SelectInterrupted, SelectFails, ReadCommand, ReadEof,
           NoCommand, NoInit, InitTcp, InitRtu, InitMapping, CleanupStopped, Accept,
           HandleClient, SkipClient, HandleRtu, Reconnect
  <2>4. Environment \/ Terminated \/ UNCHANGED vars
          => UNCHANGED pc /\ (UNCHANGED running \/ ~running')
    BY DEF Environment, Signal, WritePart, WriteCommand, CloseStdin, ClientConnects, ClientSends,
           ClientLeaves, Unplug, Plug, SerialBytes, Terminated, vars, program
  <2> QED
    BY <2>1, <2>3, <2>4 DEF Next, LoopTest, SkipHandling, FinalCleanup, control
<1> QED
  BY <1>1, <1>2, <1>3 DEF IInv, TypeOK

\* From the moment its register mapping exists (line 541) a server executes no
\* command without it: the null pointer of line 226 is met before that or
\* never.  Neither a stop, a signal between any two steps nor a start after a
\* stop leads there (lines 155-161, 185-262, 553-577).
THEOREM ReadyStaysUp == Spec => ReadyNeverCrashes
<1>1. IInv /\ WasReady /\ [Next]_vars => WasReady'
  BY WasReadyNext
<1>2. IInv /\ WasReady => pc # "crashed"
  BY DEF IInv, Stage, WasReady
<1>3. mb_mapping => WasReady
  BY DEF WasReady
<1> QED
  BY <1>1, <1>2, <1>3, Invariance, PTL DEF Spec, ReadyNeverCrashes

-----------------------------------------------------------------------------
(* How long an iteration may be, and how long a stop may take.             *)

LEMMA LeftIsNatural == ASSUME TypeOK PROVE Left \in Nat
<1>1. MAX_TCP_CLIENTS \in Nat /\ i \in 0 .. MAX_TCP_CLIENTS
  BY SlotAssumption DEF TypeOK
<1> QED
  BY <1>1 DEF Left

\* Every iteration of main() ends within a number of steps that only the slots
\* add to, and the one in which a stop falls is the last, whatever masters,
\* signals and the controller do in between (lines 440-662, 192-202).
THEOREM StopsInTime == Spec => StopIsShort
<1>1. ASSUME IInv, Server
      PROVE  /\ pc # "while" \/ ~running => Left' < Left
             /\ ~running => ~running'
  <2> USE SlotAssumption DEF Left, Slot
  <2>1. CASE LoopTest
    BY <2>1 DEF LoopTest, control
  <2>2. CASE Select \/ SelectInterrupted \/ SelectFails
    BY <2>2 DEF Select, SelectInterrupted, SelectFails, control
  <2>3. CASE ReadCommand \/ ReadEof \/ NoCommand
    <3>1. pc = "stdin" /\ pc' \in {"init", "crashed"} /\ (running' => running)
      <4>1. ASSUME NEW cmd \in Command, process_json(cmd)
            PROVE  pc' \in {"init", "crashed"} /\ (running' => running)
        BY <4>1, Zenon DEF process_json
      <4> QED
        BY <2>3, <4>1 DEF ReadCommand, ReadEof, NoCommand, control
    <3> QED
      BY <3>1
  <2>4. CASE NoInit \/ InitTcp \/ InitRtu \/ InitMapping
    BY <2>4 DEF NoInit, InitTcp, InitRtu, InitMapping, control
  <2>5. CASE CleanupStopped \/ FinalCleanup
    BY <2>5 DEF CleanupStopped, FinalCleanup, control
  <2>6. CASE SkipHandling \/ HandleRtu \/ Reconnect
    BY <2>6 DEF SkipHandling, HandleRtu, Reconnect, control
  <2>7. CASE Accept
    <3>1. pc = "accept" /\ i' = 0 /\ pc' \in {"blocked", "clients", "rtu"} /\ UNCHANGED running
      BY <1>1, <2>7 DEF Accept, IInv, IndexReset, control
    <3> QED
      BY <3>1
  <2>8. CASE HandleClient \/ SkipClient
    <3>1. /\ pc = "clients" /\ i \in Slot /\ UNCHANGED running
          /\ pc' = "blocked" \/ NextSlot
      BY <1>1, <2>8 DEF HandleClient, SkipClient, IInv, TypeOK, control
    <3>2. pc' \in {"blocked", "rtu"} \/ (pc' = "clients" /\ i' = i + 1 /\ i' \in Slot)
      BY <3>1 DEF NextSlot
    <3> QED
      BY <3>1, <3>2
  <2> QED
    BY <1>1, <2>1, <2>2, <2>3, <2>4, <2>5, <2>6, <2>7, <2>8 DEF Server
<1>2. IInv => [Server => /\ pc # "while" \/ ~running => Left' < Left
                         /\ ~running => ~running']_vars
  BY <1>1
<1> QED
  BY <1>2, Invariance, PTL DEF StopIsShort

-----------------------------------------------------------------------------
(* The event loop implements the abstract service.                         *)

\* The slot table bounds the connections: one free slot, one connection less
\* than the limit.
LEMMA FreeSlotBounds ==
  ASSUME TypeInv, SlotsExact
  PROVE  /\ IsFiniteSet(Connected)
         /\ Cardinality(Connected) <= Cardinality(UsedSlots)
<1> DEFINE conn == [s \in UsedSlots |-> file[tcp_conn_socks[s]]]
<1>1. \A s \in UsedSlots : tcp_conn_socks[s] \in Fd /\ file[tcp_conn_socks[s]] \in Client
  BY DEF SlotsExact, UsedSlots, FreeSlots, TypeInv, TypeOK
<1>2. \A s \in UsedSlots : conn[s] \in Connected
  BY <1>1 DEF Connected
<1>3. \A c \in Connected : \E s \in UsedSlots : conn[s] = c
  BY DEF Connected, SlotsExact
<1>4. conn \in Surjection(UsedSlots, Connected)
  BY <1>2, <1>3 DEF Surjection
<1> QED
  BY <1>4, UsedFinite, FS_Surjection

LEMMA SomeSlotFree ==
  ASSUME NEW slot \in Slot, slot \notin UsedSlots
  PROVE  Cardinality(UsedSlots) \in Nat /\ Cardinality(UsedSlots) < MAX_TCP_CLIENTS
<1>1. Cardinality(Slot) = MAX_TCP_CLIENTS
  <2>1. MAX_TCP_CLIENTS - 1 \in Int /\ ~(0 > MAX_TCP_CLIENTS - 1)
    BY SlotAssumption DEF SlotAssumption
  <2>2. Cardinality(0 .. MAX_TCP_CLIENTS - 1) = MAX_TCP_CLIENTS - 1 - 0 + 1
    BY <2>1, FS_Interval
  <2> QED
    BY <2>2, SlotAssumption DEF Slot, SlotAssumption
<1>2. Cardinality(UsedSlots) <= Cardinality(Slot) /\ Cardinality(UsedSlots) # Cardinality(Slot)
  BY SlotsFinite, UsedFinite, FS_Subset
<1>3. Cardinality(UsedSlots) \in Nat
  BY UsedFinite, FS_CardinalityType
<1> QED
  BY <1>1, <1>2, <1>3, SlotAssumption DEF SlotAssumption

LEMMA InitRefines == Init => Service!Init
BY NamesDistinct DEF Init, Service!Init, Phase, Connected

LEMMA RoomForOne ==
  ASSUME TypeInv, SlotsExact, NEW slot \in Slot, slot \notin UsedSlots
  PROVE  Cardinality(Connected) < MAX_TCP_CLIENTS
<1>1. Cardinality(UsedSlots) \in Nat /\ Cardinality(UsedSlots) < MAX_TCP_CLIENTS
  BY SomeSlotFree
<1>2. IsFiniteSet(Connected) /\ Cardinality(Connected) <= Cardinality(UsedSlots)
  BY FreeSlotBounds
<1>3. Cardinality(Connected) \in Nat
  BY <1>2, FS_CardinalityType
<1> QED
  BY <1>1, <1>2, <1>3, SlotAssumption DEF SlotAssumption

\* A connection is accepted only below the limit, and for a master that has
\* none yet.
LEMMA AcceptAdmits ==
  ASSUME TypeInv, Kernel, SlotsExact, mb_mapping, UNCHANGED mb_mapping,
         backlog # <<>>, AcceptClient
  PROVE  Service!Next
<1> USE NamesDistinct DEF TypeInv, TypeOK
<1> DEFINE c == Head(backlog)
<1>1. PICK slot \in Slot, f \in Fd :
        /\ find_free_tcp_client_slot(slot) /\ LowestFree(f)
        /\ file' = [file EXCEPT ![f] = c]
  BY DEF AcceptClient
<1>2. c \in Client /\ c \notin Connected
  BY QueueFront DEF Connected, Kernel
<1>3. slot \notin UsedSlots
  BY <1>1 DEF find_free_tcp_client_slot, UsedSlots, Slot
<1>4. file[f] = "free"
  BY <1>1 DEF LowestFree, OpenFds
<1>5. Connected' = Connected \cup {c}
  BY <1>1, <1>2, <1>4 DEF Connected
<1>6. Cardinality(Connected) < MAX_TCP_CLIENTS
  BY <1>3, RoomForOne
<1>7. Phase = "serving" /\ Phase' = "serving"
  BY DEF Phase
<1> QED
  BY <1>2, <1>5, <1>6, <1>7 DEF Service!Next, Service!Admit

\* A disconnect takes away the one connection of one master.
LEMMA DisconnectDrops ==
  ASSUME TypeInv, Kernel, SlotsExact, mb_mapping, UNCHANGED mb_mapping,
         i \in UsedSlots, Disconnect(file[sock])
  PROVE  Service!Next
<1> DEFINE c == file[sock]
<1>1. sock \in Fd /\ c \in Client
  BY SlotsOpen DEF sock
<1>2. file' = [f \in Fd |-> IF f \in {sock} THEN "free" ELSE file[f]]
  BY CloseFile DEF Disconnect
<1>3. \A f \in Fd : file[f] = c => f = sock
  BY <1>1 DEF Kernel
<1>4. c \in Connected /\ Connected' = Connected \ {c}
  BY <1>1, <1>2, <1>3, NamesDistinct DEF Connected
<1>5. Phase = "serving" /\ Phase' = "serving"
  BY DEF Phase
<1> QED
  BY <1>1, <1>4, <1>5 DEF Service!Next, Service!Drop

LEMMA StepRefines ==
  IInv /\ IInv' /\ [Next]_vars => [Service!Next]_<<Phase, Connected>>
<1> SUFFICES ASSUME IInv, IInv', [Next]_vars PROVE [Service!Next]_<<Phase, Connected>>
  OBVIOUS
<1>0. TypeInv /\ Kernel /\ Handles /\ Pool /\ Stage /\ Pool' /\ Stage'
  BY DEF IInv, TypeInv
<1> USE <1>0, NamesDistinct DEF TypeInv, TypeOK
<1>1. ~mb_mapping => Connected = {}
  BY DEF Pool, Connected
<1>2. ~mb_mapping' => Connected' = {}
  BY DEF Pool, Connected
\* Not serving before and after: the phase may only move forward.
<1>3. CASE /\ ~mb_mapping /\ ~mb_mapping'
           /\ Phase = "ended" => Phase' = "ended"
  BY <1>1, <1>2, <1>3 DEF Phase, Service!Next, Service!End
\* Serving before and after, with the same connections.
<1>4. CASE mb_mapping /\ UNCHANGED <<mb_mapping, Connected>>
  BY <1>4 DEF Phase
<1>5. CASE LoopTest \/ Select \/ SelectInterrupted \/ SelectFails
  <2>1. UNCHANGED <<mb_mapping, Connected, running>> /\ (Phase = "ended" /\ ~mb_mapping => Phase' = "ended")
    BY <1>5 DEF LoopTest, Select, SelectInterrupted, SelectFails, Phase, net, Connected, control
  <2> QED
    BY <1>3, <1>4, <2>1
<1>6. CASE ReadCommand \/ ReadEof \/ NoCommand \/ NoInit \/ SkipHandling
  <2>1. UNCHANGED <<mb_mapping, Connected>> /\ (Phase = "ended" /\ ~mb_mapping => Phase' = "ended")
    BY <1>6 DEF ReadCommand, process_json, ReadEof, NoCommand, NoInit, SkipHandling, Phase,
                net, Connected, control
  <2> QED
    BY <1>3, <1>4, <2>1
<1>7. CASE InitTcp \/ InitRtu
  <2>1. ~mb_mapping /\ UNCHANGED mb_mapping /\ Phase = "starting"
    BY <1>7 DEF InitTcp, InitRtu, InitNeeded, Phase, Stage
  <2> QED
    BY <1>3, <2>1
<1>8. CASE InitMapping
  <2>1. ~mb_mapping /\ Phase = "starting" /\ UNCHANGED Connected
    BY <1>8 DEF InitMapping, Phase, Stage, Connected, net
  <2>2. CASE mb_mapping'
    BY <2>1, <2>2 DEF Phase, Service!Next, Service!Start
  <2> QED
    BY <1>3, <2>1, <2>2
<1>9. CASE CleanupStopped \/ FinalCleanup
  <2>1. CASE mb_mapping /\ Release
    <3>1. ~mb_mapping'
      BY <2>1 DEF Release
    <3>2. pc' = "exited" \/ (pc' = "accept" /\ server_state' = "stopped")
      <4>1. server_state' \in {"running", "stopped"}
        BY DEF IInv
      <4> QED
        BY <1>9, <3>1, <4>1 DEF CleanupStopped, FinalCleanup, Stage
    <3>3. Phase = "serving" /\ Phase' = "ended"
      BY <2>1, <3>1, <3>2 DEF Phase, Stage
    <3> QED
      BY <1>2, <3>1, <3>3 DEF Service!Next, Service!End
  <2>2. CASE UNCHANGED <<mb_mapping, net>>
    <3>1. Phase = "ended" /\ ~mb_mapping => Phase' = "ended"
      BY <1>9, <2>2 DEF CleanupStopped, FinalCleanup, Phase, control
    <3>2. UNCHANGED Connected
      BY <2>2 DEF Connected, net
    <3> QED
      BY <1>3, <1>4, <2>2, <3>1, <3>2
  <2> QED
    BY <1>9, <2>1, <2>2 DEF CleanupStopped, FinalCleanup
<1>10. CASE Accept
  <2>1. mb_mapping /\ UNCHANGED mb_mapping
    BY <1>10 DEF Accept, Handling, Stage
  <2>2. CASE ListenerReady /\ backlog # <<>> /\ AcceptClient
    <3>1. SlotsExact
      BY <2>1, <2>2 DEF Pool, ListenerReady
    <3> QED
      BY <2>1, <2>2, <3>1, AcceptAdmits
  <2>3. CASE ListenerReady /\ Close({tcp_listen_sock})
    <3>1. file[tcp_listen_sock] = "listener"
      BY <2>3 DEF ListenerReady, Handles
    <3>2. file' = [f \in Fd |-> IF f \in {tcp_listen_sock} THEN "free" ELSE file[f]]
      BY <2>3, CloseFile
    <3>3. UNCHANGED Connected
      BY <3>1, <3>2 DEF Connected
    <3> QED
      BY <1>4, <2>1, <3>3
  <2>4. CASE UNCHANGED file
    BY <1>4, <2>1, <2>4 DEF Connected
  <2> QED
    BY <1>10, <2>2, <2>3, <2>4 DEF Accept, RejectClient, AcceptFails, net
<1>11. CASE HandleClient
  <2>1. /\ mb_mapping /\ enable_tcp /\ i \in Slot /\ sock # NoFd /\ UNCHANGED mb_mapping
    BY <1>11 DEF HandleClient, Stage
  <2>2. CASE Disconnect(file[sock])
    <3>1. SlotsExact /\ i \in UsedSlots
      BY <2>1 DEF Pool, UsedSlots, FreeSlots, sock
    <3> QED
      BY <2>1, <2>2, <3>1, DisconnectDrops
  <2>3. CASE UNCHANGED file
    BY <1>4, <2>1, <2>3 DEF Connected
  <2> QED
    BY <1>11, <2>2, <2>3 DEF HandleClient, Serve, net
<1>12. CASE SkipClient
  BY <1>4, <1>12 DEF SkipClient, Stage, Connected, net
<1>13. CASE HandleRtu \/ Reconnect
  <2>1. mb_mapping /\ UNCHANGED mb_mapping
    BY <1>13 DEF HandleRtu, Reconnect, Stage
  <2>2. CASE RtuReady /\ DropRtu
    <3>1. file' = [f \in Fd |-> IF f \in {ctx_rtu} THEN "free" ELSE file[f]]
          /\ file[ctx_rtu] = "serial"
      BY <2>2, CloseFile DEF DropRtu, RtuReady, Handles
    <3>2. UNCHANGED Connected
      BY <3>1 DEF Connected
    <3> QED
      BY <1>4, <2>1, <3>2
  <2>3. CASE ConnectRtu
    <3>1. UNCHANGED Connected
      BY <2>3 DEF ConnectRtu, LowestFree, OpenFds, Connected
    <3> QED
      BY <1>4, <2>1, <3>1
  <2>4. CASE UNCHANGED file
    BY <1>4, <2>1, <2>4 DEF Connected
  <2> QED
    BY <1>13, <2>2, <2>3, <2>4 DEF HandleRtu, ServeRtu, Reconnect, ConnectRtuFails, net
<1>14. CASE Environment \/ UNCHANGED vars
  <2>1. UNCHANGED <<file, mb_mapping, pc>> /\ (~running => ~running')
    BY <1>14 DEF Environment, Signal, WritePart, WriteCommand, CloseStdin, ClientConnects, ClientSends,
         ClientLeaves, Unplug, Plug, SerialBytes, vars, program, control, net
  <2>2. UNCHANGED Connected /\ (Phase = "ended" /\ ~mb_mapping => Phase' = "ended")
    BY <2>1 DEF Connected, Phase
  <2> QED
    BY <1>3, <1>4, <2>1, <2>2
<1> QED
  BY <1>5, <1>6, <1>7, <1>8, <1>9, <1>10, <1>11, <1>12, <1>13, <1>14
     DEF Next, Server, Terminated

\* The server is the abstract service: it never serves more than
\* MAX_TCP_CLIENTS masters, serves only after it has started, and once it has
\* ended it has dropped everybody and never serves again.
THEOREM Refinement == Spec => ImplementsService
BY InitRefines, StepRefines, Invariance, PTL DEF Spec, ImplementsService, Service!Spec
=============================================================================
