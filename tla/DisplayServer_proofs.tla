----------------------- MODULE DisplayServer_proofs ------------------------
(***************************************************************************)
(* Proofs about the dialogue of the display server with its clients, for   *)
(* any number of clients and any use of the library.                       *)
(***************************************************************************)
EXTENDS DisplayServer, Socket_proofs

Calling == {"send", "sync", "poll", "recv", "clear"}
Dispatching == {"check", "read", "null", "write", "flag"}

\* What every library function has in common.
LEMMA LibraryFacts ==
    ASSUME NEW f \in Functions
    PROVE  /\ Library[f].tries \in 1 .. 8
           /\ Library[f].quits \subseteq {"ACTION_ERROR", "ACTION_NULL"}
  BY DEF Functions, Library, NoReplyCall, ReplyCall, gws_draw_char, gws_draw_text, gws_set_text,
         gws_redraw_window, gws_refresh_window, gws_async_command, gws_async_command2, gws_get_text,
         gws_clone_and_execute2, gws_refresh_retangle, gws_get_next_event, gws_get_window_info,
         gws_create_window, gws_change_window_position, gws_resize_window

\* Packets name a client and a call.
LEMMA RequestFacts ==
    ASSUME NEW c \in Clients, NEW f \in Functions
    PROVE  /\ Request(c, f) \in AllPackets /\ Request(c, f) \in Packets
           /\ Request(c, f).client = c /\ Request(c, f).call = f
  BY PacketsAssumption DEF AllPackets, Request

LEMMA PacketFacts ==
    ASSUME NEW p \in AllPackets
    PROVE  p.client \in Clients /\ p.call \in Functions /\ p # NoPacket /\ p \in Packets
  BY PacketsAssumption, NoneAssumption DEF AllPackets, Request, Response

LEMMA ResponseFacts ==
    ASSUME NEW c \in Clients, NEW f \in Functions, NEW code
    PROVE  /\ ResponseType(code) \in PacketTypes
           /\ Response(ResponseType(code), c, f) \in AllPackets
           /\ Response(ResponseType(code), c, f) \in Packets
  <1>1. ResponseType(code) \in PacketTypes
    BY DEF ResponseType, PacketTypes
  <1> QED BY <1>1, PacketsAssumption DEF AllPackets

-----------------------------------------------------------------------------
(* Where clients and server are in the life of their sockets.               *)

Places ==
    /\ \A c \in Clients :
        /\ pc[c] = "socket" <=> socket[c] = "none"
        /\ pc[c] = "connect" => socket[c] = "SS_UNCONNECTED"
        /\ socket[c] = "closed" => pc[c] = "exit"
        /\ pc[c] \in Calling => call[c] \in Functions
        /\ pc[c] = "send" => tries[c] > 0
    /\ \A i \in Slots : server.pending[i] # NoClient => pc[server.pending[i]] \notin {"socket", "connect"}
    /\ spc = "socket" <=> server.state = "none"
    /\ spc \in Dispatching => slot31 \in Clients
    /\ spc \in {"null", "write", "flag"} => request \in AllPackets

\* A file holds a packet and may be read, or holds none and may be written.
FileOK(f) == f.flags = (IF f.full THEN {"__SRD"} ELSE {"__SWR"}) /\ (f.full => f.buf \in AllPackets)
FilesOK == \A c \in Clients : FileOK(file[c])

LEMMA FileOKRead ==
    ASSUME NEW f \in File, FileOK(f)
    PROVE  FileOK(AfterRead(f)) /\ ~ReadPanics(f) /\ (ReadSucceeds(f) <=> f.full)
           /\ AfterRead(f).action = f.action /\ ~AfterRead(f).full
  BY DEF FileOK, AfterRead, ReadPanics, ReadSucceeds, CanRead, File

LEMMA FileOKWrite ==
    ASSUME NEW f \in File, FileOK(f), NEW p \in AllPackets
    PROVE  FileOK(AfterWrite(f, p)) /\ AfterWrite(f, p).full /\ AfterWrite(f, p).action = f.action
  BY DEF FileOK, AfterWrite, WriteSucceeds, WriteFindsFull, CanWrite, File

LEMMA FileOKAction ==
    ASSUME NEW f \in File, FileOK(f), NEW a \in Actions
    PROVE  FileOK([f EXCEPT !.action = a])
  BY DEF FileOK, File

LEMMA FileOKNew == FileOK(NewFile) /\ ~NewFile.full
  BY DEF FileOK, NewFile

-----------------------------------------------------------------------------
(* Every step of the dialogue is a system call of Socket, or none.          *)

LEMMA OpenFile ==
    ASSUME TypeOK, Places, NEW c \in Clients, pc[c] \in Calling \cup {"idle"}
    PROVE  Open(c) /\ socket[c] \notin {"none", "closed"}
  BY DEF Places, Open, Calling

LEMMA ClientMayIsKernel ==
    ASSUME TypeOK, Places, ~halted, NEW c \in Clients, ClientMay(c)
    PROVE  KernelNext
  <1>1. CASE ClientSocket(c)
    BY <1>1 DEF ClientSocket, KernelNext, ClientCall
  <1>2. CASE ClientConnect(c)
    BY <1>2 DEF ClientConnect, KernelNext, ClientCall
  <1>3. ASSUME NEW f \in Functions, pc[c] = "idle", ClientSend(c, f) PROVE KernelNext
    <2>1. sys_write(c, Request(c, f)) /\ Open(c)
      BY <1>3, OpenFile DEF ClientSend
    <2> QED BY <2>1, RequestFacts DEF KernelNext, FileCall
  <1>4. CASE ClientClose(c)
    <2>1. sys_close(c) /\ socket[c] \notin {"none", "closed"}
      BY <1>4, OpenFile DEF ClientClose, Step
    <2> QED BY <2>1 DEF KernelNext, ClientCall
  <1> QED BY <1>1, <1>2, <1>3, <1>4 DEF ClientMay

LEMMA ClientMustIsKernel ==
    ASSUME TypeOK, Places, ~halted, NEW c \in Clients, ClientMust(c)
    PROVE  KernelNext \/ UNCHANGED kernelVars
  <1>0. pc[c] \in Calling
    BY DEF ClientMust, ClientSync, ClientPoll, ClientRecv, ClientClear, Step, Calling
  <1>00. Open(c) /\ call[c] \in Functions
    BY <1>0, OpenFile DEF Places
  <1>1. CASE ClientSend(c, call[c])
    BY <1>1, <1>00, RequestFacts DEF ClientSend, KernelNext, FileCall
  <1>2. CASE ClientSync(c)
    BY <1>2, <1>00 DEF ClientSync, KernelNext, FileCall, Actions
  <1>3. CASE ClientPoll(c)
    BY <1>3 DEF ClientPoll
  <1>4. CASE ClientRecv(c)
    BY <1>4, <1>00 DEF ClientRecv, KernelNext, FileCall
  <1>5. CASE ClientClear(c)
    BY <1>5, <1>00 DEF ClientClear, KernelNext, FileCall, Actions
  <1> QED BY <1>1, <1>2, <1>3, <1>4, <1>5 DEF ClientMust

LEMMA ServerIsKernel ==
    ASSUME TypeOK, Places, ~halted, ServerNext
    PROVE  KernelNext \/ UNCHANGED kernelVars
  <1>0. spc \in Dispatching => slot31 \in Clients /\ Open(slot31)
    BY DEF Places, Open
  <1>1. CASE ServerSetup
    BY <1>1, ListenAssumption DEF ServerSetup, KernelNext, ServerCall
  <1>2. CASE ServerAccept
    BY <1>2 DEF ServerAccept, KernelNext, ServerCall
  <1>3. CASE ServerCheck
    BY <1>3 DEF ServerCheck
  <1>4. CASE ServerRead
    BY <1>0, <1>4 DEF ServerRead, KernelNext, FileCall, Dispatching
  <1>5. CASE ServerNull
    BY <1>0, <1>5 DEF ServerNull, ServerStep, KernelNext, FileCall, Dispatching, Actions
  <1>6. CASE ServerWrite
    <2>1. spc = "write" /\ request \in AllPackets
      BY <1>6 DEF ServerWrite, ServerStep, Places
    <2>2. Response(ResponseType(request.code), request.client, request.call) \in Packets
      BY <2>1, PacketFacts, ResponseFacts
    <2> QED BY <1>0, <1>6, <2>1, <2>2 DEF ServerWrite, KernelNext, FileCall, Dispatching
  <1>7. CASE ServerFlag
    BY <1>0, <1>7 DEF ServerFlag, ServerStep, KernelNext, FileCall, Dispatching, Actions
  <1> QED BY <1>1, <1>2, <1>3, <1>4, <1>5, <1>6, <1>7 DEF ServerNext

LEMMA StepIsKernel == TypeOK /\ Places /\ [Next]_vars => [KernelNext]_kernelVars
  <1> SUFFICES ASSUME TypeOK, Places, [Next]_vars PROVE [KernelNext]_kernelVars
    OBVIOUS
  <1>1. CASE UNCHANGED vars
    BY <1>1 DEF vars
  <1> QED BY <1>1, ClientMayIsKernel, ClientMustIsKernel, ServerIsKernel DEF Next

-----------------------------------------------------------------------------
(* Types, places and files.                                                 *)

Basic == TypeOK /\ Places /\ FilesOK /\ ~halted

\* The files after a system call on the file of c.
LEMMA FilesOKUpdate ==
    ASSUME TypeOK, FilesOK, NEW c \in Clients, NEW f, FileOK(f), file' = [file EXCEPT ![c] = f]
    PROVE  FilesOK'
  BY DEF TypeOK, KernelTypeOK, FilesOK, FileOK

LEMMA SetActionOK ==
    ASSUME TypeOK, FilesOK, NEW c \in Clients, NEW a \in Actions, sys_set_action(c, a)
    PROVE  FilesOK' /\ halted' = halted
  <1>1. file[c] \in File /\ FileOK(file[c]) /\ file \in [Clients -> File]
    BY DEF TypeOK, KernelTypeOK, FilesOK
  <1>2. FileOK([file[c] EXCEPT !.action = a])
    BY <1>1, FileOKAction
  <1>3. file' = [file EXCEPT ![c] = [file[c] EXCEPT !.action = a]]
    BY <1>1 DEF sys_set_action
  <1> QED BY <1>2, <1>3, FilesOKUpdate DEF sys_set_action

LEMMA WriteOK ==
    ASSUME TypeOK, FilesOK, NEW c \in Clients, NEW p \in AllPackets, sys_write(c, p)
    PROVE  FilesOK' /\ halted' = halted
  <1>1. file[c] \in File /\ FileOK(file[c])
    BY DEF TypeOK, KernelTypeOK, FilesOK
  <1> QED BY <1>1, FileOKWrite, FilesOKUpdate DEF sys_write

LEMMA ReadOK ==
    ASSUME TypeOK, FilesOK, NEW c \in Clients, sys_read(c)
    PROVE  FilesOK' /\ ~halted'
  <1>1. file[c] \in File /\ FileOK(file[c])
    BY DEF TypeOK, KernelTypeOK, FilesOK
  <1>2. FileOK(AfterRead(file[c])) /\ ~ReadPanics(file[c])
    BY <1>1, FileOKRead
  <1>3. FilesOK'
    BY <1>2, FilesOKUpdate DEF sys_read
  <1> QED BY <1>2, <1>3 DEF sys_read

\* The variables of the programs keep their types when the kernel's do.
LEMMA ClientTypes ==
    ASSUME TypeOK, KernelTypeOK', ServerIdle, disturbed' \in BOOLEAN,
           pc' \in [Clients -> {"socket", "connect", "idle", "send", "sync", "poll", "recv", "clear", "exit"}],
           call' \in [Clients -> Functions \cup {NoCall}], tries' \in [Clients -> 0 .. 8]
    PROVE  TypeOK'
  BY DEF TypeOK, ServerIdle

LEMMA ClientStep ==
    ASSUME Basic, KernelTypeOK', NEW c \in Clients, ClientMay(c) \/ ClientMust(c)
    PROVE  Basic'
  <1> USE DEF Basic
  <1> DEFINE P == {"socket", "connect", "idle", "send", "sync", "poll", "recv", "clear", "exit"}
  <1>0. /\ pc \in [Clients -> P] /\ call \in [Clients -> Functions \cup {NoCall}] /\ tries \in [Clients -> 0 .. 8]
        /\ socket \in [Clients -> SocketStates] /\ server \in ServerSocket /\ disturbed \in BOOLEAN
        /\ file \in [Clients -> File]
    BY DEF TypeOK, KernelTypeOK
  <1>1. CASE ClientSocket(c)
    <2>1. TypeOK'
      BY <1>0, <1>1, ClientTypes DEF ClientSocket, Step, SameCall
    <2>2. Places'
      <3>1. \A i \in Slots : server.pending[i] # c
        BY <1>1, NoneAssumption DEF ClientSocket, Step, Places
      <3> QED BY <1>0, <1>1, <3>1 DEF ClientSocket, Step, SameCall, ServerIdle, sys_socket, Places, Calling, ServerSocket
    <2>3. FilesOK' /\ ~halted'
      BY <1>1, FileOKNew, FilesOKUpdate DEF ClientSocket, sys_socket
    <2> QED BY <2>1, <2>2, <2>3
  <1>2. CASE ClientConnect(c)
    <2>1. TypeOK'
      BY <1>0, <1>2, ClientTypes DEF ClientConnect, Step, SameCall
    <2>2. Places'
      <3>1. server'.pending = [server.pending EXCEPT ![Circulate(server.tail)] = c] /\ server'.state = "SS_CONNECTING"
        BY <1>0, <1>2 DEF ClientConnect, sys_connect, ServerSocket
      <3>2. \A i \in Slots : server'.pending[i] \in {c, server.pending[i]}
        BY <1>0, <3>1 DEF ServerSocket
      <3>3. \A i \in Slots : server'.pending[i] # NoClient => pc'[server'.pending[i]] \notin {"socket", "connect"}
        <4> SUFFICES ASSUME NEW i \in Slots, server'.pending[i] # NoClient
                     PROVE  pc'[server'.pending[i]] \notin {"socket", "connect"}
          OBVIOUS
        <4>1. CASE server'.pending[i] = c
          BY <1>0, <1>2, <4>1 DEF ClientConnect, Step
        <4>2. CASE server'.pending[i] = server.pending[i] /\ server.pending[i] # c
          <5>1. server.pending[i] \in Clients /\ pc[server.pending[i]] \notin {"socket", "connect"}
            BY <1>0, <4>2 DEF ServerSocket, Places
          <5> QED BY <1>0, <1>2, <4>2, <5>1 DEF ClientConnect, Step
        <4> QED BY <3>2, <4>1, <4>2
      <3>4. spc # "socket" /\ slot31' = c /\ spc' = spc /\ request' = request
        BY <1>2 DEF ClientConnect, sys_connect, ConnectSucceeds, ServerIdle, Places
      <3>5. \A d \in Clients :
                /\ pc'[d] = "socket" <=> socket'[d] = "none"
                /\ pc'[d] = "connect" => socket'[d] = "SS_UNCONNECTED"
                /\ socket'[d] = "closed" => pc'[d] = "exit"
                /\ pc'[d] \in Calling => call'[d] \in Functions
                /\ pc'[d] = "send" => tries'[d] > 0
        BY <1>0, <1>2 DEF ClientConnect, Step, SameCall, sys_connect, Places, Calling
      <3> QED BY <3>1, <3>3, <3>4, <3>5 DEF Places
    <2>3. FilesOK' /\ ~halted'
      BY <1>2 DEF ClientConnect, sys_connect, FilesOK
    <2> QED BY <2>1, <2>2, <2>3
  <1>3. ASSUME NEW f \in Functions, ClientSend(c, f) PROVE Basic'
    <2>0. pc[c] \in {"idle", "send"} /\ (pc[c] = "send" => tries[c] > 0) /\ tries[c] \in 0 .. 8
      BY <1>0, <1>3 DEF ClientSend, Places
    <2>1. TypeOK'
      <3>1. pc' \in [Clients -> P] /\ call' \in [Clients -> Functions \cup {NoCall}]
        BY <1>0, <1>3 DEF ClientSend
      <3>2. tries' \in [Clients -> 0 .. 8]
        BY <1>0, <1>3, <2>0, LibraryFacts DEF ClientSend
      <3> QED BY <1>0, <1>3, <3>1, <3>2, ClientTypes DEF ClientSend
    <2>2. Places'
      <3> DEFINE left == IF pc[c] = "idle" THEN Library[f].tries ELSE tries[c]
      <3>1. left \in 1 .. 8
        BY <2>0, LibraryFacts
      <3>2. /\ pc'[c] \in {"sync", "send", "clear"} /\ call'[c] = f
            /\ pc'[c] = "send" => tries'[c] > 0
        <4>1. /\ pc'[c] = IF WriteSucceeds(file[c]) THEN "sync" ELSE IF left > 1 THEN "send" ELSE "clear"
              /\ tries'[c] = IF WriteSucceeds(file[c]) THEN 0 ELSE left - 1
              /\ call'[c] = f
          BY <1>0, <1>3 DEF ClientSend
        <4> HIDE DEF left
        <4> QED BY <3>1, <4>1
      <3>3. \A d \in Clients \ {c} : pc'[d] = pc[d] /\ call'[d] = call[d] /\ tries'[d] = tries[d]
        BY <1>0, <1>3 DEF ClientSend
      <3>4. UNCHANGED <<socket, server, slot31, spc, request>>
        BY <1>3 DEF ClientSend, sys_write, ServerIdle
      <3>5. socket[c] \notin {"none", "closed"}
        BY <2>0 DEF Places
      <3>6. \A i \in Slots : server.pending[i] # NoClient => server.pending[i] \in Clients
        BY <1>0 DEF ServerSocket
      <3> HIDE DEF left
      <3> QED BY <3>2, <3>3, <3>4, <3>5, <3>6 DEF Places, Calling
    <2>3. FilesOK' /\ ~halted'
      BY <1>3, RequestFacts, WriteOK DEF ClientSend
    <2> QED BY <2>1, <2>2, <2>3
  <1>4. CASE ClientSync(c)
    <2>1. TypeOK'
      BY <1>0, <1>4, ClientTypes DEF ClientSync, Step, SameCall
    <2>2. Places'
      BY <1>0, <1>4 DEF ClientSync, Step, SameCall, ServerIdle, sys_set_action, Places, Calling, ServerSocket
    <2>3. FilesOK' /\ ~halted'
      BY <1>4, SetActionOK DEF ClientSync, Actions
    <2> QED BY <2>1, <2>2, <2>3
  <1>5. CASE ClientPoll(c)
    <2>1. TypeOK'
      BY <1>0, <1>5, ClientTypes DEF ClientPoll, Step, SameCall
    <2>2. Places'
      BY <1>0, <1>5 DEF ClientPoll, Step, SameCall, ServerIdle, kernelVars, Places, Calling, ServerSocket
    <2>3. FilesOK' /\ ~halted'
      BY <1>5 DEF ClientPoll, kernelVars, FilesOK
    <2> QED BY <2>1, <2>2, <2>3
  <1>6. CASE ClientRecv(c)
    <2>1. TypeOK'
      BY <1>0, <1>6, ClientTypes DEF ClientRecv, Step, SameCall
    <2>2. Places'
      BY <1>0, <1>6 DEF ClientRecv, Step, SameCall, ServerIdle, sys_read, Places, Calling, ServerSocket
    <2>3. FilesOK' /\ ~halted'
      BY <1>6, ReadOK DEF ClientRecv
    <2> QED BY <2>1, <2>2, <2>3
  <1>7. CASE ClientClear(c)
    <2>1. TypeOK'
      BY <1>0, <1>7, ClientTypes DEF ClientClear, Step
    <2>2. Places'
      BY <1>0, <1>7 DEF ClientClear, Step, ServerIdle, sys_set_action, Places, Calling, ServerSocket
    <2>3. FilesOK' /\ ~halted'
      BY <1>7, SetActionOK DEF ClientClear, Actions
    <2> QED BY <2>1, <2>2, <2>3
  <1>8. CASE ClientClose(c)
    <2>1. TypeOK'
      BY <1>0, <1>8, ClientTypes DEF ClientClose, Step, SameCall
    <2>2. Places'
      BY <1>0, <1>8 DEF ClientClose, Step, SameCall, ServerIdle, sys_close, Places, Calling, ServerSocket
    <2>3. FilesOK' /\ ~halted'
      BY <1>8 DEF ClientClose, sys_close, FilesOK
    <2> QED BY <2>1, <2>2, <2>3
  <1>9. pc[c] = "send" => call[c] \in Functions
    BY DEF Places, Calling
  <1> QED BY <1>1, <1>2, <1>3, <1>4, <1>5, <1>6, <1>7, <1>8, <1>9 DEF ClientMay, ClientMust

LEMMA ServerStepOK ==
    ASSUME Basic, KernelTypeOK', ServerNext
    PROVE  Basic'
  <1> USE DEF Basic
  <1>0. /\ socket \in [Clients -> SocketStates] /\ server \in ServerSocket /\ file \in [Clients -> File]
        /\ NoReply \in BOOLEAN /\ disturbed \in BOOLEAN
    BY DEF TypeOK, KernelTypeOK
  <1>1. ASSUME spc' \in {"socket", "listen", "accept", "check", "read", "null", "write", "flag"},
               request' \in Packets \cup {NoPacket}, NoReply' \in BOOLEAN, ClientsIdle, UNCHANGED disturbed
        PROVE  TypeOK'
    BY <1>1 DEF TypeOK, ClientsIdle
  <1>2. CASE ServerSetup
    <2>1. TypeOK'
      BY <1>1, <1>2 DEF ServerSetup, ServerStep, TypeOK
    <2>2. Places'
      <3>1. CASE ServerStep("socket", "listen") /\ sys_socket_server
        BY <1>0, <1>2, <3>1 DEF ServerSetup, ServerStep, sys_socket_server, create_socket_object, ClientsIdle, Places, Dispatching, SocketStates
      <3>2. CASE ServerStep("listen", "accept") /\ sys_listen(BACKLOG)
        <4>1. server'.state = server.state /\ server'.pending = server.pending
          BY <1>0, <3>2 DEF sys_listen, ServerSocket
        <4> QED BY <1>2, <3>2, <4>1 DEF ServerSetup, ServerStep, sys_listen, ClientsIdle, Places, Dispatching
      <3> QED BY <1>2, <3>1, <3>2 DEF ServerSetup
    <2>3. FilesOK' /\ ~halted'
      BY <1>2 DEF ServerSetup, sys_socket_server, sys_listen, FilesOK
    <2> QED BY <2>1, <2>2, <2>3
  <1>3. CASE ServerAccept
    <2>1. TypeOK'
      BY <1>1, <1>3 DEF ServerAccept, ServerStep, TypeOK
    <2>2. Places'
      <3>1. server'.state # "none" /\ server'.pending = server.pending
        BY <1>0, <1>3 DEF ServerAccept, sys_accept, ServerSocket
      <3>2. Circulate(server.head) \in Slots
        BY <1>0, CirculateType DEF ServerSocket, TypeOK
      <3>3. AcceptSucceeds =>
                /\ AcceptedClient \in Clients
                /\ pc[AcceptedClient] \notin {"socket", "connect"}
                /\ socket[AcceptedClient] # "closed"
        <4> SUFFICES ASSUME AcceptSucceeds
                     PROVE  /\ AcceptedClient \in Clients
                            /\ pc[AcceptedClient] \notin {"socket", "connect"}
                            /\ socket[AcceptedClient] # "closed"
          OBVIOUS
        <4>1. Probed(Circulate(server.head)) # {} /\ socket[AcceptedClient] # "closed"
          BY DEF AcceptSucceeds, AcceptedClient
        <4>2. /\ AcceptedClient \in Clients
              /\ \E i \in Slots : AcceptedClient = server.pending[i]
          BY <3>2, <4>1, FoundType DEF AcceptedClient, TypeOK
        <4> QED BY <4>1, <4>2, NoneAssumption DEF Places
      <3>4. /\ AcceptSucceeds => slot31' = AcceptedClient /\ socket' = [socket EXCEPT ![AcceptedClient] = "SS_CONNECTED"]
            /\ ~AcceptSucceeds => socket' = socket
            /\ spc' = IF AcceptSucceeds THEN "check" ELSE "accept"
            /\ UNCHANGED <<pc, call, tries, request>>
        BY <1>3 DEF ServerAccept, sys_accept, ServerStep, ClientsIdle
      <3>5. \A d \in Clients :
                /\ pc[d] = "socket" <=> socket'[d] = "none"
                /\ pc[d] = "connect" => socket'[d] = "SS_UNCONNECTED"
                /\ socket'[d] = "closed" => pc[d] = "exit"
        BY <1>0, <3>3, <3>4 DEF Places
      <3> QED BY <3>1, <3>3, <3>4, <3>5 DEF Places, Dispatching
    <2>3. FilesOK' /\ ~halted'
      BY <1>3 DEF ServerAccept, sys_accept, FilesOK
    <2> QED BY <2>1, <2>2, <2>3
  <1>4. CASE ServerCheck
    <2>1. TypeOK'
      BY <1>1, <1>4 DEF ServerCheck, ServerStep, TypeOK
    <2>2. Places'
      BY <1>4 DEF ServerCheck, ServerStep, kernelVars, ClientsIdle, Places, Dispatching
    <2>3. FilesOK' /\ ~halted'
      BY <1>4 DEF ServerCheck, kernelVars, FilesOK
    <2> QED BY <2>1, <2>2, <2>3
  <1>5. CASE ServerRead
    <2>0. slot31 \in Clients /\ file[slot31] \in File /\ FileOK(file[slot31])
      BY <1>0, <1>5 DEF ServerRead, Places, Dispatching, FilesOK
    <2>1. ReadSucceeds(file[slot31]) => file[slot31].buf \in AllPackets
      BY <2>0, FileOKRead DEF FileOK
    <2>2. /\ NoReply' \in BOOLEAN
          /\ request' \in Packets \cup {NoPacket}
          /\ spc' \in {"null", "write", "accept"}
          /\ spc' # "accept" => request' \in AllPackets
      BY <1>0, <1>5, <2>1, PacketFacts DEF ServerRead, gwsProcedure, TypeOK
    <2>3. TypeOK'
      BY <1>1, <1>5, <2>2 DEF ServerRead
    <2>4. Places'
      BY <1>5, <2>0, <2>2 DEF ServerRead, sys_read, ClientsIdle, Places, Dispatching
    <2>5. FilesOK' /\ ~halted'
      BY <1>5, <2>0, ReadOK DEF ServerRead
    <2> QED BY <2>3, <2>4, <2>5
  <1>6. CASE ServerNull
    <2>0. slot31 \in Clients
      BY <1>6 DEF ServerNull, ServerStep, Places, Dispatching
    <2>1. TypeOK'
      BY <1>1, <1>6 DEF ServerNull, ServerStep, TypeOK
    <2>2. Places'
      BY <1>6 DEF ServerNull, ServerStep, sys_set_action, ClientsIdle, Places, Dispatching
    <2>3. FilesOK' /\ ~halted'
      BY <1>6, <2>0, SetActionOK DEF ServerNull, Actions
    <2> QED BY <2>1, <2>2, <2>3
  <1>7. CASE ServerWrite
    <2>0. slot31 \in Clients /\ request \in AllPackets
      BY <1>7 DEF ServerWrite, ServerStep, Places, Dispatching
    <2>1. TypeOK'
      BY <1>1, <1>7 DEF ServerWrite, ServerStep, TypeOK
    <2>2. Places'
      BY <1>7, <2>0 DEF ServerWrite, ServerStep, sys_write, ClientsIdle, Places, Dispatching
    <2>3. Response(ResponseType(request.code), request.client, request.call) \in AllPackets
      BY <2>0, PacketFacts, ResponseFacts
    <2>4. FilesOK' /\ ~halted'
      BY <1>7, <2>0, <2>3, WriteOK DEF ServerWrite
    <2> QED BY <2>1, <2>2, <2>4
  <1>8. CASE ServerFlag
    <2>0. slot31 \in Clients
      BY <1>8 DEF ServerFlag, ServerStep, Places, Dispatching
    <2>1. TypeOK'
      BY <1>1, <1>8 DEF ServerFlag, ServerStep, TypeOK
    <2>2. Places'
      BY <1>8 DEF ServerFlag, ServerStep, sys_set_action, ClientsIdle, Places, Dispatching
    <2>3. FilesOK' /\ ~halted'
      BY <1>8, <2>0, SetActionOK DEF ServerFlag, Actions
    <2> QED BY <2>1, <2>2, <2>3
  <1> QED BY <1>2, <1>3, <1>4, <1>5, <1>6, <1>7, <1>8 DEF ServerNext

LEMMA BasicStep == Basic /\ [Next]_vars => Basic'
  <1> SUFFICES ASSUME Basic, [Next]_vars PROVE Basic'
    OBVIOUS
  <1>1. KernelTypeOK'
    BY StepIsKernel, KernelStepType DEF Basic, TypeOK
  <1>2. CASE UNCHANGED vars
    BY <1>2 DEF vars, kernelVars, Basic, TypeOK, KernelTypeOK, Places, FilesOK
  <1> QED BY <1>1, <1>2, ClientStep, ServerStepOK DEF Next

LEMMA BasicInit == Init => Basic
  <1> SUFFICES ASSUME Init PROVE Basic
    OBVIOUS
  <1>1. TypeOK
    <2>1. KernelTypeOK
      BY KernelInitType DEF Init
    <2>2. call \in [Clients -> Functions \cup {NoCall}]
      BY DEF Init
    <2>3. tries \in [Clients -> 0 .. 8]
      BY DEF Init
    <2> QED BY <2>1, <2>2, <2>3 DEF Init, TypeOK
  <1>2. Places
    BY NoneAssumption DEF Init, KernelInit, create_socket_object, Places, Calling, Dispatching
  <1>3. FilesOK /\ ~halted
    BY FileOKNew DEF Init, KernelInit, FilesOK
  <1> QED BY <1>1, <1>2, <1>3 DEF Basic

LEMMA BasicHolds == Spec => []Basic
  BY BasicInit, BasicStep, PTL DEF Spec

\* Server, library and kernel keep their types.
THEOREM DialogueTypeCorrect == Spec => []TypeOK
  <1>1. Basic => TypeOK
    BY DEF Basic
  <1> QED BY <1>1, BasicHolds, PTL

\* No read() of the display server or of the library panics in __read_imp(), even when a
\* connect() re-points descriptor 31 in the middle of a dispatch.
THEOREM NeverPanics == Spec => []NoPanic
  <1>1. Basic => NoPanic
    BY DEF Basic, NoPanic
  <1> QED BY <1>1, BasicHolds, PTL

\* The dialogue is one of the sequences of system calls that Socket allows, so what is
\* proved of the kernel's sockets holds for the display server and its clients.
THEOREM DialogueUsesSockets == Spec => KernelSpec
  <1>1. Init => KernelInit
    BY DEF Init
  <1>2. Basic /\ [Next]_vars => [KernelNext]_kernelVars
    BY StepIsKernel DEF Basic
  <1> QED BY <1>1, <1>2, BasicHolds, PTL DEF Spec, KernelSpec

-----------------------------------------------------------------------------
(* What each call does to the files.                                        *)

LEMMA SetActionFacts ==
    ASSUME Basic, NEW c \in Clients, NEW a \in Actions, sys_set_action(c, a)
    PROVE  /\ file'[c] = [file[c] EXCEPT !.action = a]
           /\ file'[c].action = a /\ file'[c].full = file[c].full
           /\ \A d \in Clients : d # c => file'[d] = file[d]
           /\ slot31' = slot31
  BY DEF Basic, TypeOK, KernelTypeOK, File, sys_set_action

LEMMA WriteFacts ==
    ASSUME Basic, NEW c \in Clients, NEW p \in AllPackets, sys_write(c, p)
    PROVE  /\ file'[c] = AfterWrite(file[c], p)
           /\ file'[c].action = file[c].action /\ file'[c].full
           /\ \A d \in Clients : d # c => file'[d] = file[d]
           /\ slot31' = slot31
  <1>1. file \in [Clients -> File] /\ FileOK(file[c])
    BY DEF Basic, TypeOK, KernelTypeOK, FilesOK
  <1>2. AfterWrite(file[c], p).action = file[c].action /\ AfterWrite(file[c], p).full
    BY <1>1, FileOKWrite
  <1> QED BY <1>1, <1>2 DEF sys_write

LEMMA ReadFacts ==
    ASSUME Basic, NEW c \in Clients, sys_read(c)
    PROVE  /\ file'[c] = AfterRead(file[c])
           /\ file'[c].action = file[c].action /\ ~file'[c].full
           /\ (ReadSucceeds(file[c]) <=> file[c].full)
           /\ \A d \in Clients : d # c => file'[d] = file[d]
           /\ slot31' = slot31
  <1>1. file \in [Clients -> File] /\ FileOK(file[c])
    BY DEF Basic, TypeOK, KernelTypeOK, FilesOK
  <1>2. AfterRead(file[c]).action = file[c].action /\ ~AfterRead(file[c]).full /\ (ReadSucceeds(file[c]) <=> file[c].full)
    BY <1>1, FileOKRead
  <1> QED BY <1>1, <1>2 DEF sys_read

-----------------------------------------------------------------------------
(* A client that sees ACTION_REPLY finds something to read, even if a       *)
(* connect() has re-pointed descriptor 31 in the meantime: when the server  *)
(* is about to set ACTION_REPLY, the file of descriptor 31 is full or its   *)
(* client has not yet sent.                                                 *)

ReplyInv ==
    \A c \in Clients :
        /\ pc[c] \in {"socket", "connect"} => slot31 # c /\ file[c].action = "ACTION_NULL"
        /\ file[c].action = "ACTION_REQUEST" => pc[c] = "poll"
        /\ pc[c] \in {"poll", "recv"} /\ file[c].action = "ACTION_REPLY" => file[c].full
        /\ pc[c] = "recv" => file[c].full
        /\ spc = "flag" /\ slot31 = c /\ pc[c] \in {"sync", "poll", "recv"} => file[c].full
        /\ spc = "read" /\ slot31 = c =>
               \/ pc[c] = "poll" /\ file[c].action = "ACTION_REQUEST"
               \/ pc[c] \in {"idle", "send", "sync", "clear", "exit"} /\ file[c].action = "ACTION_NULL"

LEMMA ReplyClientStep ==
    ASSUME Basic, ReplyInv, NEW c \in Clients, ClientMay(c) \/ ClientMust(c)
    PROVE  ReplyInv'
  <1>0. pc \in [Clients -> {"socket", "connect", "idle", "send", "sync", "poll", "recv", "clear", "exit"}]
    BY DEF Basic, TypeOK
  <1>1. CASE ClientSocket(c)
    <2>1. file' = [file EXCEPT ![c] = NewFile] /\ file \in [Clients -> File]
      BY <1>1 DEF ClientSocket, sys_socket, Basic, TypeOK, KernelTypeOK
    <2> QED BY <1>0, <1>1, <2>1 DEF ClientSocket, sys_socket, Step, ServerIdle, NewFile, ReplyInv
  <1>2. CASE ClientConnect(c)
    BY <1>0, <1>2 DEF ClientConnect, sys_connect, Step, ServerIdle, ReplyInv
  <1>3. ASSUME NEW f \in Functions, ClientSend(c, f) PROVE ReplyInv'
    <2>1. pc[c] \in {"idle", "send"} /\ pc' = [pc EXCEPT ![c] = pc'[c]] /\ pc'[c] \in {"sync", "send", "clear"} /\ spc' = spc
      BY <1>0, <1>3 DEF ClientSend, ServerIdle
    <2>2. /\ file'[c].action = file[c].action /\ file'[c].full
          /\ \A d \in Clients : d # c => file'[d] = file[d]
          /\ slot31' = slot31
      BY <1>3, RequestFacts, WriteFacts DEF ClientSend
    <2> QED BY <1>0, <2>1, <2>2 DEF ReplyInv
  <1>4. CASE ClientSync(c)
    <2>1. /\ file'[c].action = "ACTION_REQUEST" /\ file'[c].full = file[c].full
          /\ \A d \in Clients : d # c => file'[d] = file[d]
          /\ slot31' = slot31
      BY <1>4, SetActionFacts DEF ClientSync, Actions
    <2> QED BY <1>0, <1>4, <2>1 DEF ClientSync, Step, ServerIdle, ReplyInv
  <1>5. CASE ClientPoll(c)
    <2>1. pc[c] = "poll" => Library[call[c]].quits \subseteq {"ACTION_ERROR", "ACTION_NULL"}
      BY LibraryFacts DEF Basic, Places, Calling
    <2>2. \/ pc' = [pc EXCEPT ![c] = "recv"] /\ pc[c] = "poll" /\ file[c].action = "ACTION_REPLY"
          \/ pc' = [pc EXCEPT ![c] = "clear"] /\ pc[c] = "poll" /\ file[c].action \in {"ACTION_ERROR", "ACTION_NULL"}
      BY <1>5, <2>1 DEF ClientPoll, Step
    <2> QED BY <1>0, <1>5, <2>2 DEF ClientPoll, kernelVars, ServerIdle, ReplyInv
  <1>6. CASE ClientRecv(c)
    <2>1. /\ file'[c].action = file[c].action
          /\ \A d \in Clients : d # c => file'[d] = file[d]
          /\ slot31' = slot31
      BY <1>6, ReadFacts DEF ClientRecv
    <2>2. pc[c] = "recv" /\ pc' = [pc EXCEPT ![c] = pc'[c]] /\ pc'[c] \in {"exit", "clear"} /\ spc' = spc
      BY <1>0, <1>6 DEF ClientRecv, Step, ServerIdle
    <2> QED BY <1>0, <2>1, <2>2 DEF ReplyInv
  <1>7. CASE ClientClear(c)
    <2>1. /\ file'[c].action = "ACTION_NULL" /\ file'[c].full = file[c].full
          /\ \A d \in Clients : d # c => file'[d] = file[d]
          /\ slot31' = slot31
      BY <1>7, SetActionFacts DEF ClientClear, Actions
    <2> QED BY <1>0, <1>7, <2>1 DEF ClientClear, Step, ServerIdle, ReplyInv
  <1>8. CASE ClientClose(c)
    BY <1>0, <1>8 DEF ClientClose, sys_close, Step, ServerIdle, ReplyInv
  <1>9. pc[c] = "send" => call[c] \in Functions
    BY DEF Basic, Places, Calling
  <1> QED BY <1>1, <1>2, <1>3, <1>4, <1>5, <1>6, <1>7, <1>8, <1>9 DEF ClientMay, ClientMust

LEMMA ReplyServerStep ==
    ASSUME Basic, ReplyInv, ServerNext
    PROVE  ReplyInv'
  <1>0. spc \in Dispatching => slot31 \in Clients
    BY DEF Basic, Places
  <1>1. CASE ServerSetup
    BY <1>1 DEF ServerSetup, ServerStep, sys_socket_server, sys_listen, ClientsIdle, ReplyInv
  <1>2. CASE ServerAccept
    <2>1. UNCHANGED <<pc, file>> /\ spc' \in {"check", "accept"}
      BY <1>2 DEF ServerAccept, ServerStep, sys_accept, ClientsIdle
    <2>2. \A c \in Clients : pc[c] \in {"socket", "connect"} => slot31' # c
      <3>1. server.head \in Slots /\ KernelTypeOK
        BY DEF Basic, TypeOK, KernelTypeOK, ServerSocket
      <3>2. Circulate(server.head) \in Slots
        BY <3>1, CirculateType
      <3>3. AcceptSucceeds => \E i \in Slots : AcceptedClient = server.pending[i] /\ AcceptedClient \in Clients
        BY <3>1, <3>2, FoundType DEF AcceptSucceeds, AcceptedClient
      <3>4. AcceptSucceeds => pc[AcceptedClient] \notin {"socket", "connect"}
        BY <3>3, NoneAssumption DEF Basic, Places
      <3>5. slot31' = IF AcceptSucceeds THEN AcceptedClient ELSE slot31
        BY <1>2 DEF ServerAccept, sys_accept
      <3> QED BY <3>4, <3>5 DEF ReplyInv
    <2> QED BY <2>1, <2>2 DEF ReplyInv
  <1>3. CASE ServerCheck
    <2>1. UNCHANGED <<pc, file, slot31>>
      BY <1>3 DEF ServerCheck, kernelVars, ClientsIdle
    <2>2. spc' \in {"read", "accept"} /\ (spc' = "read" => file[slot31].action = "ACTION_REQUEST")
      BY <1>3 DEF ServerCheck, ServerStep
    <2> QED BY <2>1, <2>2 DEF ReplyInv
  <1>4. CASE ServerRead
    <2>0. spc = "read" /\ slot31 \in Clients /\ spc' \in {"null", "write", "accept"}
      BY <1>0, <1>4 DEF ServerRead, Dispatching
    <2>1. /\ file'[slot31].action = file[slot31].action
          /\ \A d \in Clients : d # slot31 => file'[d] = file[d]
          /\ slot31' = slot31
      BY <1>4, <2>0, ReadFacts DEF ServerRead
    <2>2. pc' = pc
      BY <1>4 DEF ServerRead, ClientsIdle
    <2> QED BY <2>0, <2>1, <2>2 DEF ReplyInv
  <1>5. CASE ServerNull
    <2>0. slot31 \in Clients /\ spc' = "accept" /\ pc' = pc
      BY <1>0, <1>5 DEF ServerNull, ServerStep, Dispatching, ClientsIdle
    <2>1. /\ file'[slot31].action = "ACTION_NULL" /\ file'[slot31].full = file[slot31].full
          /\ \A d \in Clients : d # slot31 => file'[d] = file[d]
          /\ slot31' = slot31
      BY <1>5, <2>0, SetActionFacts DEF ServerNull, Actions
    <2> QED BY <2>0, <2>1 DEF ReplyInv
  <1>6. CASE ServerWrite
    <2>0. slot31 \in Clients /\ spc' = "flag" /\ pc' = pc /\ request \in AllPackets
      BY <1>0, <1>6 DEF ServerWrite, ServerStep, Dispatching, ClientsIdle, Basic, Places
    <2>1. /\ file'[slot31].action = file[slot31].action /\ file'[slot31].full
          /\ \A d \in Clients : d # slot31 => file'[d] = file[d]
          /\ slot31' = slot31
      BY <1>6, <2>0, PacketFacts, ResponseFacts, WriteFacts DEF ServerWrite
    <2> QED BY <2>0, <2>1 DEF ReplyInv
  <1>7. CASE ServerFlag
    <2>0. slot31 \in Clients /\ spc = "flag" /\ spc' = "accept" /\ pc' = pc
      BY <1>0, <1>7 DEF ServerFlag, ServerStep, Dispatching, ClientsIdle
    <2>1. /\ file'[slot31].action = "ACTION_REPLY" /\ file'[slot31].full = file[slot31].full
          /\ \A d \in Clients : d # slot31 => file'[d] = file[d]
          /\ slot31' = slot31
      BY <1>7, <2>0, SetActionFacts DEF ServerFlag, Actions
    <2> QED BY <2>0, <2>1 DEF ReplyInv
  <1> QED BY <1>1, <1>2, <1>3, <1>4, <1>5, <1>6, <1>7 DEF ServerNext

\* No process exits because recv() fails in the library, although the server sets
\* ACTION_REPLY even when its write() failed, and even to a client that connected late.
THEOREM RepliesReadable == Spec => []ReplyReadable
  <1>1. Init => ReplyInv
    BY NoneAssumption DEF Init, KernelInit, NewFile, ReplyInv
  <1>2. Basic /\ ReplyInv /\ [Next]_vars => ReplyInv'
    <2> SUFFICES ASSUME Basic, ReplyInv, [Next]_vars PROVE ReplyInv'
      OBVIOUS
    <2>1. CASE UNCHANGED vars
      BY <2>1 DEF vars, kernelVars, ReplyInv
    <2> QED BY <2>1, ReplyClientStep, ReplyServerStep DEF Next
  <1>3. Basic /\ ReplyInv => ReplyReadable
    <2> SUFFICES ASSUME Basic, ReplyInv, NEW c \in Clients, pc[c] = "recv" PROVE ReadSucceeds(file[c])
      BY DEF ReplyReadable
    <2>1. file[c] \in File /\ FileOK(file[c]) /\ file[c].full
      BY DEF Basic, TypeOK, KernelTypeOK, FilesOK, ReplyInv
    <2> QED BY <2>1, FileOKRead
  <1> QED BY <1>1, <1>2, <1>3, BasicHolds, PTL DEF Spec

-----------------------------------------------------------------------------
(* A call gets its own answer.  As long as no connect() falls into a         *)
(* dispatch, what a client's file holds is settled by where the client is in *)
(* its call and how far the server has come with it.                         *)

\* How far the server is in the dispatch of the request of c.
Stage(c) == IF slot31 = c /\ spc \in {"read", "null", "write", "flag"} THEN spc ELSE "none"

About(p, c) == p.client = c /\ p.call = call[c]
Holds(c, action, full) == file[c].action = action /\ file[c].full = full

\* The five situations of a client that polls.
Asked(c) == Stage(c) \in {"none", "read"} /\ Holds(c, "ACTION_REQUEST", TRUE) /\ About(file[c].buf, c)
Heard(c) == Stage(c) \in {"null", "write"} /\ Holds(c, "ACTION_REQUEST", FALSE) /\ About(request, c)
Written(c) == file[c].buf.by = "server" /\ About(file[c].buf, c)
Answering(c) == Stage(c) = "flag" /\ Holds(c, "ACTION_REQUEST", TRUE) /\ Written(c)
Answered(c) == Stage(c) = "none" /\ Holds(c, "ACTION_REPLY", TRUE) /\ Written(c)
Released(c) == Stage(c) = "none" /\ Holds(c, "ACTION_NULL", FALSE)

Turn(c) ==
    /\ ~file[c].full => file[c].buf = NoPacket
    /\ pc[c] # "send"
    /\ pc[c] \in {"socket", "connect", "idle", "exit"} => Released(c)
    /\ pc[c] = "sync" => Stage(c) = "none" /\ Holds(c, "ACTION_NULL", TRUE) /\ About(file[c].buf, c)
    /\ pc[c] = "poll" => Asked(c) \/ Heard(c) \/ Answering(c) \/ Answered(c) \/ Released(c)
    /\ pc[c] = "recv" => Answered(c)
    /\ pc[c] = "clear" => Stage(c) = "none" /\ ~file[c].full /\ file[c].action # "ACTION_REQUEST"

TurnInv == ~disturbed => \A c \in Clients : Turn(c)

\* A step that leaves the file and the place of d, and the server's place in its
\* dispatch, leaves the turn of d.
LEMMA TurnKept ==
    ASSUME NEW d, Turn(d), Stage(d)' = Stage(d), pc'[d] = pc[d], call'[d] = call[d], file'[d] = file[d],
           Stage(d) \in {"null", "write"} => request' = request
    PROVE  Turn(d)'
  BY DEF Turn, Asked, Heard, Written, Answering, Answered, Released, Holds, About

\* What the calls do to the buffer.
LEMMA BufferWritten ==
    ASSUME Basic, NEW c \in Clients, ~file[c].full, NEW p \in AllPackets, sys_write(c, p)
    PROVE  file'[c].buf = p /\ file'[c].full /\ file'[c].action = file[c].action /\ WriteSucceeds(file[c])
  <1>1. file \in [Clients -> File] /\ FileOK(file[c])
    BY DEF Basic, TypeOK, KernelTypeOK, FilesOK
  <1>2. WriteSucceeds(file[c])
    BY <1>1 DEF FileOK, WriteSucceeds, CanWrite
  <1>3. AfterWrite(file[c], p).buf = p
    BY <1>1, <1>2 DEF AfterWrite, File
  <1> QED BY <1>2, <1>3, WriteFacts

LEMMA BufferRead ==
    ASSUME Basic, NEW c \in Clients, file[c].full, sys_read(c)
    PROVE  file'[c].buf = NoPacket /\ ~file'[c].full /\ file'[c].action = file[c].action /\ ReadSucceeds(file[c])
  <1>1. file \in [Clients -> File]
    BY DEF Basic, TypeOK, KernelTypeOK
  <1> QED BY <1>1, ReadFacts DEF AfterRead, File

LEMMA BufferKept ==
    ASSUME Basic, NEW c \in Clients, NEW a \in Actions, sys_set_action(c, a)
    PROVE  file'[c].buf = file[c].buf
  <1>1. file \in [Clients -> File]
    BY DEF Basic, TypeOK, KernelTypeOK
  <1> QED BY <1>1, SetActionFacts DEF File

LEMMA TurnClientStep ==
    ASSUME Basic, \A d \in Clients : Turn(d), ~disturbed', NEW c \in Clients, ClientMay(c) \/ ClientMust(c)
    PROVE  \A d \in Clients : Turn(d)'
  <1> DEFINE P == {"socket", "connect", "idle", "send", "sync", "poll", "recv", "clear", "exit"}
  <1>0. /\ pc \in [Clients -> P] /\ call \in [Clients -> Functions \cup {NoCall}]
        /\ file \in [Clients -> File] /\ Turn(c) /\ pc[c] # "send" /\ spc' = spc /\ request' = request
    <2>1. spc' = spc /\ request' = request
      BY DEF ClientMay, ClientMust, ClientSocket, ClientConnect, ClientSend, ClientSync, ClientPoll,
             ClientRecv, ClientClear, ClientClose, ServerIdle
    <2> QED BY <2>1 DEF Basic, TypeOK, KernelTypeOK, Turn
  <1>00. \A d \in Clients \ {c} : pc'[d] = pc[d] /\ call'[d] = call[d] /\ file'[d] = file[d]
    BY <1>0 DEF ClientMay, ClientMust, ClientSocket, ClientConnect, ClientSend, ClientSync, ClientPoll,
             ClientRecv, ClientClear, ClientClose, Step, SameCall, sys_socket, sys_connect, sys_write,
             sys_set_action, sys_read, sys_close, kernelVars
  <1>000. \A d \in Clients : Stage(d)' = Stage(d)
    <2>1. CASE ClientConnect(c)
      <3>1. spc \notin {"read", "null", "write", "flag"}
        BY <2>1 DEF ClientConnect
      <3> QED BY <1>0, <3>1 DEF Stage
    <2>2. CASE ~ClientConnect(c)
      <3>1. slot31' = slot31
        BY <2>2 DEF ClientMay, ClientMust, ClientSocket, ClientSend, ClientSync, ClientPoll, ClientRecv,
             ClientClear, ClientClose, sys_socket, sys_write, sys_set_action, sys_read, sys_close, kernelVars
      <3> QED BY <1>0, <3>1 DEF Stage
    <2> QED BY <2>1, <2>2
  <1>k. SUFFICES Turn(c)'
    <2> SUFFICES ASSUME NEW d \in Clients, d # c PROVE Turn(d)'
      OBVIOUS
    <2>1. Turn(d) /\ Stage(d)' = Stage(d) /\ pc'[d] = pc[d] /\ call'[d] = call[d] /\ file'[d] = file[d]
      BY <1>00, <1>000
    <2> QED BY <1>0, <2>1, TurnKept
  <1>s. Stage(c)' = Stage(c)
    BY <1>000
  <1>1. CASE ClientSocket(c)
    <2>1. pc[c] = "socket" /\ pc'[c] = "connect" /\ file'[c] = NewFile
      BY <1>0, <1>1 DEF ClientSocket, Step, sys_socket
    <2> QED BY <1>0, <1>s, <2>1 DEF Turn, Released, Holds, NewFile
  <1>2. CASE ClientConnect(c)
    <2>1. pc[c] = "connect" /\ pc'[c] = "idle" /\ file' = file
      BY <1>0, <1>2 DEF ClientConnect, Step, sys_connect
    <2> QED BY <1>0, <1>s, <2>1 DEF Turn, Released, Holds
  <1>3. ASSUME NEW f \in Functions, pc[c] = "idle", ClientSend(c, f) PROVE Turn(c)'
    <2>1. Released(c)
      BY <1>0, <1>3 DEF Turn
    <2>2. /\ file'[c].buf = Request(c, f) /\ file'[c].full /\ file'[c].action = "ACTION_NULL"
          /\ WriteSucceeds(file[c])
      BY <1>3, <2>1, BufferWritten, RequestFacts DEF ClientSend, Released, Holds
    <2>3. pc'[c] = "sync" /\ call'[c] = f
      BY <1>0, <1>3, <2>2 DEF ClientSend
    <2> QED BY <1>s, <2>1, <2>2, <2>3, RequestFacts DEF Turn, Released, Holds, About
  <1>4. CASE ClientSync(c)
    <2>1. pc[c] = "sync" /\ pc'[c] = "poll" /\ call' = call
      BY <1>0, <1>4 DEF ClientSync, Step, SameCall
    <2>2. file'[c].action = "ACTION_REQUEST" /\ file'[c].full = file[c].full /\ file'[c].buf = file[c].buf
      BY <1>4, SetActionFacts, BufferKept DEF ClientSync, Actions
    <2> QED BY <1>0, <1>s, <2>1, <2>2 DEF Turn, Asked, Holds, About
  <1>5. CASE ClientPoll(c)
    <2>1. pc[c] = "poll" => Library[call[c]].quits \subseteq {"ACTION_ERROR", "ACTION_NULL"}
      BY LibraryFacts DEF Basic, Places, Calling
    <2>2. /\ pc[c] = "poll" /\ file' = file /\ call' = call
          /\ \/ pc'[c] = "recv" /\ file[c].action = "ACTION_REPLY"
             \/ pc'[c] = "clear" /\ file[c].action \in {"ACTION_ERROR", "ACTION_NULL"}
      BY <1>0, <1>5, <2>1 DEF ClientPoll, Step, kernelVars, SameCall
    <2>3. Answered(c) \/ Released(c)
      BY <1>0, <2>2 DEF Turn, Asked, Heard, Answering, Holds
    <2> QED BY <1>0, <1>s, <2>2, <2>3 DEF Turn, Answered, Released, Written, Holds, About
  <1>6. CASE ClientRecv(c)
    <2>1. pc[c] = "recv" /\ Answered(c) /\ file[c].full
      BY <1>0, <1>6 DEF ClientRecv, Step, Turn, Answered, Holds
    <2>2. file'[c].buf = NoPacket /\ ~file'[c].full /\ file'[c].action = "ACTION_REPLY" /\ ReadSucceeds(file[c])
      BY <1>6, <2>1, BufferRead DEF ClientRecv, Answered, Holds
    <2>3. pc'[c] = "clear"
      BY <1>0, <1>6, <2>2 DEF ClientRecv, Step
    <2> QED BY <1>s, <2>1, <2>2, <2>3 DEF Turn, Answered
  <1>7. CASE ClientClear(c)
    <2>1. pc[c] = "clear" /\ pc'[c] = "idle"
      BY <1>0, <1>7 DEF ClientClear, Step
    <2>2. file'[c].action = "ACTION_NULL" /\ file'[c].full = file[c].full /\ file'[c].buf = file[c].buf
      BY <1>7, SetActionFacts, BufferKept DEF ClientClear, Actions
    <2> QED BY <1>0, <1>s, <2>1, <2>2 DEF Turn, Released, Holds
  <1>8. CASE ClientClose(c)
    <2>1. pc[c] = "idle" /\ pc'[c] = "exit" /\ file' = file
      BY <1>0, <1>8 DEF ClientClose, Step, sys_close
    <2> QED BY <1>0, <1>s, <2>1 DEF Turn, Released, Holds
  <1> QED BY <1>0, <1>1, <1>2, <1>3, <1>4, <1>5, <1>6, <1>7, <1>8 DEF ClientMay, ClientMust

LEMMA TurnServerStep ==
    ASSUME Basic, \A d \in Clients : Turn(d), ServerNext
    PROVE  \A d \in Clients : Turn(d)'
  <1> DEFINE c == slot31
  <1>0. spc \in Dispatching => c \in Clients /\ Turn(c) /\ slot31' = slot31
    BY DEF Basic, Places, Dispatching, ServerNext, ServerSetup, ServerAccept, ServerCheck, ServerRead, ServerNull,
           ServerWrite, ServerFlag, ServerStep, sys_read, sys_write, sys_set_action, kernelVars
  <1>00. UNCHANGED <<pc, call>>
    BY DEF ServerNext, ServerSetup, ServerAccept, ServerCheck, ServerRead, ServerNull, ServerWrite, ServerFlag, ClientsIdle
  \* The other clients, while one is served.
  <1>k. ASSUME spc \in Dispatching, \A d \in Clients : d # c => file'[d] = file[d]
        PROVE  \A d \in Clients : d # c => Turn(d)'
    <2> SUFFICES ASSUME NEW d \in Clients, d # c PROVE Turn(d)'
      OBVIOUS
    <2>1. Stage(d) = "none" /\ Stage(d)' = "none"
      BY <1>0, <1>k DEF Stage
    <2> QED BY <1>00, <1>k, <2>1, TurnKept
  <1>1. CASE ServerSetup \/ ServerAccept
    <2>1. file' = file /\ spc \in {"socket", "listen", "accept"} /\ spc' \in {"listen", "accept", "check"}
      BY <1>1 DEF ServerSetup, ServerAccept, ServerStep, sys_socket_server, sys_listen, sys_accept
    <2>2. ASSUME NEW d \in Clients PROVE Turn(d)'
      <3>1. Stage(d) = "none" /\ Stage(d)' = "none"
        BY <2>1 DEF Stage
      <3> QED BY <1>00, <2>1, <3>1, TurnKept
    <2> QED BY <2>2
  <1>3. CASE ServerCheck
    <2>1. /\ c \in Clients /\ Turn(c) /\ slot31' = slot31 /\ file' = file /\ spc = "check"
          /\ spc' = IF file[c].action = "ACTION_REQUEST" THEN "read" ELSE "accept"
      BY <1>0, <1>3 DEF ServerCheck, ServerStep, Dispatching, kernelVars
    <2>2. Stage(c) = "none" /\ Stage(c)' = IF file[c].action = "ACTION_REQUEST" THEN "read" ELSE "none"
      BY <2>1 DEF Stage
    <2>3. Turn(c)'
      <3>1. CASE file[c].action # "ACTION_REQUEST"
        BY <1>00, <2>1, <2>2, <3>1, TurnKept
      <3>2. CASE file[c].action = "ACTION_REQUEST"
        <4>1. pc[c] = "poll" /\ Asked(c)
          BY <2>1, <2>2, <3>2 DEF Turn, Asked, Heard, Answering, Answered, Released, Holds, Basic, TypeOK
        <4> QED BY <1>00, <2>1, <2>2, <3>2, <4>1 DEF Turn, Asked, Holds, About
      <3> QED BY <3>1, <3>2
    <2> QED BY <1>k, <2>1, <2>3 DEF Dispatching
  <1>4. CASE ServerRead
    <2>1. c \in Clients /\ Turn(c) /\ slot31' = slot31 /\ Stage(c) = "read" /\ spc = "read" /\ sys_read(c)
      BY <1>0, <1>4 DEF ServerRead, Dispatching, Stage
    <2>2. pc[c] = "poll" /\ Asked(c) /\ file[c].full
      BY <2>1 DEF Turn, Asked, Heard, Answering, Answered, Released, Holds, Basic, TypeOK
    <2>3. file'[c].buf = NoPacket /\ ~file'[c].full /\ file'[c].action = file[c].action /\ ReadSucceeds(file[c])
      BY <2>1, <2>2, BufferRead
    <2>4. request' = file[c].buf /\ spc' \in {"null", "write"}
      BY <1>4, <2>3 DEF ServerRead
    <2>5. Heard(c)'
      BY <1>00, <2>1, <2>2, <2>3, <2>4 DEF Heard, Asked, Stage, Holds, About, Basic, TypeOK, KernelTypeOK, File
    <2>6. Turn(c)'
      BY <1>00, <2>1, <2>2, <2>3, <2>5 DEF Turn
    <2>7. \A d \in Clients : d # c => file'[d] = file[d]
      BY <2>1, ReadFacts
    <2> QED BY <1>k, <2>1, <2>6, <2>7 DEF Dispatching
  <1>5. CASE ServerNull
    <2>1. /\ c \in Clients /\ Turn(c) /\ slot31' = slot31 /\ Stage(c) = "null" /\ spc' = "accept"
          /\ spc = "null" /\ sys_set_action(c, "ACTION_NULL")
      BY <1>0, <1>5 DEF ServerNull, ServerStep, Dispatching, Stage
    <2>2. pc[c] = "poll" /\ Heard(c)
      BY <2>1 DEF Turn, Asked, Heard, Answering, Answered, Released, Holds, Basic, TypeOK
    <2>3. /\ file'[c].action = "ACTION_NULL" /\ file'[c].full = file[c].full /\ file'[c].buf = file[c].buf
          /\ \A d \in Clients : d # c => file'[d] = file[d]
      BY <2>1, SetActionFacts, BufferKept DEF Actions
    <2>4. Released(c)'
      BY <2>1, <2>2, <2>3 DEF Released, Heard, Holds, Stage
    <2>5. Turn(c)'
      BY <1>00, <2>1, <2>2, <2>3, <2>4 DEF Turn
    <2> QED BY <1>k, <2>1, <2>3, <2>5 DEF Dispatching
  <1>6. CASE ServerWrite
    <2> DEFINE r == Response(ResponseType(request.code), request.client, request.call)
    <2>1. /\ c \in Clients /\ Turn(c) /\ slot31' = slot31 /\ Stage(c) = "write" /\ spc' = "flag"
          /\ spc = "write" /\ sys_write(c, r) /\ request \in AllPackets
      BY <1>0, <1>6 DEF ServerWrite, ServerStep, Dispatching, Stage, Basic, Places
    <2>2. pc[c] = "poll" /\ Heard(c) /\ ~file[c].full
      BY <2>1 DEF Turn, Asked, Heard, Answering, Answered, Released, Holds, Basic, TypeOK
    <2>3. r \in AllPackets
      BY <2>1, PacketFacts, ResponseFacts
    <2>4. /\ file'[c].buf = r /\ file'[c].full /\ file'[c].action = file[c].action
          /\ \A d \in Clients : d # c => file'[d] = file[d]
      BY <2>1, <2>2, <2>3, BufferWritten, WriteFacts
    <2>5. r.by = "server" /\ r.client = c /\ r.call = call[c]
      BY <2>2 DEF Heard, About, Response
    <2>6. Answering(c)'
      BY <1>00, <2>1, <2>2, <2>4, <2>5 DEF Answering, Heard, Written, Holds, Stage, About
    <2>7. Turn(c)'
      BY <1>00, <2>1, <2>2, <2>4, <2>6 DEF Turn
    <2> QED BY <1>k, <2>1, <2>4, <2>7 DEF Dispatching
  <1>7. CASE ServerFlag
    <2>1. /\ c \in Clients /\ Turn(c) /\ slot31' = slot31 /\ Stage(c) = "flag" /\ spc' = "accept"
          /\ spc = "flag" /\ sys_set_action(c, "ACTION_REPLY")
      BY <1>0, <1>7 DEF ServerFlag, ServerStep, Dispatching, Stage
    <2>2. pc[c] = "poll" /\ Answering(c)
      BY <2>1 DEF Turn, Asked, Heard, Answering, Answered, Released, Holds, Basic, TypeOK
    <2>3. /\ file'[c].action = "ACTION_REPLY" /\ file'[c].full = file[c].full /\ file'[c].buf = file[c].buf
          /\ \A d \in Clients : d # c => file'[d] = file[d]
      BY <2>1, SetActionFacts, BufferKept DEF Actions
    <2>4. Answered(c)'
      BY <1>00, <2>1, <2>2, <2>3 DEF Answered, Answering, Written, Holds, Stage, About
    <2>5. Turn(c)'
      BY <1>00, <2>1, <2>2, <2>3, <2>4 DEF Turn, Answering, Holds
    <2> QED BY <1>k, <2>1, <2>3, <2>5 DEF Dispatching
  <1> QED BY <1>1, <1>3, <1>4, <1>5, <1>6, <1>7 DEF ServerNext

LEMMA TurnHolds == Spec => [](Basic /\ TurnInv)
  <1>1. Init => TurnInv
    BY DEF Init, KernelInit, NewFile, TurnInv, Turn, Released, Holds, Stage
  <1>2. Basic /\ TurnInv /\ [Next]_vars => TurnInv'
    <2> SUFFICES ASSUME Basic, TurnInv, [Next]_vars, ~disturbed' PROVE \A d \in Clients : Turn(d)'
      BY DEF TurnInv
    <2>1. CASE UNCHANGED vars
      <3>1. ASSUME NEW d \in Clients PROVE Turn(d)'
        <4>1. Turn(d) /\ Stage(d)' = Stage(d)
          BY <2>1 DEF TurnInv, vars, kernelVars, Stage
        <4> QED BY <2>1, <4>1, TurnKept DEF vars, kernelVars
      <3> QED BY <3>1
    <2>2. CASE Next
      <3>1. ~disturbed
        BY <2>2 DEF Next, ServerNext, ServerSetup, ServerAccept, ServerCheck, ServerRead, ServerNull,
               ServerWrite, ServerFlag, ClientMay, ClientMust, ClientSocket, ClientConnect, ClientSend,
               ClientSync, ClientPoll, ClientRecv, ClientClear, ClientClose
      <3> QED BY <2>2, <3>1, TurnClientStep, TurnServerStep DEF Next, TurnInv
    <2> QED BY <2>1, <2>2
  <1> QED BY <1>1, <1>2, BasicHolds, PTL DEF Spec

\* A library function that goes to read its answer finds the server's answer to this very
\* call, for any number of clients, unless a client connected during a dispatch.
THEOREM AnswersReachTheirCalls == Spec => []AnswerIsMine
  <1>1. TurnInv => AnswerIsMine
    BY DEF TurnInv, Turn, Answered, Written, About, Holds, AnswerIsMine
  <1> QED BY <1>1, TurnHolds, PTL

\* Every library function leaves its connection as it found it, under the same condition.
THEOREM ConnectionsStayClean == Spec => []CallsAreClean
  <1>1. Basic /\ TurnInv => CallsAreClean
    <2> SUFFICES ASSUME Basic, TurnInv, ~disturbed, NEW c \in Clients, pc[c] = "idle" PROVE file[c] = NewFile
      BY DEF CallsAreClean
    <2>1. file[c] \in File /\ FileOK(file[c])
      BY DEF Basic, TypeOK, KernelTypeOK, FilesOK
    <2>2. Turn(c) /\ Released(c)
      BY DEF TurnInv, Turn
    <2>3. file[c].full = FALSE /\ file[c].action = "ACTION_NULL" /\ file[c].buf = NoPacket /\ file[c].flags = {"__SWR"}
      BY <2>1, <2>2 DEF Turn, Released, Holds, FileOK
    <2> QED BY <2>1, <2>3 DEF File, NewFile
  <1> QED BY <1>1, TurnHolds, PTL
=============================================================================
