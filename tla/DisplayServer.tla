--------------------------- MODULE DisplayServer ---------------------------
(* The dialogue between the display server (gram3d/demo00/main.c) and the    *)
(* programs that use the client library (osshell/api/libs/libx/gws.c) over   *)
(* the kernel's sockets.  Every system call is a step of its own: the        *)
(* scheduler may switch between any two of them.                             *)
EXTENDS Socket

CONSTANTS
    BACKLOG,        \* what the server passes to listen(), 4 in the code
    Used,           \* Used[c]: the library functions that client c calls
    NoCall          \* a client between two calls

VARIABLES
    pc,         \* pc[c]: the next system call of client c
    call,       \* call[c]: the library function client c is in
    tries,      \* tries[c]: how often it may still send its request
    spc,        \* the next system call of the server
    request,    \* the request in the server's __buffer
    NoReply,    \* the server's global of that name
    disturbed   \* history: a client connected while the server dispatched a request

vars == <<kernelVars, pc, call, tries, spc, request, NoReply, disturbed>>

-----------------------------------------------------------------------------
(* The numbers of the protocol.  Requests and packet types share a field of  *)
(* the packet, and their numbers overlap.                                    *)
GWS_CreateWindow == 1001
GWS_DrawChar == 1004
GWS_DrawText == 1005
GWS_RefreshWindow == 1006
GWS_RedrawWindow == 1007
GWS_ResizeWindow == 1008
GWS_ChangeWindowPosition == 1009
GWS_RefreshRectangle == 2021
GWS_GetNextEvent == 2031
GWS_AsyncCommand == 2222
GWS_SetText == 2240
GWS_GetText == 2241
GWS_GetWindowInfo == 9093
GWS_CloneAndExecute == 9099

SERVER_PACKET_TYPE_REPLY == 1001
SERVER_PACKET_TYPE_EVENT == 1002
SERVER_PACKET_TYPE_ERROR == 1003

-----------------------------------------------------------------------------
(* The client library.  A function sends msg at most tries times, sets the   *)
(* action to ACTION_REQUEST and polls it.  It leaves the loop on an action   *)
(* in quits; if it wants a packet type, ACTION_REPLY makes it read one.      *)
(* dies: the process exits if nothing can be read.                           *)

NoReplyCall(msg, n) ==
    [msg |-> msg, tries |-> n, quits |-> {"ACTION_ERROR", "ACTION_NULL"}, wants |-> {}, dies |-> FALSE]
ReplyCall(msg, quits, type) ==
    [msg |-> msg, tries |-> 1, quits |-> quits, wants |-> {type}, dies |-> FALSE]

gws_draw_char == NoReplyCall(GWS_DrawChar, 1)
gws_draw_text == NoReplyCall(GWS_DrawText, 8)
gws_set_text == NoReplyCall(GWS_SetText, 1)
gws_redraw_window == NoReplyCall(GWS_RedrawWindow, 1)
gws_refresh_window == NoReplyCall(GWS_RefreshWindow, 1)
gws_async_command == NoReplyCall(GWS_AsyncCommand, 1)
gws_async_command2 == NoReplyCall(GWS_AsyncCommand, 1)

gws_get_text == ReplyCall(GWS_GetText, {"ACTION_ERROR", "ACTION_NULL"}, SERVER_PACKET_TYPE_REPLY)
gws_clone_and_execute2 ==
    ReplyCall(GWS_CloneAndExecute, {"ACTION_ERROR", "ACTION_NULL"}, SERVER_PACKET_TYPE_REPLY)
gws_refresh_retangle ==
    ReplyCall(GWS_RefreshRectangle, {"ACTION_ERROR", "ACTION_NULL"}, SERVER_PACKET_TYPE_REPLY)
gws_get_next_event == ReplyCall(GWS_GetNextEvent, {"ACTION_ERROR"}, SERVER_PACKET_TYPE_EVENT)
gws_get_window_info == ReplyCall(GWS_GetWindowInfo, {"ACTION_ERROR"}, SERVER_PACKET_TYPE_REPLY)
gws_create_window == ReplyCall(GWS_CreateWindow, {"ACTION_ERROR"}, SERVER_PACKET_TYPE_REPLY)
gws_change_window_position ==
    [ReplyCall(GWS_ChangeWindowPosition, {"ACTION_ERROR"}, SERVER_PACKET_TYPE_REPLY) EXCEPT !.dies = TRUE]
gws_resize_window ==
    [ReplyCall(GWS_ResizeWindow, {"ACTION_ERROR"}, SERVER_PACKET_TYPE_REPLY) EXCEPT !.dies = TRUE]

Functions == {"draw_char", "draw_text", "set_text", "redraw_window", "refresh_window", "async_command", "async_command2",
              "get_text", "clone_and_execute2", "refresh_retangle", "get_next_event", "get_window_info",
              "create_window", "change_window_position", "resize_window"}

Library == [
    draw_char |-> gws_draw_char, draw_text |-> gws_draw_text, set_text |-> gws_set_text,
    redraw_window |-> gws_redraw_window, refresh_window |-> gws_refresh_window,
    async_command |-> gws_async_command, async_command2 |-> gws_async_command2, get_text |-> gws_get_text,
    clone_and_execute2 |-> gws_clone_and_execute2, refresh_retangle |-> gws_refresh_retangle,
    get_next_event |-> gws_get_next_event, get_window_info |-> gws_get_window_info,
    create_window |-> gws_create_window, change_window_position |-> gws_change_window_position,
    resize_window |-> gws_resize_window]

\* A packet: its number, whether a client or the server made it, and for which call of
\* which client.
Request(c, f) == [code |-> Library[f].msg, by |-> "client", client |-> c, call |-> f]
Response(type, c, f) == [code |-> type, by |-> "server", client |-> c, call |-> f]

PacketTypes == {SERVER_PACKET_TYPE_REPLY, SERVER_PACKET_TYPE_EVENT, SERVER_PACKET_TYPE_ERROR}
AllPackets == {Request(c, f) : c \in Clients, f \in Functions}
              \cup {Response(t, c, f) : t \in PacketTypes, c \in Clients, f \in Functions}

ASSUME UsedAssumption == Used \in [Clients -> SUBSET Functions]
ASSUME NoCallAssumption == NoCall \notin Functions
ASSUME PacketsAssumption == AllPackets \subseteq Packets
ASSUME ListenAssumption == BACKLOG \in BacklogArgs

-----------------------------------------------------------------------------
(* A client program.                                                        *)

Step(c, from, to) == pc[c] = from /\ pc' = [pc EXCEPT ![c] = to]
ServerIdle == UNCHANGED <<spc, request, NoReply>>
SameCall == UNCHANGED <<call, tries>>

ClientSocket(c) ==
    /\ Step(c, "socket", "connect")
    /\ sys_socket(c)
    /\ ServerIdle /\ SameCall /\ UNCHANGED disturbed

\* The descriptor 31 of the server changes, whatever the server is doing.
ClientConnect(c) ==
    /\ Step(c, "connect", "idle")
    /\ sys_connect(c)
    /\ disturbed' = (disturbed \/ spc \in {"check", "read", "null", "write", "flag"})
    /\ ServerIdle /\ SameCall

\* A library function sends its request, or the next try of one.
ClientSend(c, f) ==
    LET left == IF pc[c] = "idle" THEN Library[f].tries ELSE tries[c]
        sent == WriteSucceeds(file[c])
    IN
    /\ (pc[c] = "idle" /\ f \in Used[c]) \/ (pc[c] = "send" /\ f = call[c])
    /\ sys_write(c, Request(c, f))
    /\ call' = [call EXCEPT ![c] = f]
    /\ tries' = [tries EXCEPT ![c] = IF sent THEN 0 ELSE left - 1]
    /\ pc' = [pc EXCEPT ![c] = IF sent THEN "sync" ELSE IF left > 1 THEN "send" ELSE "clear"]
    /\ ServerIdle /\ UNCHANGED disturbed

ClientSync(c) ==
    /\ Step(c, "sync", "poll")
    /\ sys_set_action(c, "ACTION_REQUEST")
    /\ ServerIdle /\ SameCall /\ UNCHANGED disturbed

\* Mutant: the answer is read without waiting for ACTION_REPLY.
ClientPollImpatient(c) ==
    /\ \/ Step(c, "poll", "recv") /\ Library[call[c]].wants # {}
       \/ Step(c, "poll", "clear") /\ file[c].action \in Library[call[c]].quits
    /\ UNCHANGED kernelVars /\ ServerIdle /\ SameCall /\ UNCHANGED disturbed

\* The loop ends on an action that the function waits for.
ClientPoll(c) ==
    /\ \/ Step(c, "poll", "recv") /\ Library[call[c]].wants # {} /\ file[c].action = "ACTION_REPLY"
       \/ Step(c, "poll", "clear") /\ file[c].action \in Library[call[c]].quits
    /\ UNCHANGED kernelVars /\ ServerIdle /\ SameCall /\ UNCHANGED disturbed

ClientRecv(c) ==
    /\ Step(c, "recv", IF ~ReadSucceeds(file[c]) /\ Library[call[c]].dies THEN "exit" ELSE "clear")
    /\ sys_read(c)
    /\ ServerIdle /\ SameCall /\ UNCHANGED disturbed

\* Mutant: the action is left as the server set it.
ClientClearNot(c) ==
    /\ Step(c, "clear", "idle")
    /\ UNCHANGED kernelVars
    /\ call' = [call EXCEPT ![c] = NoCall]
    /\ ServerIdle /\ UNCHANGED <<tries, disturbed>>

\* Both ends of every library function set ACTION_NULL.
ClientClear(c) ==
    /\ Step(c, "clear", "idle")
    /\ sys_set_action(c, "ACTION_NULL")
    /\ call' = [call EXCEPT ![c] = NoCall]
    /\ ServerIdle /\ UNCHANGED <<tries, disturbed>>

ClientClose(c) ==
    /\ Step(c, "idle", "exit")
    /\ sys_close(c)
    /\ ServerIdle /\ SameCall /\ UNCHANGED disturbed

-----------------------------------------------------------------------------
(* The display server.                                                      *)

ClientsIdle == UNCHANGED <<pc, call, tries>>
ServerStep(from, to) == spc = from /\ spc' = to

ServerSetup ==
    /\ \/ ServerStep("socket", "listen") /\ sys_socket_server
       \/ ServerStep("listen", "accept") /\ sys_listen(BACKLOG)
    /\ UNCHANGED <<request, NoReply>> /\ ClientsIdle /\ UNCHANGED disturbed

\* on_execute(): accept() returns 31 or fails.
ServerAccept ==
    /\ ServerStep("accept", IF AcceptSucceeds THEN "check" ELSE "accept")
    /\ sys_accept
    /\ UNCHANGED <<request, NoReply>> /\ ClientsIdle /\ UNCHANGED disturbed

\* dispacher(): only a file whose action is ACTION_REQUEST is read.
ServerCheck ==
    /\ ServerStep("check", IF file[slot31].action = "ACTION_REQUEST" THEN "read" ELSE "accept")
    /\ UNCHANGED kernelVars /\ UNCHANGED <<request, NoReply>> /\ ClientsIdle /\ UNCHANGED disturbed

\* What gwsProcedure() does to NoReply: some requests set it, some clear it, the others
\* leave it as the request before them left it.
WithReply == {1000, 1001, 1002, 1003, 1008, 1009, 2000, 2021, 2031, 2040, 2041, 2042, 2224, 9093}
WithoutReply == {1004, 1005, 1006, 1007, 2222, 2223, 9099}

\* Mutant: requests with a reply do not clear what the request before them set.
gwsProcedureSticky(code) == NoReply \/ code \in WithoutReply

gwsProcedure(code) == IF code \in WithReply THEN FALSE ELSE IF code \in WithoutReply THEN TRUE ELSE NoReply

\* The requests it knows; any other is an error.
Known == WithReply \cup WithoutReply \cup {2010, 2020, 2030, 4080, 8080}

ServerRead ==
    LET packet == file[slot31].buf
        read == ReadSucceeds(file[slot31])
    IN
    /\ spc = "read"
    /\ sys_read(slot31)
    /\ IF read
       THEN /\ NoReply' = gwsProcedure(packet.code)
            /\ request' = packet
            /\ spc' = IF NoReply' THEN "null" ELSE "write"
       ELSE spc' = "accept" /\ UNCHANGED <<NoReply, request>>
    /\ ClientsIdle /\ UNCHANGED disturbed

\* No reply: the client that waits for ACTION_NULL goes on.
ServerNull ==
    /\ ServerStep("null", "accept")
    /\ sys_set_action(slot31, "ACTION_NULL")
    /\ request' = NoPacket
    /\ UNCHANGED NoReply /\ ClientsIdle /\ UNCHANGED disturbed

ResponseType(code) ==
    IF code \notin Known THEN SERVER_PACKET_TYPE_ERROR
    ELSE IF code = GWS_GetNextEvent THEN SERVER_PACKET_TYPE_EVENT
    ELSE SERVER_PACKET_TYPE_REPLY

\* __send_response(): write() to descriptor 31, then ACTION_REPLY even if that failed.
ServerWrite ==
    /\ ServerStep("write", "flag")
    /\ sys_write(slot31, Response(ResponseType(request.code), request.client, request.call))
    /\ UNCHANGED <<request, NoReply>> /\ ClientsIdle /\ UNCHANGED disturbed

ServerFlag ==
    /\ ServerStep("flag", "accept")
    /\ sys_set_action(slot31, "ACTION_REPLY")
    /\ request' = NoPacket
    /\ UNCHANGED NoReply /\ ClientsIdle /\ UNCHANGED disturbed

-----------------------------------------------------------------------------
Init ==
    /\ KernelInit
    /\ pc = [c \in Clients |-> "socket"]
    /\ call = [c \in Clients |-> NoCall]
    /\ tries = [c \in Clients |-> 0]
    /\ spc = "socket"
    /\ request = NoPacket
    /\ NoReply = FALSE
    /\ disturbed = FALSE

\* The steps a client takes without choosing to: all but connecting, calling and closing.
ClientMust(c) ==
    \/ pc[c] = "send" /\ ClientSend(c, call[c])
    \/ ClientSync(c)
    \/ ClientPoll(c)
    \/ ClientRecv(c)
    \/ ClientClear(c)

ClientMay(c) ==
    \/ ClientSocket(c)
    \/ ClientConnect(c)
    \/ \E f \in Functions : pc[c] = "idle" /\ ClientSend(c, f)
    \/ ClientClose(c)

ServerNext ==
    \/ ServerSetup
    \/ ServerAccept
    \/ ServerCheck
    \/ ServerRead
    \/ ServerNull
    \/ ServerWrite
    \/ ServerFlag

Next == ~halted /\ (ServerNext \/ \E c \in Clients : ClientMay(c) \/ ClientMust(c))

Spec == Init /\ [][Next]_vars

\* The display server's loop never ends, and a program that called the library goes on:
\* the scheduler runs every READY thread again and again.
Fairness == WF_vars(ServerNext) /\ \A c \in Clients : WF_vars(ClientMust(c))
FairSpec == Spec /\ Fairness

-----------------------------------------------------------------------------
\* Type invariant.
TypeOK ==
    /\ KernelTypeOK
    /\ pc \in [Clients -> {"socket", "connect", "idle", "send", "sync", "poll", "recv", "clear", "exit"}]
    /\ call \in [Clients -> Functions \cup {NoCall}]
    /\ tries \in [Clients -> 0 .. 8]
    /\ spc \in {"socket", "listen", "accept", "check", "read", "null", "write", "flag"}
    /\ request \in Packets \cup {NoPacket}
    /\ NoReply \in BOOLEAN
    /\ disturbed \in BOOLEAN

\* No read of the server or of the library finds a file that may be read and is empty,
\* which would panic in __read_imp(); also when descriptor 31 changes under the server.
NoPanic == ~halted

\* A library function that goes to read its answer finds the server's answer to this very
\* call, unless a client connected while the server was dispatching.
AnswerIsMine ==
    \A c \in Clients : pc[c] = "recv" /\ ~disturbed =>
        /\ file[c].full
        /\ file[c].buf.by = "server" /\ file[c].buf.client = c /\ file[c].buf.call = call[c]

\* The server sends a response to the client that made the request: what it has put in
\* the file of a client answers that client.
ResponseToItsClient ==
    \A c \in Clients : file[c].full /\ file[c].buf.by = "server" => file[c].buf.client = c

\* No process exits because recv() fails in __gws_change_window_position_reponse() or
\* __gws_resize_window_reponse(): whenever ACTION_REPLY is seen, something can be read.
ReplyReadable == \A c \in Clients : pc[c] = "recv" => ReadSucceeds(file[c])

\* A library function leaves the connection as it found it: nothing in the buffer, no
\* action pending, the file writable for the next request.
CallsAreClean ==
    ~disturbed => \A c \in Clients : pc[c] = "idle" => file[c] = NewFile

\* A later connect() has taken the place of c in the backlog: accept() never finds it
\* again.
Overwritten(c) == \A i \in Slots : server.pending[i] # c

\* The server has answered a function that expects no answer: ACTION_REPLY is not among
\* the actions that end its loop.
UnexpectedReply(c) ==
    call[c] # NoCall /\ Library[call[c]].wants = {} /\ file[c].action = "ACTION_REPLY"

\* Every call of the library returns, though accept() serves one client after the other
\* and others connect and close in the meantime.  It polls for ever in three cases only:
\* a client connected during a dispatch; more clients connected than the backlog has
\* entries, and the caller's entry was lost; or the server, which does not know
\* GWS_SetText, answered gws_set_text() with an error.
CallReturns ==
    \A c \in Clients :
        pc[c] \in {"send", "sync", "poll", "recv", "clear"}
            ~> (pc[c] = "idle" \/ disturbed \/ Overwritten(c) \/ UnexpectedReply(c))
=============================================================================
