------------------------------- MODULE Socket -------------------------------
(* The kernel's local sockets (kres/net/socket.c, kres/net/sockint.c) and    *)
(* the file behind each of them (kres/fs/fslib.c, kres/fs/fs.c), under every *)
(* sequence of system calls that one server and its clients may make.        *)
(*                                                                           *)
(* A connection has ONE file, the client's.  Both ends write to and read     *)
(* from its one-packet buffer: the client by its own descriptor, the server  *)
(* by the slot 31 of its table, which sys_connect() and sys_accept() point   *)
(* to the file of a client.                                                  *)
EXTENDS Integers, FiniteSets

CONSTANTS
    Clients,        \* the processes that connect to the server
    NoClient,       \* an empty entry of a table
    Packets,        \* what programs write
    NoPacket,       \* an empty buffer
    N_PENDING,      \* entries of pending_connections[], 32 in the code
    BACKLOG_DEFAULT, \* pending connections until listen() is called, 4 in the code
    BacklogArgs     \* the values programs pass to listen()

ASSUME NPendingAssumption ==
    N_PENDING \in Nat /\ BACKLOG_DEFAULT \in Nat \ {0} /\ N_PENDING > BACKLOG_DEFAULT
ASSUME BacklogAssumption == BacklogArgs \subseteq Int
ASSUME NoneAssumption == NoClient \notin Clients /\ NoPacket \notin Packets

VARIABLES
    file,       \* file[c]: the socket file of client c
    socket,     \* socket[c]: the state of the socket of client c
    server,     \* the socket of the server
    slot31,     \* the client whose file is in Objects[31] of the server
    halted      \* panic() has stopped the machine

kernelVars == <<file, socket, server, slot31, halted>>

Actions == {"ACTION_NULL", "ACTION_REQUEST", "ACTION_REPLY", "ACTION_ERROR"}
Slots == 0 .. (N_PENDING - 1)

\* "none": sys_socket() has not been called.  "SS_SHUTDOWN": the 216 that shutdown()
\* stores.  "closed": the structure is invalid.
SocketStates == {"none", "SS_UNCONNECTED", "SS_CONNECTING", "SS_CONNECTED", "SS_SHUTDOWN", "closed"}

File == [flags : SUBSET {"__SRD", "__SWR"}, full : BOOLEAN, action : Actions,
         buf : Packets \cup {NoPacket}]

ServerSocket == [state : SocketStates, head : Slots, tail : Slots, max : Slots,
                 pending : [Slots -> Clients \cup {NoClient}]]

\* Mutant: the flag of a readable file is not cleared.
NewFileReadable ==
    [flags |-> {"__SRD", "__SWR"}, full |-> FALSE, action |-> "ACTION_NULL", buf |-> NoPacket]

\* The file that socket_inet() makes for a client: it may be written, not read.
NewFile == [flags |-> {"__SWR"}, full |-> FALSE, action |-> "ACTION_NULL", buf |-> NoPacket]

\* create_socket_object().
create_socket_object(s) ==
    [state |-> s, head |-> 0, tail |-> 0, max |-> BACKLOG_DEFAULT, pending |-> [i \in Slots |-> NoClient]]

-----------------------------------------------------------------------------
(* The socket branches of __read_imp() and __write_imp(), on one file.       *)

CanRead(f) == "__SRD" \in f.flags
CanWrite(f) == "__SWR" \in f.flags

\* A file that may be read and is empty: __read_imp() panics.
ReadPanics(f) == CanRead(f) /\ ~f.full
ReadSucceeds(f) == CanRead(f) /\ f.full

\* Mutant: the flag for writing is not given back.
AfterReadClosed(f) ==
    IF ReadSucceeds(f) THEN [f EXCEPT !.full = FALSE, !.buf = NoPacket, !.flags = @ \ {"__SRD"}]
    ELSE IF ReadPanics(f) THEN [f EXCEPT !.flags = {"__SWR"}]
    ELSE f

\* The buffer becomes empty, may be written and not read.
AfterRead(f) ==
    IF ReadSucceeds(f)
    THEN [f EXCEPT !.full = FALSE, !.buf = NoPacket, !.flags = (@ \ {"__SRD"}) \cup {"__SWR"}]
    ELSE IF ReadPanics(f) THEN [f EXCEPT !.flags = {"__SWR"}]
    ELSE f

\* The branch of __write_imp() that wakes the reader of a full buffer.
WriteFindsFull(f) == CanWrite(f) /\ f.full
WriteSucceeds(f) == CanWrite(f) /\ ~f.full

\* Mutant: a file that was written can be written again.
AfterWriteOpen(f, p) ==
    IF WriteSucceeds(f) THEN [f EXCEPT !.full = TRUE, !.buf = p, !.flags = @ \cup {"__SRD"}]
    ELSE IF WriteFindsFull(f) THEN [f EXCEPT !.flags = {"__SRD"}]
    ELSE f

AfterWrite(f, p) ==
    IF WriteSucceeds(f) THEN [f EXCEPT !.full = TRUE, !.buf = p, !.flags = {"__SRD"}]
    ELSE IF WriteFindsFull(f) THEN [f EXCEPT !.flags = {"__SRD"}]
    ELSE f

\* BUFSIZ bytes or more do not fit: file_write_buffer() refuses them when the flags are
\* already clear.
AfterLargeWrite(f) ==
    IF WriteSucceeds(f) THEN [f EXCEPT !.flags = {}]
    ELSE IF WriteFindsFull(f) THEN [f EXCEPT !.flags = {"__SRD"}]
    ELSE f

-----------------------------------------------------------------------------
(* System calls.                                                            *)

KernelInit ==
    /\ file = [c \in Clients |-> NewFile]
    /\ socket = [c \in Clients |-> "none"]
    /\ server = create_socket_object("none")
    /\ slot31 = NoClient
    /\ halted = FALSE

\* socket() of a client.
sys_socket(c) ==
    /\ socket[c] = "none"
    /\ socket' = [socket EXCEPT ![c] = "SS_UNCONNECTED"]
    /\ file' = [file EXCEPT ![c] = NewFile]
    /\ UNCHANGED <<server, slot31, halted>>

\* socket() of the server: connect() finds it by the priv of its process.
sys_socket_server ==
    /\ server.state = "none"
    /\ server' = create_socket_object("SS_UNCONNECTED")
    /\ UNCHANGED <<file, socket, slot31, halted>>

\* The length of the backlog is clamped to the table.
Clamp(n) == IF n <= 0 THEN 1 ELSE IF n >= N_PENDING THEN N_PENDING - 1 ELSE n

sys_listen(n) ==
    /\ server.state # "none"
    /\ server' = [server EXCEPT !.max = Clamp(n)]
    /\ UNCHANGED <<file, socket, slot31, halted>>

\* Mutant: the index does not go back to 0.
CirculateForward(i) == i + 1

\* The next index of the circular backlog, in connect() and in accept().
Circulate(i) == IF i + 1 >= server.max THEN 0 ELSE i + 1

\* __connect_inet(), for the port of the display server on the localhost, fails unless
\* the client's socket is unconnected and the server has one.
ConnectSucceeds(c) == socket[c] = "SS_UNCONNECTED" /\ server.state # "none"

\* The client enters the backlog, over whoever is there, and its file becomes the
\* server's descriptor 31 at once.
sys_connect(c) ==
    /\ ConnectSucceeds(c)
    /\ slot31' = c
    /\ socket' = [socket EXCEPT ![c] = "SS_CONNECTING"]
    /\ LET tail == Circulate(server.tail) IN
       server' = [server EXCEPT !.state = "SS_CONNECTING", !.tail = tail, !.pending[tail] = c]
    /\ UNCHANGED <<file, halted>>

\* The entries of the backlog that accept() looks at, from head upwards and one past
\* the end, and the client it finds.
Probed(head) == {i \in head .. server.max : server.pending[i] # NoClient}
Found(head) ==
    LET i == CHOOSE j \in Probed(head) : \A k \in Probed(head) : j <= k IN server.pending[i]

\* accept() moves the head and takes the first client from there on.  The client stays
\* in the backlog.  A client that closed its socket makes it fail.
AcceptSucceeds ==
    /\ server.state \in {"SS_CONNECTING", "SS_CONNECTED"}
    /\ Probed(Circulate(server.head)) # {}
    /\ socket[Found(Circulate(server.head))] # "closed"

AcceptedClient == Found(Circulate(server.head))

sys_accept ==
    /\ server.state \in {"SS_CONNECTING", "SS_CONNECTED"}
    /\ IF AcceptSucceeds
       THEN /\ server' = [server EXCEPT !.state = "SS_CONNECTED", !.head = Circulate(@)]
            /\ socket' = [socket EXCEPT ![AcceptedClient] = "SS_CONNECTED"]
            /\ slot31' = AcceptedClient
       ELSE /\ server' = [server EXCEPT !.state = "SS_CONNECTING", !.head = Circulate(@)]
            /\ UNCHANGED <<socket, slot31>>
    /\ UNCHANGED <<file, halted>>

\* read() of the file of c, by the client or through slot 31.
sys_read(c) ==
    /\ file' = [file EXCEPT ![c] = AfterRead(@)]
    /\ halted' = ReadPanics(file[c])
    /\ UNCHANGED <<socket, server, slot31>>

\* write() of a packet to the file of c.
sys_write(c, p) ==
    /\ file' = [file EXCEPT ![c] = AfterWrite(@, p)]
    /\ UNCHANGED <<socket, server, slot31, halted>>

sys_write_large(c) ==
    /\ file' = [file EXCEPT ![c] = AfterLargeWrite(@)]
    /\ UNCHANGED <<socket, server, slot31, halted>>

\* sys_set_file_sync() with SYNC_REQUEST_SET_ACTION.
sys_set_action(c, a) ==
    /\ file' = [file EXCEPT ![c].action = a]
    /\ UNCHANGED <<socket, server, slot31, halted>>

\* sys_set_file_sync() with 216: the file may be written again, what it held is lost.
sys_reset_wr(c) ==
    /\ file' = [file EXCEPT ![c] = NewFile]
    /\ UNCHANGED <<socket, server, slot31, halted>>

\* sys_set_file_sync() with 217: the file may be read, whether or not it holds a packet.
sys_reset_rd(c) ==
    /\ file' = [file EXCEPT ![c].action = "ACTION_NULL", ![c].flags = {"__SRD"}]
    /\ UNCHANGED <<socket, server, slot31, halted>>

\* close() by the client: the socket becomes invalid; neither its file nor its entry in
\* the backlog is taken away.
sys_close(c) ==
    /\ socket' = [socket EXCEPT ![c] = "closed"]
    /\ UNCHANGED <<file, server, slot31, halted>>

sys_socket_shutdown(c) ==
    /\ socket' = [socket EXCEPT ![c] = "SS_SHUTDOWN"]
    /\ UNCHANGED <<file, server, slot31, halted>>

sys_shutdown_server ==
    /\ server.state # "none"
    /\ server' = [server EXCEPT !.state = "SS_SHUTDOWN"]
    /\ UNCHANGED <<file, socket, slot31, halted>>

\* A program can use the file of c: the client until it closes it, the server when its
\* slot 31 points there.
Open(c) == socket[c] \notin {"none", "closed"} \/ slot31 = c

ClientCall(c) ==
    \/ sys_socket(c)
    \/ sys_connect(c)
    \/ socket[c] \notin {"none", "closed"} /\ (sys_close(c) \/ sys_socket_shutdown(c))

ServerCall ==
    \/ sys_socket_server
    \/ \E n \in BacklogArgs : sys_listen(n)
    \/ sys_accept
    \/ sys_shutdown_server

FileCall(c) ==
    /\ Open(c)
    /\ \/ sys_read(c)
       \/ \E p \in Packets : sys_write(c, p)
       \/ sys_write_large(c)
       \/ \E a \in Actions : sys_set_action(c, a)
       \/ sys_reset_wr(c)
       \/ sys_reset_rd(c)

KernelNext == ~halted /\ (ServerCall \/ \E c \in Clients : ClientCall(c) \/ FileCall(c))

KernelSpec == KernelInit /\ [][KernelNext]_kernelVars

-----------------------------------------------------------------------------
\* Type invariant of the kernel's side.  The indices stay inside pending_connections[],
\* although accept() looks one entry past the backlog: listen() clamps it below the
\* length of the table.
KernelTypeOK ==
    /\ file \in [Clients -> File]
    /\ socket \in [Clients -> SocketStates]
    /\ server \in ServerSocket
    /\ server.max > 0
    /\ slot31 \in Clients \cup {NoClient}
    /\ halted \in BOOLEAN

\* Whatever the programs do, a packet that is in a socket file can be read and cannot be
\* written over: the branch of __write_imp() that wakes the reader of a full buffer
\* (fslib.c:1210) is never taken, so no one is ever woken by a write to a socket.
FullIsReadable == \A c \in Clients : file[c].full => file[c].flags = {"__SRD"}
=============================================================================
