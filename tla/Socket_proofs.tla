--------------------------- MODULE Socket_proofs ----------------------------
(***************************************************************************)
(* Proofs about the kernel's sockets for any number of clients, any table  *)
(* of pending connections and every sequence of system calls: the types,   *)
(* and that a full buffer may be read and not written.  Both are inductive *)
(* by themselves.                                                          *)
(***************************************************************************)
EXTENDS Socket, NaturalsInduction, WellFoundedInduction, TLAPS

\* A set of indices that is not empty has a least element.
LEMMA LeastIndex ==
    ASSUME NEW S \in SUBSET Slots, S # {}
    PROVE  \E j \in S : \A k \in S : j <= k
  <1>1. S \subseteq Nat
    BY NPendingAssumption DEF Slots
  <1> DEFINE Less == {ss \in Nat \X Nat : ss[1] < ss[2]}
  <1>2. IsWellFoundedOn(Less, Nat)
    BY NatLessThanWellFounded, Zenon DEF OpToRel
  <1>3. PICK j \in S : \A k \in S : ~(<<k, j>> \in Less)
    <2> HIDE DEF Less
    <2> QED BY <1>1, <1>2, WFMin
  <1>4. ASSUME NEW k \in S PROVE j <= k
    <2>1. j \in Nat /\ k \in Nat
      BY <1>1
    <2>2. k < j => <<k, j>> \in Less
      BY <2>1
    <2> QED BY <1>3, <2>1, <2>2
  <1> QED BY <1>4

\* The backlog's indices stay inside pending_connections[], also the one past its end.
LEMMA CirculateType ==
    ASSUME KernelTypeOK, NEW i \in Slots
    PROVE  Circulate(i) \in Slots
  BY NPendingAssumption DEF KernelTypeOK, ServerSocket, Circulate, Slots

LEMMA ClampType ==
    ASSUME NEW n \in BacklogArgs
    PROVE  Clamp(n) \in Slots /\ Clamp(n) > 0
  BY NPendingAssumption, BacklogAssumption DEF Clamp, Slots

\* accept() finds a client that is in the backlog.
LEMMA FoundType ==
    ASSUME KernelTypeOK, NEW head \in Slots, Probed(head) # {}
    PROVE  /\ Found(head) \in Clients
           /\ \E i \in Slots : Found(head) = server.pending[i]
  <1>1. Probed(head) \subseteq Slots
    BY NPendingAssumption DEF Probed, KernelTypeOK, ServerSocket, Slots
  <1>2. \E j \in Probed(head) : \A k \in Probed(head) : j <= k
    BY <1>1, LeastIndex
  <1> DEFINE i == CHOOSE j \in Probed(head) : \A k \in Probed(head) : j <= k
  <1>3. i \in Probed(head)
    BY <1>2
  <1>4. server.pending[i] # NoClient
    BY <1>3 DEF Probed
  <1>5. i \in Slots
    BY <1>1, <1>3
  <1>6. server.pending[i] \in Clients
    BY <1>4, <1>5 DEF KernelTypeOK, ServerSocket
  <1> QED BY <1>5, <1>6 DEF Found

-----------------------------------------------------------------------------
(* The branches of read() and write().                                      *)

LEMMA NewFileType == NewFile \in File
  BY DEF NewFile, File, Actions

LEMMA AfterReadType ==
    ASSUME NEW f \in File
    PROVE  AfterRead(f) \in File
  BY DEF AfterRead, ReadSucceeds, ReadPanics, CanRead, File

LEMMA AfterWriteType ==
    ASSUME NEW f \in File, NEW p \in Packets
    PROVE  AfterWrite(f, p) \in File
  BY DEF AfterWrite, WriteSucceeds, WriteFindsFull, CanWrite, File

LEMMA AfterLargeWriteType ==
    ASSUME NEW f \in File
    PROVE  AfterLargeWrite(f) \in File
  BY DEF AfterLargeWrite, WriteSucceeds, WriteFindsFull, CanWrite, File

-----------------------------------------------------------------------------
LEMMA ServerCallType ==
    ASSUME KernelTypeOK, ServerCall
    PROVE  KernelTypeOK'
  <1>1. CASE sys_socket_server
    <2>1. server' \in ServerSocket /\ server'.max > 0
      BY <1>1, NPendingAssumption DEF sys_socket_server, create_socket_object, ServerSocket, SocketStates, Slots
    <2> QED BY <1>1, <2>1 DEF sys_socket_server, KernelTypeOK
  <1>2. ASSUME NEW n \in BacklogArgs, sys_listen(n) PROVE KernelTypeOK'
    <2>1. server' \in ServerSocket /\ server'.max > 0
      BY <1>2, ClampType DEF sys_listen, KernelTypeOK, ServerSocket
    <2> QED BY <1>2, <2>1 DEF sys_listen, KernelTypeOK
  <1>3. CASE sys_accept
    <2>1. server.head \in Slots
      BY DEF KernelTypeOK, ServerSocket
    <2>2. Circulate(server.head) \in Slots
      BY <2>1, CirculateType
    <2>3. server' \in ServerSocket /\ server'.max > 0
      <3>1. PICK s \in SocketStates :
                server' = [server EXCEPT !.state = s, !.head = Circulate(server.head)]
        BY <1>3 DEF sys_accept, SocketStates
      <3> QED BY <2>2, <3>1 DEF KernelTypeOK, ServerSocket
    <2>4. AcceptSucceeds => AcceptedClient \in Clients
      BY <2>2, FoundType DEF AcceptSucceeds, AcceptedClient
    <2>5. socket' \in [Clients -> SocketStates] /\ slot31' \in Clients \cup {NoClient}
      BY <1>3, <2>4 DEF sys_accept, KernelTypeOK, SocketStates
    <2> QED BY <1>3, <2>3, <2>5 DEF sys_accept, KernelTypeOK
  <1>4. CASE sys_shutdown_server
    <2>1. server' \in ServerSocket /\ server'.max > 0
      BY <1>4 DEF sys_shutdown_server, KernelTypeOK, ServerSocket, SocketStates
    <2> QED BY <1>4, <2>1 DEF sys_shutdown_server, KernelTypeOK
  <1> QED BY <1>1, <1>2, <1>3, <1>4 DEF ServerCall

LEMMA ClientCallType ==
    ASSUME KernelTypeOK, NEW c \in Clients, ClientCall(c)
    PROVE  KernelTypeOK'
  <1>1. CASE sys_socket(c)
    BY <1>1, NewFileType DEF sys_socket, KernelTypeOK, SocketStates
  <1>2. CASE sys_connect(c)
    <2> DEFINE tail == Circulate(server.tail)
    <2>1. server.tail \in Slots
      BY DEF KernelTypeOK, ServerSocket
    <2>2. tail \in Slots
      BY <2>1, CirculateType
    <2>3. server' = [server EXCEPT !.state = "SS_CONNECTING", !.tail = tail, !.pending[tail] = c]
      BY <1>2 DEF sys_connect
    <2> HIDE DEF tail
    <2>4. server' \in ServerSocket /\ server'.max > 0
      BY <2>2, <2>3 DEF KernelTypeOK, ServerSocket, SocketStates
    <2>5. socket' \in [Clients -> SocketStates]
      BY <1>2 DEF sys_connect, KernelTypeOK, SocketStates
    <2> QED BY <1>2, <2>4, <2>5 DEF sys_connect, KernelTypeOK
  <1>3. CASE sys_close(c) \/ sys_socket_shutdown(c)
    BY <1>3 DEF sys_close, sys_socket_shutdown, KernelTypeOK, SocketStates
  <1> QED BY <1>1, <1>2, <1>3 DEF ClientCall

LEMMA FileCallType ==
    ASSUME KernelTypeOK, NEW c \in Clients, FileCall(c)
    PROVE  KernelTypeOK'
  <1>0. file \in [Clients -> File] /\ file[c] \in File
    BY DEF KernelTypeOK
  <1>1. CASE sys_read(c)
    <2>1. file' \in [Clients -> File]
      BY <1>0, <1>1, AfterReadType DEF sys_read
    <2>2. halted' \in BOOLEAN
      BY <1>1 DEF sys_read, ReadPanics
    <2> QED BY <1>1, <2>1, <2>2 DEF sys_read, KernelTypeOK
  <1>2. ASSUME NEW p \in Packets, sys_write(c, p) PROVE KernelTypeOK'
    <2>1. file' \in [Clients -> File]
      BY <1>0, <1>2, AfterWriteType DEF sys_write
    <2> QED BY <1>2, <2>1 DEF sys_write, KernelTypeOK
  <1>3. CASE sys_write_large(c)
    <2>1. file' \in [Clients -> File]
      BY <1>0, <1>3, AfterLargeWriteType DEF sys_write_large
    <2> QED BY <1>3, <2>1 DEF sys_write_large, KernelTypeOK
  <1>4. ASSUME NEW a \in Actions, sys_set_action(c, a) PROVE KernelTypeOK'
    <2>1. file' \in [Clients -> File]
      BY <1>0, <1>4 DEF sys_set_action, File
    <2> QED BY <1>4, <2>1 DEF sys_set_action, KernelTypeOK
  <1>5. CASE sys_reset_wr(c)
    BY <1>5, NewFileType DEF sys_reset_wr, KernelTypeOK
  <1>6. CASE sys_reset_rd(c)
    <2>1. file' \in [Clients -> File]
      BY <1>0, <1>6 DEF sys_reset_rd, File, Actions
    <2> QED BY <1>6, <2>1 DEF sys_reset_rd, KernelTypeOK
  <1> QED BY <1>1, <1>2, <1>3, <1>4, <1>5, <1>6 DEF FileCall

LEMMA KernelStepType == KernelTypeOK /\ [KernelNext]_kernelVars => KernelTypeOK'
  <1> SUFFICES ASSUME KernelTypeOK, [KernelNext]_kernelVars PROVE KernelTypeOK'
    OBVIOUS
  <1>1. CASE UNCHANGED kernelVars
    BY <1>1 DEF kernelVars, KernelTypeOK
  <1> QED BY <1>1, ServerCallType, ClientCallType, FileCallType DEF KernelNext

LEMMA KernelInitType == KernelInit => KernelTypeOK
  <1> SUFFICES ASSUME KernelInit PROVE KernelTypeOK
    OBVIOUS
  <1>1. server \in ServerSocket /\ server.max > 0
    BY NPendingAssumption DEF KernelInit, create_socket_object, ServerSocket, SocketStates, Slots
  <1> QED BY <1>1, NewFileType DEF KernelInit, KernelTypeOK, SocketStates

\* Every sequence of socket calls keeps the types of the kernel's tables; in particular
\* accept(), which looks one entry past the backlog, stays inside pending_connections[].
THEOREM KernelTypeCorrect == KernelSpec => []KernelTypeOK
  BY KernelInitType, KernelStepType, PTL DEF KernelSpec

-----------------------------------------------------------------------------
LEMMA ServerCallFull ==
    ASSUME FullIsReadable, ServerCall
    PROVE  FullIsReadable'
  BY DEF ServerCall, sys_socket_server, sys_listen, sys_accept, sys_shutdown_server, FullIsReadable

LEMMA ClientCallFull ==
    ASSUME KernelTypeOK, FullIsReadable, NEW c \in Clients, ClientCall(c)
    PROVE  FullIsReadable'
  <1>1. CASE sys_socket(c)
    BY <1>1 DEF sys_socket, KernelTypeOK, FullIsReadable, NewFile
  <1>2. CASE UNCHANGED file
    BY <1>2 DEF FullIsReadable
  <1> QED BY <1>1, <1>2 DEF ClientCall, sys_connect, sys_close, sys_socket_shutdown

LEMMA FileCallFull ==
    ASSUME KernelTypeOK, FullIsReadable, NEW c \in Clients, FileCall(c)
    PROVE  FullIsReadable'
  <1>0. file \in [Clients -> File] /\ file[c] \in File /\ (file[c].full => file[c].flags = {"__SRD"})
    BY DEF KernelTypeOK, FullIsReadable
  <1>1. ASSUME NEW f, file' = [file EXCEPT ![c] = f], f.full => f.flags = {"__SRD"}
        PROVE  FullIsReadable'
    BY <1>0, <1>1 DEF FullIsReadable
  <1>2. CASE sys_read(c)
    <2>1. AfterRead(file[c]).full => AfterRead(file[c]).flags = {"__SRD"}
      BY <1>0 DEF AfterRead, ReadSucceeds, ReadPanics, CanRead, File
    <2> QED BY <1>1, <1>2, <2>1 DEF sys_read
  <1>3. ASSUME NEW p \in Packets, sys_write(c, p) PROVE FullIsReadable'
    <2>1. AfterWrite(file[c], p).full => AfterWrite(file[c], p).flags = {"__SRD"}
      BY <1>0 DEF AfterWrite, WriteSucceeds, WriteFindsFull, CanWrite, File
    <2> QED BY <1>1, <1>3, <2>1 DEF sys_write
  <1>4. CASE sys_write_large(c)
    <2>1. AfterLargeWrite(file[c]).full => AfterLargeWrite(file[c]).flags = {"__SRD"}
      BY <1>0 DEF AfterLargeWrite, WriteSucceeds, WriteFindsFull, CanWrite, File
    <2> QED BY <1>1, <1>4, <2>1 DEF sys_write_large
  <1>5. ASSUME NEW a \in Actions, sys_set_action(c, a) PROVE FullIsReadable'
    BY <1>0, <1>5 DEF sys_set_action, FullIsReadable, File
  <1>6. CASE sys_reset_wr(c)
    <2>1. ~NewFile.full
      BY DEF NewFile
    <2> QED BY <1>1, <1>6, <2>1 DEF sys_reset_wr
  <1>7. CASE sys_reset_rd(c)
    BY <1>0, <1>7 DEF sys_reset_rd, FullIsReadable, File
  <1> QED BY <1>2, <1>3, <1>4, <1>5, <1>6, <1>7 DEF FileCall

\* Whatever the programs do, the buffer of a socket is never full and writable at the
\* same time: the branch of __write_imp() that wakes a reader is dead code.
THEOREM FullNeverWritable == KernelSpec => []FullIsReadable
  <1>1. KernelInit => FullIsReadable
    BY DEF KernelInit, NewFile, FullIsReadable
  <1>2. KernelTypeOK /\ FullIsReadable /\ [KernelNext]_kernelVars => FullIsReadable'
    <2> SUFFICES ASSUME KernelTypeOK, FullIsReadable, [KernelNext]_kernelVars PROVE FullIsReadable'
      OBVIOUS
    <2>1. CASE UNCHANGED kernelVars
      BY <2>1 DEF kernelVars, FullIsReadable
    <2> QED BY <2>1, ServerCallFull, ClientCallFull, FileCallFull DEF KernelNext
  <1> QED BY <1>1, <1>2, KernelTypeCorrect, PTL DEF KernelSpec
=============================================================================
