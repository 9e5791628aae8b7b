--------------------------- MODULE Network_proofs ---------------------------
(***************************************************************************)
(* Proofs about the network stack on its card, for rings of any length,    *)
(* any number of addresses and frames in flight, and any other hosts.      *)
(***************************************************************************)
EXTENDS Network, E1000_proofs

\* What the kind of a frame says about its other fields.
LEMMA FrameFacts ==
    ASSUME NEW f \in Frames
    PROVE  /\ f.kind \in {"offer", "ack"} => f.ip \in Addresses
           /\ f.kind \in {"arp_request", "g:0", "g:4"} => f.host = Peer
           /\ f.kind = "request" => f.ip \in Addresses
           /\ f # NoFrame
  <1>1. f \in AllFrames /\ f # NoFrame
    BY FramesAssumption, NoFrameAssumption
  <1>2. CASE f \in ServerFrames \cup OtherClientFrames
    BY <1>1, <1>2 DEF ServerFrames, OtherClientFrames, Frame
  <1>3. CASE f \in PeerRequests
    BY <1>1, <1>3 DEF PeerRequests, Frame
  <1>4. CASE f \in OwnRequests
    BY <1>1, <1>4 DEF OwnRequests, Frame
  <1>5. CASE f \in OwnAnswers
    BY <1>1, <1>5 DEF OwnAnswers, Frame
  <1> QED BY <1>1, <1>2, <1>3, <1>4, <1>5 DEF AllFrames

LEMMA OwnFrames ==
    ASSUME NEW a \in Addresses
    PROVE  /\ Frame("request", Me, a) \in Frames
           /\ Frame("offer", Me, a) \in Frames /\ Frame("ack", Me, a) \in Frames
  <1>1. Frame("request", Me, a) \in AllFrames
    BY DEF AllFrames, OwnRequests
  <1>2. Frame("offer", Me, a) \in AllFrames /\ Frame("ack", Me, a) \in AllFrames
    BY DEF AllFrames, ServerFrames
  <1> QED BY <1>1, <1>2, FramesAssumption

\* Requests that need no address.
LEMMA FirstFrames ==
    /\ Frame("discover", Me, NoAddress) \in Frames
    /\ Frame("arp_request", Peer, NoAddress) \in Frames
  BY FramesAssumption DEF AllFrames, OwnRequests

\* The protocol handlers answer with a frame of theirs, or not at all.
LEMMA HandlerFrames ==
    ASSUME TypeOK, NEW f \in Frames
    PROVE  network_handle_ethernet(f) \in Frames \cup {NoFrame}
  <1>0. your_ipv4 \in Addresses \cup {NoAddress}
    BY DEF TypeOK
  <1>1. network_handle_dhcp(f) \in Frames \cup {NoFrame}
    BY FrameFacts, OwnFrames DEF network_handle_dhcp
  <1>2. ASSUME f.kind \in {"arp_request", "g:0", "g:4"}
        PROVE  /\ Frame("arp_reply", f.host, your_ipv4) \in Frames
               /\ Frame("g:1", f.host, your_ipv4) \in Frames
               /\ Frame("g:0", f.host, your_ipv4) \in Frames
    BY <1>0, <1>2, FrameFacts, FramesAssumption DEF AllFrames, OwnAnswers
  <1>3. network_handle_arp(f) \in Frames \cup {NoFrame}
    BY <1>2 DEF network_handle_arp
  <1>4. __handle_gprotocol(f) \in Frames \cup {NoFrame}
    BY <1>2 DEF __handle_gprotocol
  <1> QED BY <1>1, <1>3, <1>4 DEF network_handle_ethernet, network_handle_udp

-----------------------------------------------------------------------------
(* The stack uses the card as the driver's specification says.              *)

\* A descriptor that is full, and the one whose frame is handled, hold a frame.
HoldsFrame ==
    /\ \A i \in RxSlots : rxDD[i] => rx[i] # NoFrame
    /\ at = "handle" => rx[old] # NoFrame

LEMMA HoldsInit == NicInit => HoldsFrame
  BY DEF NicInit, HoldsFrame

LEMMA HoldsStep == NicTypeOK /\ HoldsFrame /\ [NicNext]_nicVars => HoldsFrame'
  <1> SUFFICES ASSUME NicTypeOK, HoldsFrame, [NicNext]_nicVars PROVE HoldsFrame'
    OBVIOUS
  <1> USE DEF HoldsFrame, NicTypeOK, rxVars, txVars
  <1>1. CASE UNCHANGED nicVars
    BY <1>1 DEF nicVars
  <1>2. CASE CardSends \/ CardLinks
    BY <1>2 DEF CardSends, CardLinks
  <1>3. ASSUME NEW f \in Frames, CardStores(f) PROVE HoldsFrame'
    BY <1>3, NoFrameAssumption DEF CardStores
  <1>4. CASE irq_E1000 \/ DeviceInterface_e1000 \/ RxDone
    BY <1>4 DEF irq_E1000, DeviceInterface_e1000, RxDone
  <1>5. CASE RxTake
    BY <1>5 DEF RxTake
  <1>6. CASE SendDone
    BY <1>6 DEF SendDone
  <1>7. ASSUME NEW reply, RxHandle(reply) PROVE HoldsFrame'
    BY <1>7 DEF RxHandle, e1000hw_send
  <1>8. ASSUME NEW f \in Frames, SysSend(f) PROVE HoldsFrame'
    BY <1>8 DEF SysSend, e1000hw_send
  <1> QED BY <1>1, <1>2, <1>3, <1>4, <1>5, <1>6, <1>7, <1>8 DEF NicNext, Card, Driver

LEMMA StackIsNic == TypeOK /\ HoldsFrame /\ [Next]_vars => [NicNext]_nicVars
  <1> SUFFICES ASSUME TypeOK, HoldsFrame, [Next]_vars PROVE [NicNext]_nicVars
    OBVIOUS
  <1> USE DEF NicNext, Card
  <1>1. CASE UNCHANGED vars
    BY <1>1 DEF vars
  <1>2. CASE DriverStep
    BY <1>2 DEF DriverStep
  <1>3. CASE network_on_receiving
    <2>1. rx[old] \in Frames
      BY <1>3 DEF network_on_receiving, RxHandle, HoldsFrame, TypeOK, NicTypeOK
    <2> QED BY <1>3, <2>1, HandlerFrames DEF network_on_receiving
  <1>4. CASE networkLock \/ networkUnlock
    BY <1>4 DEF networkLock, networkUnlock
  <1>5. CASE network_initialize_dhcp \/ network_send_arp_request
    BY <1>5, FirstFrames DEF network_initialize_dhcp, network_send_arp_request
  <1>6. CASE network_test_udp
    <2>1. Frame("udp", Peer, your_ipv4) \in Frames
      BY FramesAssumption DEF TypeOK, AllFrames, OwnAnswers
    <2> QED BY <1>6, <2>1 DEF network_test_udp
  <1>7. CASE Transmit \/ LinkChanges
    BY <1>7 DEF Transmit, LinkChanges
  <1>8. CASE PeerSends \/ Lose
    BY <1>8 DEF PeerSends, Lose
  <1>9. ASSUME NEW f \in net, Deliver(f) PROVE [NicNext]_nicVars
    BY <1>9 DEF Deliver, TypeOK
  <1> QED BY <1>1, <1>2, <1>3, <1>4, <1>5, <1>6, <1>7, <1>8, <1>9 DEF Next, SystemCall, Environment

\* What the DHCP server sends is a frame for this host.
LEMMA AnswerFacts ==
    ASSUME NEW f \in Frames \cup {NoFrame}, NEW answer \in ServerAnswers(f)
    PROVE  answer \in Frames /\ answer.kind \in {"offer", "ack"} /\ answer.ip \in Addresses
  <1>1. f # NoFrame /\ f \in Frames
    BY DEF ServerAnswers
  <1>2. CASE f.kind = "discover"
    <2>1. PICK a \in Addresses : answer = Frame("offer", Me, a)
      BY <1>1, <1>2 DEF ServerAnswers
    <2> QED BY <2>1, OwnFrames DEF Frame
  <1>3. CASE f.kind = "request"
    <2>1. answer = Frame("ack", Me, f.ip) /\ f.ip \in Addresses
      BY <1>1, <1>3, FrameFacts DEF ServerAnswers
    <2> QED BY <2>1, OwnFrames DEF Frame
  <1> QED BY <1>1, <1>2, <1>3 DEF ServerAnswers

LEMMA StackTypeStep == TypeOK /\ HoldsFrame /\ [Next]_vars => TypeOK'
  <1> SUFFICES ASSUME TypeOK, HoldsFrame, [Next]_vars PROVE TypeOK'
    OBVIOUS
  <1>0. NicTypeOK'
    BY StackIsNic, TypeStep DEF TypeOK
  <1> USE <1>0 DEF TypeOK, stackVars, netVars
  <1>1. CASE UNCHANGED vars
    BY <1>1 DEF vars
  <1>2. CASE DriverStep
    BY <1>2 DEF DriverStep
  <1>3. CASE network_on_receiving
    <2>1. rx[old] \in Frames
      BY <1>3 DEF network_on_receiving, RxHandle, HoldsFrame, NicTypeOK
    <2>2. your_ipv4' \in Addresses \cup {NoAddress} /\ overheard' \subseteq Addresses
      BY <1>3, <2>1, FrameFacts DEF network_on_receiving, TakesAddress
    <2>3. initialized' \in BOOLEAN /\ lossy' \in BOOLEAN
      BY <1>3, Zenon DEF network_on_receiving
    <2> QED BY <1>3, <2>2, <2>3 DEF network_on_receiving
  <1>4. CASE networkLock \/ networkUnlock
    BY <1>4 DEF networkLock, networkUnlock
  <1>5. CASE network_initialize_dhcp \/ network_send_arp_request \/ network_test_udp
    BY <1>5 DEF network_initialize_dhcp, network_send_arp_request, network_test_udp
  <1>6. CASE Transmit
    <2>1. tx[TDH] \in Frames \cup {NoFrame}
      BY DEF NicTypeOK
    <2>2. lossy' \in BOOLEAN
      BY <1>6, Zenon DEF Transmit
    <2>3. net' \subseteq Frames /\ acked' \subseteq Addresses
      BY <1>6, <2>1, AnswerFacts DEF Transmit
    <2> QED BY <1>6, <2>2, <2>3 DEF Transmit
  <1>7. CASE PeerSends
    BY <1>7, FramesAssumption DEF PeerSends
  <1>8. CASE Lose
    BY <1>8 DEF Lose
  <1>9. CASE LinkChanges
    BY <1>9 DEF LinkChanges
  <1>10. ASSUME NEW f \in net, Deliver(f) PROVE TypeOK'
    <2>1. lossy' \in BOOLEAN
      BY <1>10, Zenon DEF Deliver
    <2> QED BY <1>10, <2>1 DEF Deliver
  <1> QED BY <1>1, <1>2, <1>3, <1>4, <1>5, <1>6, <1>7, <1>8, <1>9, <1>10 DEF Next, SystemCall, Environment

LEMMA StackInit == Init => TypeOK /\ HoldsFrame /\ NicInit
  BY TypeInit, HoldsInit DEF Init, TypeOK

LEMMA StackStep == TypeOK /\ HoldsFrame /\ [Next]_vars => (TypeOK /\ HoldsFrame)'
  BY StackTypeStep, StackIsNic, HoldsStep DEF TypeOK

\* The handlers of network_on_receiving() and the senders keep the types of the stack.
THEOREM StackTypeCorrect == Spec => []TypeOK
  <1> QED BY StackInit, StackStep, PTL DEF Spec

\* The protocols use the card only as E1000 says, so that everything proved of the driver
\* under any handler holds of the stack: they answer at most one frame to each they get.
THEOREM StackUsesCard == Spec => NicSpec
  <1>1. TypeOK /\ HoldsFrame /\ [Next]_vars => [NicNext]_nicVars
    BY StackIsNic
  <1> QED BY <1>1, StackInit, StackStep, PTL DEF Spec, NicSpec

-----------------------------------------------------------------------------
(* The address of the host.                                                 *)

\* An acknowledgement to this host on its way to the handler was sent by the server.
AckIsMine(f) == f # NoFrame /\ f.kind = "ack" /\ f.host = Me => f.ip \in acked
AcksAreMine == (\A f \in net : AckIsMine(f)) /\ (\A i \in RxSlots : AckIsMine(rx[i]))

AddressInv == AcksAreMine /\ AddressAcknowledged /\ AnswersAcknowledged

\* No one but the server acknowledges an address to this host.
LEMMA PeersAckOthers ==
    ASSUME NEW f \in PeerFrames
    PROVE  AckIsMine(f)
  <1>1. f \in AllFrames \ ServerFrames
    BY FramesAssumption
  <1>2. CASE f \in OtherClientFrames
    BY <1>2, HostsAssumption DEF OtherClientFrames, Frame, AckIsMine
  <1>3. CASE f \in PeerRequests
    BY <1>3 DEF PeerRequests, Frame, AckIsMine
  <1>4. CASE f \in OwnRequests
    BY <1>4 DEF OwnRequests, Frame, AckIsMine
  <1>5. CASE f \in OwnAnswers
    BY <1>5 DEF OwnAnswers, Frame, AckIsMine
  <1> QED BY <1>1, <1>2, <1>3, <1>4, <1>5 DEF AllFrames

LEMMA AddressInit == Init => AddressInv
  BY DEF Init, NicInit, AddressInv, AcksAreMine, AckIsMine, AddressAcknowledged, AnswersAcknowledged

\* The transmit ring holds what it held, blanks, and the frame that was sent.
LEMMA SendKeeps ==
    ASSUME TypeOK, AnswersAcknowledged, NEW f, NEW b, e1000hw_send(f, b),
           acked \subseteq acked', overheard \subseteq overheard',
           f.kind \in {"arp_reply", "g:0", "g:1"} => f.ip \in acked' \cup overheard'
    PROVE  AnswersAcknowledged'
  BY DEF TypeOK, NicTypeOK, AnswersAcknowledged, e1000hw_send

LEMMA HandlerAddress ==
    ASSUME AddressAcknowledged, NEW f, network_handle_ethernet(f) # NoFrame,
           network_handle_ethernet(f).kind \in {"arp_reply", "g:0", "g:1"}
    PROVE  network_handle_ethernet(f).ip \in acked \cup overheard
  BY DEF network_handle_ethernet, network_handle_udp, network_handle_dhcp, network_handle_arp,
         __handle_gprotocol, Frame, AddressAcknowledged

LEMMA AddressStep == TypeOK /\ HoldsFrame /\ AddressInv /\ [Next]_vars => AddressInv'
  <1> SUFFICES ASSUME TypeOK, HoldsFrame, AddressInv, [Next]_vars PROVE AddressInv'
    OBVIOUS
  <1>0. AcksAreMine /\ AddressAcknowledged /\ AnswersAcknowledged /\ NicTypeOK
    BY DEF AddressInv, TypeOK
  <1>1. ASSUME UNCHANGED <<rx, tx, your_ipv4, net, acked, overheard>>, initialized' => initialized
        PROVE  AddressInv'
    BY <1>0, <1>1 DEF AddressInv, AcksAreMine, AckIsMine, AddressAcknowledged, AnswersAcknowledged
  <1>2. CASE UNCHANGED vars
    BY <1>1, <1>2 DEF vars, nicVars, rxVars, txVars, stackVars, netVars
  <1>3. CASE DriverStep
    BY <1>1, <1>3 DEF DriverStep, Driver, irq_E1000, DeviceInterface_e1000, RxTake, RxDone, SendDone,
                      rxVars, txVars, stackVars, netVars
  <1>4. CASE networkLock \/ networkUnlock \/ LinkChanges
    BY <1>1, <1>4 DEF networkLock, networkUnlock, LinkChanges, CardLinks, nicVars, rxVars, txVars,
                      stackVars, netVars
  <1>5. CASE network_on_receiving
    <2> DEFINE f == rx[old]
               reply == network_handle_ethernet(f)
    <2>1. f \in Frames /\ old \in RxSlots /\ f # NoFrame
      BY <1>5 DEF network_on_receiving, RxHandle, HoldsFrame, TypeOK, NicTypeOK
    <2>2. /\ RxHandle(reply) /\ net' = net /\ acked' = acked
          /\ overheard \subseteq overheard'
      BY <1>5 DEF network_on_receiving
    <2>3. AcksAreMine'
      BY <1>0, <2>2 DEF AcksAreMine, AckIsMine, RxHandle, NicTypeOK
    <2>4. AddressAcknowledged'
      <3>1. CASE ~locked /\ TakesAddress(f)
        <4>1. your_ipv4' = f.ip /\ f.kind = "ack"
          BY <1>5, <3>1 DEF network_on_receiving, TakesAddress
        <4>2. CASE f.host = Me
          <5>1. f.ip \in acked
            BY <1>0, <2>1, <4>1, <4>2 DEF AcksAreMine, AckIsMine
          <5> QED BY <2>2, <4>1, <5>1 DEF AddressAcknowledged
        <4>3. CASE f.host # Me
          <5>1. f.ip \in overheard'
            BY <1>5, <3>1, <4>3 DEF network_on_receiving
          <5> QED BY <4>1, <5>1 DEF AddressAcknowledged
        <4> QED BY <4>2, <4>3
      <3>2. CASE ~(~locked /\ TakesAddress(f))
        BY <1>0, <1>5, <2>2, <3>2 DEF network_on_receiving, AddressAcknowledged
      <3> QED BY <3>1, <3>2
    <2>5. CASE reply = NoFrame
      BY <1>0, <2>2, <2>3, <2>4, <2>5 DEF RxHandle, txVars, AddressInv, AnswersAcknowledged
    <2>6. CASE reply # NoFrame
      <3>1. e1000hw_send(reply, "loop")
        BY <2>2, <2>6 DEF RxHandle
      <3>2. reply.kind \in {"arp_reply", "g:0", "g:1"} => reply.ip \in acked' \cup overheard'
        BY <1>0, <2>2, <2>6, HandlerAddress
      <3> HIDE DEF reply
      <3> QED BY <1>0, <2>2, <2>3, <2>4, <3>1, <3>2, SendKeeps DEF AddressInv
    <2> QED BY <2>5, <2>6
  <1>6. ASSUME NEW f, SysSend(f), f.kind \notin {"arp_reply", "g:0", "g:1"},
               UNCHANGED <<your_ipv4, net, acked, overheard>>, initialized' => initialized
        PROVE  AddressInv'
    <2>1. AcksAreMine'
      BY <1>0, <1>6 DEF SysSend, rxVars, AcksAreMine, AckIsMine
    <2>2. AddressAcknowledged'
      BY <1>0, <1>6 DEF AddressAcknowledged
    <2> QED BY <1>0, <1>6, <2>1, <2>2, SendKeeps DEF SysSend, AddressInv
  <1>7. CASE network_initialize_dhcp
    BY <1>6, <1>7 DEF network_initialize_dhcp, Frame
  <1>8. CASE network_send_arp_request
    BY <1>6, <1>8 DEF network_send_arp_request, Frame, stackVars, netVars
  <1>9. CASE network_test_udp
    BY <1>6, <1>9 DEF network_test_udp, Frame, stackVars, netVars
  <1>10. CASE Transmit
    <2>1. /\ acked \subseteq acked' /\ overheard' = overheard
          /\ \A f \in net' : f \in net \/ (f.kind = "ack" => f.ip \in acked')
      BY <1>10 DEF Transmit
    <2>2. UNCHANGED <<rx, initialized, your_ipv4>> /\ tx' = [tx EXCEPT ![TDH] = NoFrame]
      BY <1>10 DEF Transmit, CardSends, rxVars, stackVars
    <2>3. AcksAreMine'
      BY <1>0, <2>1, <2>2 DEF AcksAreMine, AckIsMine
    <2> QED BY <1>0, <2>1, <2>2, <2>3 DEF AddressInv, AddressAcknowledged, AnswersAcknowledged, NicTypeOK
  <1>11. CASE PeerSends
    <2>1. UNCHANGED <<rx, tx, initialized, your_ipv4, acked, overheard>>
      BY <1>11 DEF PeerSends, nicVars, rxVars, txVars, stackVars
    <2>2. \A f \in net' : AckIsMine(f)
      BY <1>0, <1>11, PeersAckOthers DEF PeerSends, AcksAreMine
    <2>3. AcksAreMine'
      BY <1>0, <2>1, <2>2 DEF AcksAreMine, AckIsMine
    <2> QED BY <1>0, <2>1, <2>3 DEF AddressInv, AddressAcknowledged, AnswersAcknowledged
  <1>12. CASE Lose
    BY <1>0, <1>12 DEF Lose, nicVars, rxVars, txVars, stackVars, AddressInv, AcksAreMine, AckIsMine,
                       AddressAcknowledged, AnswersAcknowledged
  <1>13. ASSUME NEW f \in net, Deliver(f) PROVE AddressInv'
    <2>1. UNCHANGED <<tx, initialized, your_ipv4, acked, overheard>> /\ net' \subseteq net
      BY <1>13 DEF Deliver, CardStores, txVars, stackVars
    <2>2. rx' = rx \/ rx' = [rx EXCEPT ![RDH] = f]
      BY <1>13 DEF Deliver, CardStores
    <2>3. AcksAreMine'
      BY <1>0, <2>1, <2>2 DEF AcksAreMine, AckIsMine, NicTypeOK
    <2> QED BY <1>0, <2>1, <2>3 DEF AddressInv, AddressAcknowledged, AnswersAcknowledged
  <1> QED BY <1>2, <1>3, <1>4, <1>5, <1>7, <1>8, <1>9, <1>10, <1>11, <1>12, <1>13
          DEF Next, SystemCall, Environment

\* However the network loses, repeats and reorders, however often the dialogue starts again
\* and whatever other hosts send and are sent, the host has no address, and answers ARP and
\* "g:" requests with none, but one that the server acknowledged to it or that it took from
\* an acknowledgement for another host.
THEOREM AddressAlwaysAcknowledged == Spec => [](AddressAcknowledged /\ AnswersAcknowledged)
  <1>1. Init => TypeOK /\ HoldsFrame /\ AddressInv
    BY StackInit, AddressInit
  <1>2. TypeOK /\ HoldsFrame /\ AddressInv /\ [Next]_vars => (TypeOK /\ HoldsFrame /\ AddressInv)'
    BY StackStep, AddressStep
  <1>3. AddressInv => AddressAcknowledged /\ AnswersAcknowledged
    BY DEF AddressInv
  <1> QED BY <1>1, <1>2, <1>3, PTL DEF Spec
=============================================================================
