------------------------------ MODULE Network ------------------------------
(* The network stack of the kernel (kres/net/network.c, kres/net/prot/) on   *)
(* the driver of the card: DHCP, ARP and the "g:" protocol over UDP.         *)
(*                                                                           *)
(* Frames are handled inside the interrupt.  The network around the host is  *)
(* external: it loses, duplicates and reorders frames, a DHCP server answers *)
(* this host, and other hosts send what they like.  What the server sends to *)
(* its other clients reaches this host too.                                  *)
EXTENDS E1000, FiniteSets

CONSTANTS
    Me, Peer,       \* this host, another host
    Addresses,      \* the IPv4 addresses that the DHCP server gives
    NoAddress,      \* 0.0.0.0
    PeerFrames,     \* what is sent by other hosts, and to them, that this host sees
    MaxInFlight     \* bound: frames on their way to this host

\* A frame: its protocol and message, the other host (or, for DHCP, the client the
\* message is about), and an IPv4 address.
Frame(kind, host, ip) == [kind |-> kind, host |-> host, ip |-> ip]

ServerFrames == {Frame(k, Me, a) : k \in {"offer", "ack"}, a \in Addresses}
OtherClientFrames == {Frame(k, Peer, a) : k \in {"offer", "ack"}, a \in Addresses}
PeerRequests == {Frame(k, Peer, NoAddress) : k \in {"arp_request", "g:0", "g:4"}}
OwnRequests == {Frame("discover", Me, NoAddress), Frame("arp_request", Peer, NoAddress)}
               \cup {Frame("request", Me, a) : a \in Addresses}
OwnAnswers == {Frame(k, Peer, a) : k \in {"arp_reply", "g:0", "g:1", "udp"}, a \in Addresses \cup {NoAddress}}
AllFrames == ServerFrames \cup OtherClientFrames \cup PeerRequests \cup OwnRequests \cup OwnAnswers

ASSUME HostsAssumption == Me # Peer /\ NoAddress \notin Addresses
ASSUME FramesAssumption == AllFrames = Frames /\ PeerFrames \subseteq Frames \ ServerFrames
ASSUME InFlightAssumption == MaxInFlight \in Nat

VARIABLES
    locked,         \* NetworkInitialization.locked
    initialized,    \* dhcp_info.initialized
    your_ipv4,      \* dhcp_info.your_ipv4
    net,            \* frames on their way to this host
    acked,          \* history: the addresses that the server acknowledged to this host
    overheard,      \* history: those this host took from an acknowledgement for another
    lossy           \* history: a frame was lost since the last DORA_D

stackVars == <<locked, initialized, your_ipv4>>
netVars == <<net, acked, overheard, lossy>>
vars == <<nicVars, stackVars, netVars>>

-----------------------------------------------------------------------------
(* The protocol handlers: the frame each of them sends in answer to frame f. *)

\* Mutant: the offer is taken for the end of the dialogue.
network_handle_dhcpSilent(f) == IF f.kind = "discover" THEN Frame("request", Me, f.ip) ELSE NoFrame

\* An offer is answered with a request for the offered address.
network_handle_dhcp(f) == IF f.kind = "offer" THEN Frame("request", Me, f.ip) ELSE NoFrame

\* network_send_arp_reply(): whatever address was asked for, with the address of this
\* host, once it has one.
network_handle_arp(f) ==
    IF f.kind = "arp_request" /\ initialized THEN Frame("arp_reply", f.host, your_ipv4) ELSE NoFrame

\* "g:0" is a request, "g:4" asks to disconnect.
__handle_gprotocol(f) ==
    IF ~initialized THEN NoFrame
    ELSE IF f.kind = "g:0" THEN Frame("g:1", f.host, your_ipv4)
    ELSE IF f.kind = "g:4" THEN Frame("g:0", f.host, your_ipv4)
    ELSE NoFrame

\* network_handle_ipv4() and network_handle_udp(): the port selects the handler.
network_handle_udp(f) ==
    IF f.kind \in {"discover", "offer", "request", "ack", "decline"} THEN network_handle_dhcp(f)
    ELSE IF f.kind \in {"g:0", "g:1", "g:4"} THEN __handle_gprotocol(f)
    ELSE NoFrame

\* A locked network drops what it receives.
network_handle_ethernet(f) ==
    IF locked THEN NoFrame
    ELSE IF f.kind \in {"arp_request", "arp_reply"} THEN network_handle_arp(f)
    ELSE network_handle_udp(f)

\* Mutant: an offer is enough.
TakesOffer(f) == f.kind \in {"offer", "ack"}

\* The frames that give this host its address: neither the transaction nor the client
\* of the message is looked at.
TakesAddress(f) == f.kind = "ack"

network_on_receiving ==
    LET f == rx[old]
        takes == ~locked /\ TakesAddress(f)
    IN
    /\ RxHandle(network_handle_ethernet(f))
    /\ initialized' = (initialized \/ takes)
    /\ your_ipv4' = IF takes THEN f.ip ELSE your_ipv4
    /\ overheard' = IF takes /\ f.host # Me THEN overheard \cup {f.ip} ELSE overheard
    /\ lossy' = (lossy \/ locked)
    /\ UNCHANGED <<locked, net, acked>>

-----------------------------------------------------------------------------
(* System calls 22001 and 22003, and the console commands of the same names. *)

networkLock ==
    /\ at = "out"
    /\ locked' = TRUE
    /\ UNCHANGED <<nicVars, initialized, your_ipv4, netVars>>

networkUnlock ==
    /\ at = "out"
    /\ locked' = FALSE
    /\ UNCHANGED <<nicVars, initialized, your_ipv4, netVars>>

\* A new dialogue forgets that there was an address, not the address.
network_initialize_dhcp ==
    /\ SysSend(Frame("discover", Me, NoAddress))
    /\ initialized' = FALSE
    /\ lossy' = FALSE
    /\ UNCHANGED <<locked, your_ipv4, net, acked, overheard>>

network_send_arp_request ==
    /\ SysSend(Frame("arp_request", Peer, NoAddress))
    /\ UNCHANGED <<stackVars, netVars>>

\* Sends with the address of the last dialogue, or 0.0.0.0.
network_test_udp ==
    /\ SysSend(Frame("udp", Peer, your_ipv4))
    /\ UNCHANGED <<stackVars, netVars>>

-----------------------------------------------------------------------------
(* The network (external).                                                  *)

\* What the DHCP server sends when it sees frame f.
ServerAnswers(f) ==
    IF f = NoFrame THEN {}
    ELSE IF f.kind = "discover" THEN {Frame("offer", Me, a) : a \in Addresses}
    ELSE IF f.kind = "request" THEN {Frame("ack", Me, f.ip)}
    ELSE {}

\* The card sends a frame, and the server answers or does not.
Transmit ==
    LET f == tx[TDH]
    IN
    /\ CardSends
    /\ \/ /\ ServerAnswers(f) # {} /\ Cardinality(net) < MaxInFlight
          /\ \E answer \in ServerAnswers(f) :
                /\ net' = net \cup {answer}
                /\ acked' = IF answer.kind = "ack" THEN acked \cup {answer.ip} ELSE acked
          /\ UNCHANGED lossy
       \/ /\ lossy' = (lossy \/ ServerAnswers(f) # {})
          /\ UNCHANGED <<net, acked>>
    /\ UNCHANGED <<stackVars, overheard>>

PeerSends ==
    /\ Cardinality(net) < MaxInFlight
    /\ \E f \in PeerFrames : net' = net \cup {f}
    /\ UNCHANGED <<nicVars, stackVars, acked, overheard, lossy>>

\* A frame reaches the card, for the last time or not.
Deliver(f) ==
    /\ f \in net
    /\ CardStores(f)
    /\ net' \in {net, net \ {f}}
    /\ lossy' = (lossy \/ RDH = RDT)
    /\ UNCHANGED <<stackVars, acked, overheard>>

Lose ==
    /\ \E f \in net : net' = net \ {f}
    /\ lossy' = TRUE
    /\ UNCHANGED <<nicVars, stackVars, acked, overheard>>

LinkChanges == CardLinks /\ UNCHANGED <<stackVars, netVars>>

DriverStep == Driver /\ UNCHANGED <<stackVars, netVars>>

-----------------------------------------------------------------------------
\* networkInit(): the network starts locked, until a program unlocks it.
Init ==
    /\ NicInit
    /\ locked = TRUE /\ initialized = FALSE /\ your_ipv4 = NoAddress
    /\ net = {} /\ acked = {} /\ overheard = {} /\ lossy = FALSE

SystemCall ==
    \/ networkLock \/ networkUnlock
    \/ network_initialize_dhcp \/ network_send_arp_request \/ network_test_udp

Environment ==
    \/ Transmit \/ PeerSends \/ Lose \/ LinkChanges
    \/ \E f \in net : Deliver(f)

Next == DriverStep \/ network_on_receiving \/ SystemCall \/ Environment

Spec == Init /\ [][Next]_vars

\* The driver's code runs on.  A pending interrupt is taken when the interrupts are
\* enabled again, before the next system call.  The card sends, and the network delivers
\* what it does not lose.
Fairness ==
    /\ SF_vars(irq_E1000 /\ UNCHANGED <<stackVars, netVars>>)
    /\ WF_vars(at # "out" /\ (DriverStep \/ network_on_receiving))
    /\ WF_vars(Transmit)
    /\ WF_vars(\E f \in net \cap ServerFrames : Deliver(f))

FairSpec == Spec /\ Fairness

-----------------------------------------------------------------------------
\* Type invariant.
TypeOK ==
    /\ NicTypeOK
    /\ locked \in BOOLEAN /\ initialized \in BOOLEAN
    /\ your_ipv4 \in Addresses \cup {NoAddress}
    /\ net \subseteq Frames
    /\ acked \subseteq Addresses /\ overheard \subseteq Addresses
    /\ lossy \in BOOLEAN

\* The address of the host was acknowledged: to this host, or to another one and this
\* host took it.  Offers, frames lost, repeated and reordered, and dialogues started again
\* bring in no other.
AddressAcknowledged == initialized => your_ipv4 \in acked \cup overheard

\* ARP and the "g:" protocol answer with no other address.
AnswersAcknowledged ==
    \A i \in TxSlots :
        tx[i] # NoFrame /\ tx[i].kind \in {"arp_reply", "g:0", "g:1"} => tx[i].ip \in acked \cup overheard

\* The host has no address that was not acknowledged to it.
AddressIsMine == initialized => your_ipv4 \in acked

\* A frame in the ring is handled, or its cause was set aside.
FrameHandled == rxDD[rx_cur] ~> (at = "handle" \/ missed)

\* A DHCP dialogue in which no frame is lost and no receive cause is set aside gives the
\* host an address.  Nothing in the code repeats a message.
Discovering == at = "wait" /\ tx[txOld] # NoFrame /\ tx[txOld].kind = "discover"
DhcpCompletes == Discovering ~> (initialized \/ missed \/ lossy)
=============================================================================
