----------------------------- MODULE MCNetwork -----------------------------
(* Small networks.                                                          *)
EXTENDS Network

\* The server acknowledges an address to another host, again and again.
OtherClient == {Frame("ack", Peer, 1)}

\* Another host asks for all that it can, too.
Neighbour == PeerRequests \cup OtherClientFrames
=============================================================================
