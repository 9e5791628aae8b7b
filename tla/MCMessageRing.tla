--------------------------- MODULE MCMessageRing ---------------------------
(* Small rings.  Indices reach both ends of the ring and beyond.            *)
EXTENDS MessageRing

EveryIndex == -1 .. MSG_QUEUE_MAX
=============================================================================
