------------------------------ MODULE MCInput ------------------------------
(* A user with a small keyboard and a two-button mouse.                     *)
EXTENDS Input

Packet(buttons, dx, dy, overflow) == [buttons |-> buttons, dx |-> dx, dy |-> dy, overflow |-> overflow]

\* A movement with both buttons, whose second delta could be a first byte, and one without
\* buttons that a char cannot hold.  The overflow bits come with an answer that is taken for
\* a first byte.
SomePackets == {Packet({1, 2}, -1, 8, 0), Packet({}, 200, 0, 0)}
=============================================================================
