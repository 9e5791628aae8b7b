----------------------------- MODULE FrameQueue -----------------------------
(* What the receive ring of the network card promises: a queue that keeps    *)
(* the order of the frames, holds at most Capacity of them and hands out     *)
(* each one once.                                                            *)
EXTENDS Naturals, Sequences

CONSTANTS Frames, Capacity

VARIABLE queue

Init == queue = <<>>

Put(f) == Len(queue) < Capacity /\ queue' = Append(queue, f)
Get == queue # <<>> /\ queue' = Tail(queue)

Next == Get \/ \E f \in Frames : Put(f)

Spec == Init /\ [][Next]_queue
=============================================================================
