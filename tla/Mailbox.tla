------------------------------ MODULE Mailbox ------------------------------
(***************************************************************************)
(* What the message queue of a thread promises its users: the i-th post    *)
(* can be received, at most once and in any order, until Capacity further  *)
(* posts have been made; then it is gone.  A user that resets the mailbox  *)
(* while messages wait gives this up until the mailbox is empty: a post    *)
(* then drops any one of them, or none.                                    *)
(***************************************************************************)
EXTENDS Integers

CONSTANT Capacity

VARIABLES
    posts,      \* how many posts were made
    pending,    \* the posts that can still be received
    delivered,  \* the posts that were received
    exact       \* whether posts are dropped in the order in which they came

vars == <<posts, pending, delivered, exact>>

Init == posts = 0 /\ pending = {} /\ delivered = {} /\ exact = TRUE

\* What the next post may drop.
Drops == IF exact THEN {{i \in pending : i + Capacity <= posts + 1}}
         ELSE {{}} \cup {{i} : i \in pending}

\* A blank post carries no message.
Post(blank) ==
    /\ posts' = posts + 1
    /\ \E lost \in Drops :
          pending' = (pending \ lost) \cup (IF blank THEN {} ELSE {posts'})
    /\ UNCHANGED <<delivered, exact>>

\* Reset makes the drops arbitrary until the mailbox is empty.
Order(reset) == exact' = (pending' = {} \/ (exact /\ ~reset))

Deliver(i, reset) ==
    /\ i \in pending
    /\ pending' = pending \ {i}
    /\ delivered' = delivered \cup {i}
    /\ Order(reset)
    /\ UNCHANGED posts

\* A poll that finds nothing.
Miss(reset) == UNCHANGED <<posts, pending, delivered>> /\ Order(reset)

Next ==
    \/ \E blank \in BOOLEAN : Post(blank)
    \/ \E reset \in BOOLEAN : Miss(reset) \/ \E i \in pending : Deliver(i, reset)

Spec == Init /\ [][Next]_vars

=============================================================================
