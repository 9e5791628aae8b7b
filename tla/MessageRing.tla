---------------------------- MODULE MessageRing ----------------------------
(***************************************************************************)
(* The circular message queue of one thread (MsgQueue[], MsgQueueHead and  *)
(* MsgQueueTail of struct thread_d) and the operations of ipc.c on it.     *)
(*                                                                         *)
(* Input interrupts, the kernel and other threads post; the thread itself  *)
(* polls with sys_get_message() or sys_get_message2().  Neither side looks *)
(* at the other side's index: a post overwrites what it finds, and a poll  *)
(* that finds an empty entry moves on.                                     *)
(*                                                                         *)
(* A message is represented by its number in the order of posting.  The    *)
(* entry of a message whose code is 0 is indistinguishable from an empty   *)
(* one, and is Empty.                                                      *)
(***************************************************************************)
EXTENDS Integers

CONSTANTS
    MSG_QUEUE_MAX,   \* entries of the queue
    MaxPosts,        \* bound: posts made
    Indices,         \* the values of index that programs pass to sys_get_message2()
    Restarts         \* the values of restart that programs pass to sys_get_message2()

ASSUME RingAssumption ==
    /\ MSG_QUEUE_MAX \in Nat \ {0} /\ MaxPosts \in Nat
    /\ Indices \subseteq Int /\ Restarts \subseteq BOOLEAN

Slots == 0 .. MSG_QUEUE_MAX - 1
Empty == 0

VARIABLES
    MsgQueue,
    MsgQueueHead,
    MsgQueueTail,
    posts,       \* history: posts made so far
    delivered,   \* history: the messages that the thread received
    ordered      \* history: no restart has left messages behind that still wait

vars == <<MsgQueue, MsgQueueHead, MsgQueueTail, posts, delivered, ordered>>

TypeOK ==
    /\ MsgQueue \in [Slots -> 0 .. posts]
    /\ MsgQueueHead \in Slots /\ MsgQueueTail \in Slots
    /\ posts \in 0 .. MaxPosts
    /\ delivered \subseteq 1 .. posts
    /\ ordered \in BOOLEAN

\* __ps_initialize_thread_common_elements().
Init ==
    /\ MsgQueue = [s \in Slots |-> Empty]
    /\ MsgQueueHead = 0 /\ MsgQueueTail = 0
    /\ posts = 0 /\ delivered = {} /\ ordered = TRUE

-----------------------------------------------------------------------------
\* Mutant: the index leaves the table.
AfterOffByOne(s) == IF s + 1 > MSG_QUEUE_MAX THEN 0 ELSE s + 1

\* The entry after s.
After(s) == IF s + 1 >= MSG_QUEUE_MAX THEN 0 ELSE s + 1

-----------------------------------------------------------------------------
\* What both variants of ipc_post_message_to_tid() do to the queue of a live receiver.
\* A negative code, and 0 in the variant for the kernel, posts nothing.
Enter(entry) ==
    /\ posts < MaxPosts
    /\ posts' = posts + 1
    /\ MsgQueue' = [MsgQueue EXCEPT ![MsgQueueTail] = entry]
    /\ MsgQueueTail' = After(MsgQueueTail)
    /\ UNCHANGED <<MsgQueueHead, delivered, ordered>>

Post == Enter(posts + 1)

\* Mutant: a message of code 0 leaves the entry as it was.
PostZeroSkips ==
    /\ posts < MaxPosts
    /\ posts' = posts + 1
    /\ MsgQueueTail' = After(MsgQueueTail)
    /\ UNCHANGED <<MsgQueue, MsgQueueHead, delivered, ordered>>

\* System call 112 takes a message of code 0.
PostZero == Enter(Empty)

-----------------------------------------------------------------------------
\* Mutant: the message is handed over and its entry is not cleared.
TakeAndKeep(s) ==
    /\ delivered' = IF MsgQueue[s] = Empty THEN delivered ELSE delivered \cup {MsgQueue[s]}
    /\ UNCHANGED MsgQueue

\* Hand over the message of entry s, if there is one, and clear the entry.
Take(s) ==
    /\ delivered' = IF MsgQueue[s] = Empty THEN delivered ELSE delivered \cup {MsgQueue[s]}
    /\ MsgQueue' = [MsgQueue EXCEPT ![s] = Empty]

\* The messages that wait.
Pending == {MsgQueue[s] : s \in Slots} \ {Empty}

\* What a poll does to the history: a restart moves the tail back, and until the queue
\* is empty the entries are no longer in the order of their posts.
Reorder(restart) == ordered' = (Pending' = {} \/ (ordered /\ ~restart))

\* Mutant: a poll that finds nothing waits at its entry.
GetMessageWaits ==
    /\ Take(MsgQueueHead)
    /\ MsgQueueHead' = IF MsgQueue[MsgQueueHead] = Empty THEN MsgQueueHead
                       ELSE After(MsgQueueHead)
    /\ Reorder(FALSE)
    /\ UNCHANGED <<MsgQueueTail, posts>>

\* sys_get_message(): the head moves whether or not there was a message.
GetMessage ==
    /\ Take(MsgQueueHead)
    /\ MsgQueueHead' = After(MsgQueueHead)
    /\ Reorder(FALSE)
    /\ UNCHANGED <<MsgQueueTail, posts>>

\* sys_get_message2(): the head moves on from the index, or from where it was when the
\* index is outside the table; a restart moves both indices to the first entry and
\* leaves the messages where they are.
GetMessage2(index, restart) ==
    LET at == IF index \in Slots THEN index ELSE MsgQueueHead
    IN  /\ IF index \in Slots THEN Take(index) ELSE UNCHANGED <<MsgQueue, delivered>>
        /\ MsgQueueHead' = IF restart THEN 0 ELSE After(at)
        /\ MsgQueueTail' = IF restart THEN 0 ELSE MsgQueueTail
        /\ Reorder(restart)
        /\ UNCHANGED posts

Next ==
    \/ Post \/ PostZero \/ GetMessage
    \/ \E index \in Indices, restart \in Restarts : GetMessage2(index, restart)

Spec == Init /\ [][Next]_vars

\* A program with an event loop polls for ever.
FairSpec == Spec /\ WF_vars(GetMessage)

-----------------------------------------------------------------------------
(* Properties.                                                              *)

\* A message that was handed to the program is in no entry, and no two entries hold
\* the same message: sys_get_message() and sys_get_message2() deliver at most once.
AtMostOnce ==
    \A s \in Slots : MsgQueue[s] # Empty =>
        /\ MsgQueue[s] \notin delivered
        /\ \A r \in Slots : MsgQueue[r] = MsgQueue[s] => r = s

\* How many entries a poll at the head has to pass to reach entry s.
Distance(from, s) == IF s >= from THEN s - from ELSE s + MSG_QUEUE_MAX - from

\* Unless a restart left messages behind, an entry that the tail will reach sooner was
\* filled earlier: what is in entry s is the last post made there.  This makes the queue
\* lose the oldest message, and only when MSG_QUEUE_MAX posts have followed it.
AgeOrder ==
    ordered => \A s \in Slots : MsgQueue[s] # Empty =>
        MsgQueue[s] = posts - MSG_QUEUE_MAX + 1 + Distance(MsgQueueTail, s)

Box == INSTANCE Mailbox WITH Capacity <- MSG_QUEUE_MAX, pending <- Pending, exact <- ordered

\* The ring is a mailbox, whatever indices the program polls and whether it restarts the
\* queue: a post can be received, once, until MSG_QUEUE_MAX posts have followed it.
\* Once a restart has left messages behind a post may drop any one of them, and the
\* promise holds again when the queue has been empty.
IsMailbox == Box!Spec

\* sys_get_message() comes one entry closer to every waiting message and disturbs none
\* but the one at the head, so MSG_QUEUE_MAX polls in a row find every message.
PollsApproach ==
    [][ GetMessage => \A s \in Slots \ {MsgQueueHead} :
            /\ MsgQueue'[s] = MsgQueue[s]
            /\ Distance(MsgQueueHead', s) < Distance(MsgQueueHead, s) ]_vars

\* In a thread that from some moment polls with sys_get_message() only, every message
\* that waits is received or overwritten, wherever sys_get_message2() and its restarts
\* have left head and tail and however posts come between the polls.
Received ==
    <>[][Post \/ PostZero \/ GetMessage]_vars =>
        \A i \in 1 .. MaxPosts : (i \in Pending) ~> (i \notin Pending)

=============================================================================
