------------------------ MODULE MessageRing_proofs -------------------------
(***************************************************************************)
(* Proofs about MessageRing for a ring of any size and any number of       *)
(* posts, with any index and with restarts.  AtMostOnce needs only the     *)
(* typing.  The refinement of Mailbox rests on AgeOrder while the entries  *)
(* are in the order of their age, and on AtMostOnce alone when a restart   *)
(* has left messages behind: an entry then holds at most one of them.      *)
(***************************************************************************)
EXTENDS MessageRing, TLAPS

\* After() stays in the table, and is the next entry or the first.
LEMMA AfterInSlots ==
    ASSUME NEW s \in Slots
    PROVE  /\ After(s) \in Slots
           /\ s # MSG_QUEUE_MAX - 1 => After(s) = s + 1
           /\ s = MSG_QUEUE_MAX - 1 => After(s) = 0
  BY RingAssumption DEF After, Slots

\* Moving the origin one entry on brings every other entry one closer, and the entry
\* left behind becomes the farthest.
LEMMA DistanceAfter ==
    ASSUME NEW from \in Slots, NEW s \in Slots
    PROVE  /\ Distance(from, s) \in 0 .. MSG_QUEUE_MAX - 1
           /\ s # from => Distance(After(from), s) = Distance(from, s) - 1
           /\ Distance(from, from) = 0
           /\ Distance(After(from), from) = MSG_QUEUE_MAX - 1
  BY RingAssumption DEF Distance, After, Slots

\* Two entries at the same distance are the same entry.
LEMMA DistanceInjective ==
    ASSUME NEW from \in Slots, NEW s \in Slots, NEW r \in Slots,
           Distance(from, s) = Distance(from, r)
    PROVE  s = r
  BY RingAssumption DEF Distance, Slots

LEMMA ZeroInSlots == 0 \in Slots
  BY RingAssumption DEF Slots

-----------------------------------------------------------------------------
(* Typing.                                                                  *)

\* Taking the message of an entry keeps the types.
LEMMA TakeTypeOK ==
    ASSUME TypeOK, NEW s \in Slots, Take(s)
    PROVE  MsgQueue' \in [Slots -> 0 .. posts] /\ delivered' \subseteq 1 .. posts
  <1>1. MsgQueue[s] \in 0 .. posts /\ posts \in Nat
    BY DEF TypeOK
  <1>2. MsgQueue' \in [Slots -> 0 .. posts]
    BY <1>1 DEF TypeOK, Take, Empty
  <1>3. delivered' \subseteq 1 .. posts
    <2>1. MsgQueue[s] # Empty => MsgQueue[s] \in 1 .. posts
      BY <1>1 DEF Empty
    <2>2. delivered \subseteq 1 .. posts
      BY DEF TypeOK
    <2> QED BY <2>1, <2>2 DEF Take
  <1> QED BY <1>2, <1>3

LEMMA StepTypeOK == TypeOK /\ [Next]_vars => TypeOK'
  <1> SUFFICES ASSUME TypeOK, [Next]_vars PROVE TypeOK'
    OBVIOUS
  <1>0. posts \in Nat /\ MaxPosts \in Nat
    BY RingAssumption DEF TypeOK
  <1>1. ASSUME NEW entry \in {Empty, posts + 1}, Enter(entry) PROVE TypeOK'
    <2>1. posts' = posts + 1 /\ posts' \in 0 .. MaxPosts
      BY <1>1, <1>0 DEF Enter
    <2>2. entry \in 0 .. posts'
      BY <1>1, <1>0, <2>1 DEF Empty
    <2>3. MsgQueue' \in [Slots -> 0 .. posts']
      BY <1>1, <1>0, <2>1, <2>2 DEF Enter, TypeOK
    <2>4. MsgQueueHead' \in Slots /\ MsgQueueTail' \in Slots
      BY <1>1, AfterInSlots DEF Enter, TypeOK
    <2>5. delivered' \subseteq 1 .. posts'
      BY <1>1, <1>0, <2>1 DEF Enter, TypeOK
    <2>6. ordered' \in BOOLEAN
      BY <1>1 DEF Enter, TypeOK
    <2> QED BY <2>1, <2>3, <2>4, <2>5, <2>6 DEF TypeOK
  <1>2. CASE Post
    BY <1>1, <1>2 DEF Post
  <1>3. CASE PostZero
    BY <1>1, <1>3 DEF PostZero
  <1>4. CASE GetMessage
    BY <1>4, AfterInSlots, TakeTypeOK DEF GetMessage, Reorder, TypeOK
  <1>5. ASSUME NEW index \in Indices, NEW restart \in Restarts, GetMessage2(index, restart)
        PROVE  TypeOK'
    <2>1. MsgQueueHead' \in Slots /\ MsgQueueTail' \in Slots
      BY <1>5, AfterInSlots, ZeroInSlots DEF GetMessage2, TypeOK
    <2>2. CASE index \in Slots
      BY <1>5, <2>1, <2>2, TakeTypeOK DEF GetMessage2, Reorder, TypeOK
    <2>3. CASE index \notin Slots
      BY <1>5, <2>1, <2>3 DEF GetMessage2, Reorder, TypeOK
    <2> QED BY <2>2, <2>3
  <1>6. CASE UNCHANGED vars
    BY <1>6 DEF vars, TypeOK
  <1> QED BY <1>2, <1>3, <1>4, <1>5, <1>6 DEF Next

LEMMA InitTypeOK == Init => TypeOK
  BY RingAssumption, ZeroInSlots DEF Init, TypeOK, Empty

\* Head and tail never leave the table and every entry holds a message that was
\* posted, whatever the programs pass to sys_get_message2().
THEOREM RingTypeCorrect == Spec => []TypeOK
  <1> QED BY InitTypeOK, StepTypeOK, PTL DEF Spec

-----------------------------------------------------------------------------
(* No message is delivered twice.                                           *)

\* Taking the message of an entry keeps the others undelivered and distinct.
LEMMA TakeAtMostOnce ==
    ASSUME TypeOK, AtMostOnce, NEW s \in Slots, Take(s)
    PROVE  AtMostOnce'
  <1> SUFFICES ASSUME NEW r \in Slots, MsgQueue'[r] # Empty
               PROVE  /\ MsgQueue'[r] \notin delivered'
                      /\ \A q \in Slots : MsgQueue'[q] = MsgQueue'[r] => q = r
    BY DEF AtMostOnce
  <1>1. r # s /\ MsgQueue'[r] = MsgQueue[r]
    BY DEF Take, TypeOK
  <1>2. MsgQueue[r] \notin delivered
    BY <1>1 DEF AtMostOnce
  <1>3. MsgQueue[r] # MsgQueue[s]
    BY <1>1 DEF AtMostOnce
  <1>4. MsgQueue'[r] \notin delivered'
    BY <1>1, <1>2, <1>3 DEF Take
  <1>5. ASSUME NEW q \in Slots, MsgQueue'[q] = MsgQueue'[r] PROVE q = r
    BY <1>1, <1>5 DEF Take, TypeOK, AtMostOnce
  <1> QED BY <1>4, <1>5

LEMMA StepAtMostOnce == TypeOK /\ AtMostOnce /\ [Next]_vars => AtMostOnce'
  <1> SUFFICES ASSUME TypeOK, AtMostOnce, [Next]_vars PROVE AtMostOnce'
    OBVIOUS
  <1>0. posts \in Nat
    BY RingAssumption DEF TypeOK
  <1>1. ASSUME NEW entry \in {Empty, posts + 1}, Enter(entry) PROVE AtMostOnce'
    <2>1. \A s \in Slots : MsgQueue[s] # posts + 1 /\ posts + 1 \notin delivered
      BY <1>0 DEF TypeOK
    <2>2. delivered' = delivered
      BY <1>1 DEF Enter
    <2>3. \A s \in Slots : MsgQueue'[s] = IF s = MsgQueueTail THEN entry ELSE MsgQueue[s]
      BY <1>1 DEF Enter, TypeOK
    <2> QED BY <1>1, <2>1, <2>2, <2>3 DEF AtMostOnce
  <1>2. CASE Post
    BY <1>1, <1>2 DEF Post
  <1>3. CASE PostZero
    BY <1>1, <1>3 DEF PostZero
  <1>4. CASE GetMessage
    BY <1>4, TakeAtMostOnce DEF GetMessage, TypeOK
  <1>5. ASSUME NEW index \in Indices, NEW restart \in Restarts, GetMessage2(index, restart)
        PROVE  AtMostOnce'
    <2>1. CASE index \in Slots
      BY <1>5, <2>1, TakeAtMostOnce DEF GetMessage2
    <2>2. CASE index \notin Slots
      BY <1>5, <2>2 DEF GetMessage2, AtMostOnce
    <2> QED BY <2>1, <2>2
  <1>6. CASE UNCHANGED vars
    BY <1>6 DEF vars, AtMostOnce
  <1> QED BY <1>2, <1>3, <1>4, <1>5, <1>6 DEF Next

\* sys_get_message() and sys_get_message2() never hand over a message twice, in a ring
\* of any size, with restarts and with any index.
THEOREM DeliveredAtMostOnce == Spec => []AtMostOnce
  <1>1. Init => AtMostOnce
    BY DEF Init, AtMostOnce
  <1> QED BY <1>1, InitTypeOK, StepTypeOK, StepAtMostOnce, PTL DEF Spec

-----------------------------------------------------------------------------
(* The ring is a mailbox.                                                   *)

\* A poll that leaves the tail leaves every message that it does not take where it was.
LEMMA PollAgeOrder ==
    ASSUME TypeOK, AgeOrder, NEW restart \in BOOLEAN, Reorder(restart), UNCHANGED posts,
           restart \/ MsgQueueTail' = MsgQueueTail,
           \A r \in Slots : MsgQueue'[r] \in {Empty, MsgQueue[r]}
    PROVE  AgeOrder'
  <1> SUFFICES ASSUME ordered', NEW r \in Slots, MsgQueue'[r] # Empty
               PROVE  MsgQueue'[r] = posts' - MSG_QUEUE_MAX + 1 + Distance(MsgQueueTail', r)
    BY DEF AgeOrder, Distance
  <1>1. Pending' # {}
    BY DEF Pending
  <1>2. ordered /\ ~restart
    BY <1>1 DEF Reorder
  <1>3. MsgQueue'[r] = MsgQueue[r] /\ MsgQueueTail' = MsgQueueTail
    BY <1>2
  <1> QED BY <1>2, <1>3 DEF AgeOrder, Distance

\* What Take() does to every entry.
LEMMA TakeEntries ==
    ASSUME TypeOK, NEW s \in Slots, Take(s)
    PROVE  \A r \in Slots : MsgQueue'[r] = IF r = s THEN Empty ELSE MsgQueue[r]
  BY DEF Take, TypeOK

LEMMA StepAgeOrder == TypeOK /\ AgeOrder /\ [Next]_vars => AgeOrder'
  <1> SUFFICES ASSUME TypeOK, AgeOrder, [Next]_vars PROVE AgeOrder'
    OBVIOUS
  <1>0. posts \in Nat /\ MSG_QUEUE_MAX \in Nat
    BY RingAssumption DEF TypeOK
  <1>1. ASSUME NEW entry \in {Empty, posts + 1}, Enter(entry) PROVE AgeOrder'
    <2> SUFFICES ASSUME ordered', NEW s \in Slots, MsgQueue'[s] # Empty
                 PROVE  MsgQueue'[s] =
                          posts' - MSG_QUEUE_MAX + 1 + Distance(MsgQueueTail', s)
      BY DEF AgeOrder, Distance
    <2>1. /\ posts' = posts + 1 /\ MsgQueueTail' = After(MsgQueueTail)
          /\ MsgQueueTail \in Slots /\ ordered
      BY <1>1 DEF Enter, TypeOK
    <2>2. CASE s = MsgQueueTail
      <3>1. MsgQueue'[s] = posts + 1
        BY <1>1, <2>2 DEF Enter, TypeOK
      <3>2. Distance(MsgQueueTail', s) = MSG_QUEUE_MAX - 1
        BY <2>1, <2>2, DistanceAfter
      <3> QED BY <1>0, <2>1, <3>1, <3>2
    <2>3. CASE s # MsgQueueTail
      <3>1. MsgQueue'[s] = posts - MSG_QUEUE_MAX + 1 + Distance(MsgQueueTail, s)
        BY <1>1, <2>1, <2>3 DEF Enter, TypeOK, AgeOrder
      <3>2. /\ Distance(MsgQueueTail', s) = Distance(MsgQueueTail, s) - 1
            /\ Distance(MsgQueueTail, s) \in 0 .. MSG_QUEUE_MAX - 1
        BY <2>1, <2>3, DistanceAfter
      <3> QED BY <1>0, <2>1, <3>1, <3>2
    <2> QED BY <2>2, <2>3
  <1>2. CASE Post
    BY <1>1, <1>2 DEF Post
  <1>3. CASE PostZero
    BY <1>1, <1>3 DEF PostZero
  <1>4. CASE GetMessage
    <2>1. \A r \in Slots : MsgQueue'[r] \in {Empty, MsgQueue[r]}
      BY <1>4, TakeEntries DEF GetMessage, TypeOK
    <2> QED BY <1>4, <2>1, PollAgeOrder DEF GetMessage
  <1>5. ASSUME NEW index \in Indices, NEW restart \in Restarts, GetMessage2(index, restart)
        PROVE  AgeOrder'
    <2>1. restart \in BOOLEAN
      BY RingAssumption
    <2>2. \A r \in Slots : MsgQueue'[r] \in {Empty, MsgQueue[r]}
      BY <1>5, TakeEntries DEF GetMessage2
    <2>3. restart \/ MsgQueueTail' = MsgQueueTail
      BY <1>5, <2>1 DEF GetMessage2
    <2> QED BY <1>5, <2>1, <2>2, <2>3, PollAgeOrder DEF GetMessage2
  <1>6. CASE UNCHANGED vars
    BY <1>6 DEF vars, AgeOrder, Distance
  <1> QED BY <1>2, <1>3, <1>4, <1>5, <1>6 DEF Next

LEMMA InitAgeOrder == Init => AgeOrder
  BY DEF Init, AgeOrder

\* Unless a restart has left messages behind, the entries are in the order of their age,
\* in a ring of any size.
THEOREM EntriesInAgeOrder == Spec => []AgeOrder
  <1> QED BY InitTypeOK, StepTypeOK, InitAgeOrder, StepAgeOrder, PTL DEF Spec

\* A poll that takes nothing is a miss.
LEMMA NothingIsMiss ==
    ASSUME NEW restart \in BOOLEAN, Reorder(restart),
           UNCHANGED <<MsgQueue, posts, delivered>>
    PROVE  Box!Next
  <1>1. Pending' = Pending
    BY DEF Pending
  <1>2. Box!Miss(restart)
    BY <1>1 DEF Box!Miss, Box!Order, Reorder
  <1> QED BY <1>2 DEF Box!Next

\* A poll that takes the message of entry s delivers it, or finds nothing.
LEMMA TakeIsDeliver ==
    ASSUME TypeOK, AtMostOnce, NEW restart \in BOOLEAN, Reorder(restart),
           NEW s \in Slots, Take(s), UNCHANGED posts
    PROVE  Box!Next
  <1>1. CASE MsgQueue[s] = Empty
    <2>1. MsgQueue' = MsgQueue /\ delivered' = delivered
      BY <1>1 DEF Take, TypeOK
    <2> QED BY <2>1, NothingIsMiss
  <1>2. CASE MsgQueue[s] # Empty
    <2>1. MsgQueue[s] \in Pending
      BY <1>2 DEF Pending
    <2>2. Pending' = Pending \ {MsgQueue[s]}
      BY <1>2, TakeEntries DEF Pending, AtMostOnce
    <2>3. Box!Deliver(MsgQueue[s], restart)
      BY <1>2, <2>1, <2>2 DEF Box!Deliver, Box!Order, Take, Reorder
    <2> QED BY <2>1, <2>3 DEF Box!Next
  <1> QED BY <1>1, <1>2

\* While the entries are in order, a post drops the messages that MSG_QUEUE_MAX posts have
\* followed, and no other.
LEMMA OverwritesOldest ==
    ASSUME TypeOK, AgeOrder, ordered
    PROVE  {i \in Pending : i + MSG_QUEUE_MAX <= posts + 1} = {MsgQueue[MsgQueueTail]} \ {Empty}
  <1>0. /\ posts \in Nat /\ MSG_QUEUE_MAX \in Nat /\ MsgQueueTail \in Slots
        /\ \A s \in Slots : MsgQueue[s] \in Int
    BY RingAssumption DEF TypeOK
  <1>1. MsgQueue[MsgQueueTail] # Empty => MsgQueue[MsgQueueTail] + MSG_QUEUE_MAX = posts + 1
    <2>1. Distance(MsgQueueTail, MsgQueueTail) = 0
      BY <1>0, DistanceAfter
    <2> QED BY <1>0, <2>1 DEF AgeOrder
  <1>2. ASSUME NEW s \in Slots, s # MsgQueueTail, MsgQueue[s] # Empty
        PROVE  MsgQueue[s] + MSG_QUEUE_MAX > posts + 1
    <2>1. Distance(MsgQueueTail, s) > 0
      <3>1. Distance(MsgQueueTail, s) # Distance(MsgQueueTail, MsgQueueTail)
        BY <1>0, <1>2, DistanceInjective
      <3>2. /\ Distance(MsgQueueTail, s) \in 0 .. MSG_QUEUE_MAX - 1
            /\ Distance(MsgQueueTail, MsgQueueTail) = 0
        BY <1>0, DistanceAfter
      <3> QED BY <1>0, <3>1, <3>2
    <2>2. Distance(MsgQueueTail, s) \in Int
      BY <1>0, DistanceAfter
    <2> QED BY <1>0, <1>2, <2>1, <2>2 DEF AgeOrder
  <1>3. ASSUME NEW i \in Pending
        PROVE  i + MSG_QUEUE_MAX <= posts + 1 <=> i = MsgQueue[MsgQueueTail]
    <2>1. PICK s \in Slots : i = MsgQueue[s] /\ i # Empty
      BY DEF Pending
    <2>2. CASE s = MsgQueueTail
      BY <1>0, <1>1, <2>1, <2>2
    <2>3. CASE s # MsgQueueTail
      <3>1. i + MSG_QUEUE_MAX > posts + 1
        BY <1>2, <2>1, <2>3
      <3> QED BY <1>0, <1>1, <2>1, <3>1
    <2> QED BY <2>2, <2>3
  <1>4. MsgQueue[MsgQueueTail] # Empty => MsgQueue[MsgQueueTail] \in Pending
    BY <1>0 DEF Pending
  <1>5. \A i \in Pending : i # Empty
    BY DEF Pending
  <1> QED BY <1>3, <1>4, <1>5

\* A post is a post to the mailbox.
LEMMA EnterIsPost ==
    ASSUME TypeOK, AtMostOnce, AgeOrder, NEW entry \in {Empty, posts + 1}, Enter(entry)
    PROVE  Box!Next
  <1> DEFINE blank == entry = Empty
             lost == {MsgQueue[MsgQueueTail]} \ {Empty}
  <1>0. posts \in Nat /\ MsgQueueTail \in Slots
    BY DEF TypeOK
  <1>1. \A s \in Slots : MsgQueue'[s] = IF s = MsgQueueTail THEN entry ELSE MsgQueue[s]
    BY DEF Enter, TypeOK
  <1>2. posts' = posts + 1 /\ delivered' = delivered /\ ordered' = ordered
    BY DEF Enter
  <1>3. lost \in Box!Drops
    <2>1. CASE ordered
      BY <2>1, OverwritesOldest DEF Box!Drops
    <2>2. CASE ~ordered
      <3>1. CASE MsgQueue[MsgQueueTail] = Empty
        BY <2>2, <3>1 DEF Box!Drops
      <3>2. CASE MsgQueue[MsgQueueTail] # Empty
        <4>1. MsgQueue[MsgQueueTail] \in Pending
          BY <1>0, <3>2 DEF Pending
        <4>2. lost = {MsgQueue[MsgQueueTail]}
          BY <3>2
        <4> QED BY <2>2, <4>1, <4>2 DEF Box!Drops
      <3> QED BY <3>1, <3>2
    <2> QED BY <2>1, <2>2
  <1>4. Pending \ lost = {MsgQueue[s] : s \in Slots \ {MsgQueueTail}} \ {Empty}
    BY <1>0 DEF Pending, AtMostOnce
  <1>5. Pending' = (Pending \ lost) \cup (IF blank THEN {} ELSE {posts'})
    <2>1. entry # Empty => entry = posts'
      BY <1>2
    <2>2. Pending' = ({MsgQueue[s] : s \in Slots \ {MsgQueueTail}} \ {Empty})
                       \cup (IF blank THEN {} ELSE {posts'})
      BY <1>0, <1>1, <2>1 DEF Pending
    <2> QED BY <1>4, <2>2
  <1>6. Box!Post(blank)
    BY <1>2, <1>3, <1>5 DEF Box!Post
  <1>7. blank \in BOOLEAN
    OBVIOUS
  <1> QED BY <1>6, <1>7 DEF Box!Next

LEMMA StepIsMailbox ==
    TypeOK /\ AtMostOnce /\ AgeOrder /\ [Next]_vars => [Box!Next]_(Box!vars)
  <1> SUFFICES ASSUME TypeOK, AtMostOnce, AgeOrder, [Next]_vars
               PROVE  [Box!Next]_(Box!vars)
    OBVIOUS
  <1>1. CASE Post
    BY <1>1, EnterIsPost DEF Post
  <1>2. CASE PostZero
    BY <1>2, EnterIsPost DEF PostZero
  <1>3. CASE GetMessage
    BY <1>3, TakeIsDeliver DEF GetMessage, TypeOK
  <1>4. ASSUME NEW index \in Indices, NEW restart \in Restarts, GetMessage2(index, restart)
        PROVE  [Box!Next]_(Box!vars)
    <2>0. restart \in BOOLEAN
      BY RingAssumption
    <2>1. CASE index \in Slots
      BY <1>4, <2>0, <2>1, TakeIsDeliver DEF GetMessage2
    <2>2. CASE index \notin Slots
      BY <1>4, <2>0, <2>2, NothingIsMiss DEF GetMessage2
    <2> QED BY <2>1, <2>2
  <1>5. CASE UNCHANGED vars
    BY <1>5 DEF vars, Box!vars, Pending
  <1> QED BY <1>1, <1>2, <1>3, <1>4, <1>5 DEF Next

\* The ring implements Mailbox, with restarts and with any index: the i-th post can be
\* received, once, until MSG_QUEUE_MAX posts have followed it; when a restart leaves
\* messages behind, a post drops at most one of them until the queue is empty.
THEOREM RingIsMailbox == Spec => IsMailbox
  <1>1. Init => Box!Init
    BY DEF Init, Box!Init, Pending
  <1>2. Init => AtMostOnce
    BY DEF Init, AtMostOnce
  <1> QED BY <1>1, <1>2, InitTypeOK, StepTypeOK, StepAtMostOnce, InitAgeOrder, StepAgeOrder,
             StepIsMailbox, PTL DEF Spec, IsMailbox, Box!Spec

\* sys_get_message() approaches every waiting message and disturbs none but the one at
\* the head.
THEOREM PollsApproachMessages == Spec => PollsApproach
  <1>1. TypeOK /\ [Next]_vars =>
          [GetMessage => \A s \in Slots \ {MsgQueueHead} :
              /\ MsgQueue'[s] = MsgQueue[s]
              /\ Distance(MsgQueueHead', s) < Distance(MsgQueueHead, s)]_vars
    <2> SUFFICES ASSUME TypeOK, GetMessage, NEW s \in Slots, s # MsgQueueHead
                 PROVE  /\ MsgQueue'[s] = MsgQueue[s]
                        /\ Distance(MsgQueueHead', s) < Distance(MsgQueueHead, s)
      OBVIOUS
    <2>1. MsgQueue'[s] = MsgQueue[s]
      BY DEF GetMessage, Take, TypeOK
    <2>2. Distance(MsgQueueHead', s) = Distance(MsgQueueHead, s) - 1
      BY DistanceAfter DEF GetMessage, TypeOK
    <2>3. Distance(MsgQueueHead, s) \in Int
      BY DistanceAfter, RingAssumption DEF TypeOK
    <2> QED BY <2>1, <2>2, <2>3
  <1> QED BY <1>1, InitTypeOK, StepTypeOK, PTL DEF Spec, PollsApproach

=============================================================================
