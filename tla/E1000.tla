------------------------------- MODULE E1000 -------------------------------
(* The driver of the Intel network card (kres/dev/netdev/e1000/e1000hw.c)    *)
(* and the card itself, which works on the same two descriptor rings at the  *)
(* same time.  The card is external: it is modelled by what the driver uses  *)
(* of it.                                                                    *)
(*                                                                           *)
(* The driver runs with interrupts disabled, in its interrupt handler or in  *)
(* a system call, so it has one program counter; the card takes its steps    *)
(* between any two of the driver's.                                          *)
EXTENDS Integers, Sequences

CONSTANTS
    Frames,
    NoFrame,                \* a blank buffer
    RECEIVE_BUFFER_MAX,     \* descriptors of the receive ring, 32 in the code
    SEND_BUFFER_MAX         \* descriptors of the transmit ring, 8 in the code

ASSUME RingsAssumption ==
    /\ RECEIVE_BUFFER_MAX \in Nat /\ RECEIVE_BUFFER_MAX > 1
    /\ SEND_BUFFER_MAX \in Nat /\ SEND_BUFFER_MAX > 2
ASSUME NoFrameAssumption == NoFrame \notin Frames

VARIABLES
    rx, rxDD,       \* receive ring: the buffers, and the DD bits of the descriptors
    rx_cur,         \* the driver's next descriptor
    RDH, RDT,       \* head and tail registers of the card
    tx, txDD,       \* transmit ring
    tx_cur,
    TDH, TDT,
    ICR,            \* the causes the card has set since they were last cleared
    InterruptCause, \* the driver's copy of them
    at,             \* where the driver is
    old, txOld,     \* the descriptors the receive loop and e1000hw_send() work on
    back,           \* where e1000hw_send() returns to
    missed          \* history: a receive cause was set aside and no loop has run since

rxVars == <<rx, rxDD, rx_cur, RDH, RDT, old>>
txVars == <<tx, txDD, tx_cur, TDH, TDT, txOld, back>>
nicVars == <<rxVars, txVars, ICR, InterruptCause, at, missed>>

RxSlots == 0 .. (RECEIVE_BUFFER_MAX - 1)
TxSlots == 0 .. (SEND_BUFFER_MAX - 1)

\* The causes of an interrupt that the driver tells apart.  "AHEAD": one of TXDW, TXQE and
\* LSC, which it looks at before RXT0 and which do nothing to the rings.
Causes == {"AHEAD", "RXT0", "RXO"}

\* Mutant: one descriptor too many.
CircleLate(i, n) == (i + 1) % (n + 1)

\* The next descriptor of a ring of n.
Circle(i, n) == (i + 1) % n

-----------------------------------------------------------------------------
(* The card.                                                                *)

\* A frame from the wire goes to the descriptor at the head, unless the head has
\* reached the tail.
CardStores(f) ==
    /\ IF RDH # RDT
       THEN /\ rx' = [rx EXCEPT ![RDH] = f]
            /\ rxDD' = [rxDD EXCEPT ![RDH] = TRUE]
            /\ RDH' = Circle(RDH, RECEIVE_BUFFER_MAX)
            /\ ICR' = ICR \cup {"RXT0"}
       ELSE /\ ICR' = ICR \cup {"RXO"}
            /\ UNCHANGED <<rx, rxDD, RDH>>
    /\ UNCHANGED <<rx_cur, RDT, old, txVars, InterruptCause, at, missed>>

\* The card sends what is between head and tail and reports each frame.  A descriptor
\* that was never used asks for no report.
CardSends ==
    /\ TDH # TDT
    /\ tx' = [tx EXCEPT ![TDH] = NoFrame]
    /\ txDD' = [txDD EXCEPT ![TDH] = TRUE]
    /\ TDH' = Circle(TDH, SEND_BUFFER_MAX)
    /\ ICR' = IF tx[TDH] = NoFrame THEN ICR ELSE ICR \cup {"AHEAD"}
    /\ UNCHANGED <<rxVars, tx_cur, TDT, txOld, back, InterruptCause, at, missed>>

\* The link goes up or down.
CardLinks ==
    /\ ICR' = ICR \cup {"AHEAD"}
    /\ UNCHANGED <<rxVars, txVars, InterruptCause, at, missed>>

-----------------------------------------------------------------------------
(* The driver.                                                              *)

\* DeviceInterface_e1000() reads the causes, which clears them ...
irq_E1000 ==
    /\ at = "out" /\ ICR # {}
    /\ at' = "cause"
    /\ InterruptCause' = ICR
    /\ ICR' = {}
    /\ UNCHANGED <<rxVars, txVars, missed>>

\* ... and looks at one of them only.
IsReceive(causes) == "RXT0" \in causes /\ "AHEAD" \notin causes

\* It then clears them all again, with those that were set in the meantime.
DeviceInterface_e1000 ==
    /\ at = "cause"
    /\ at' = IF IsReceive(InterruptCause) THEN "loop" ELSE "out"
    /\ missed' = (missed \/ (~IsReceive(InterruptCause) /\ "RXT0" \in InterruptCause \cup ICR))
    /\ InterruptCause' = {}
    /\ ICR' = {}
    /\ UNCHANGED <<rxVars, txVars>>

\* Mutant: the tail is moved to the next descriptor.
RxTakeAhead ==
    /\ at = "loop" /\ rxDD[rx_cur]
    /\ at' = "handle"
    /\ old' = rx_cur
    /\ rx_cur' = Circle(rx_cur, RECEIVE_BUFFER_MAX)
    /\ rxDD' = [rxDD EXCEPT ![rx_cur] = FALSE]
    /\ RDT' = Circle(rx_cur, RECEIVE_BUFFER_MAX)
    /\ UNCHANGED <<rx, RDH, txVars, ICR, InterruptCause, missed>>

\* Mutant: the DD bit is not cleared.
RxTakeTwice ==
    /\ at = "loop" /\ rxDD[rx_cur]
    /\ at' = "handle"
    /\ old' = rx_cur
    /\ rx_cur' = Circle(rx_cur, RECEIVE_BUFFER_MAX)
    /\ RDT' = rx_cur
    /\ UNCHANGED <<rx, rxDD, RDH, txVars, ICR, InterruptCause, missed>>

\* __e1000_on_receive(): a full descriptor is taken and given back to the card before
\* its frame is handled.
RxTake ==
    /\ at = "loop" /\ rxDD[rx_cur]
    /\ at' = "handle"
    /\ old' = rx_cur
    /\ rx_cur' = Circle(rx_cur, RECEIVE_BUFFER_MAX)
    /\ rxDD' = [rxDD EXCEPT ![rx_cur] = FALSE]
    /\ RDT' = rx_cur
    /\ UNCHANGED <<rx, RDH, txVars, ICR, InterruptCause, missed>>

\* The loop ends at the first descriptor that is not full.
RxDone ==
    /\ at = "loop" /\ ~rxDD[rx_cur]
    /\ at' = "out"
    /\ missed' = FALSE
    /\ UNCHANGED <<rxVars, txVars, ICR, InterruptCause>>

\* Mutant: the tail is set before tx_cur is moved on.
e1000hw_sendBehind(f, return) ==
    /\ tx' = [tx EXCEPT ![tx_cur] = f]
    /\ txDD' = [txDD EXCEPT ![tx_cur] = FALSE]
    /\ txOld' = tx_cur
    /\ tx_cur' = Circle(tx_cur, SEND_BUFFER_MAX)
    /\ TDT' = tx_cur
    /\ at' = "wait" /\ back' = return
    /\ UNCHANGED <<TDH, ICR, InterruptCause, missed>>

\* e1000hw_send() up to its busy wait.
e1000hw_send(f, return) ==
    /\ tx' = [tx EXCEPT ![tx_cur] = f]
    /\ txDD' = [txDD EXCEPT ![tx_cur] = FALSE]
    /\ txOld' = tx_cur
    /\ tx_cur' = Circle(tx_cur, SEND_BUFFER_MAX)
    /\ TDT' = Circle(tx_cur, SEND_BUFFER_MAX)
    /\ at' = "wait" /\ back' = return
    /\ UNCHANGED <<TDH, ICR, InterruptCause, missed>>

\* Mutant: no busy wait.
SendDoneAtOnce ==
    /\ at = "wait"
    /\ at' = back
    /\ back' = "out"
    /\ UNCHANGED <<rxVars, tx, txDD, tx_cur, TDH, TDT, txOld, ICR, InterruptCause, missed>>

\* The busy wait ends when the card has sent the frame.
SendDone ==
    /\ at = "wait" /\ txDD[txOld]
    /\ at' = back
    /\ back' = "out"
    /\ UNCHANGED <<rxVars, tx, txDD, tx_cur, TDH, TDT, txOld, ICR, InterruptCause, missed>>

\* Mutant: one frame for each interrupt.
RxHandleOne(reply) ==
    /\ at = "handle"
    /\ rx' = [rx EXCEPT ![old] = IF rxDD[old] THEN @ ELSE NoFrame]
    /\ UNCHANGED <<rxDD, rx_cur, RDH, RDT, old>>
    /\ IF reply = NoFrame
       THEN at' = "out" /\ UNCHANGED <<txVars, ICR, InterruptCause, missed>>
       ELSE e1000hw_send(reply, "out")

\* network_on_receiving() handles the frame, and may send one.  What stays in the
\* buffer is not read again.
RxHandle(reply) ==
    /\ at = "handle"
    /\ rx' = [rx EXCEPT ![old] = IF rxDD[old] THEN @ ELSE NoFrame]
    /\ UNCHANGED <<rxDD, rx_cur, RDH, RDT, old>>
    /\ IF reply = NoFrame
       THEN at' = "loop" /\ UNCHANGED <<txVars, ICR, InterruptCause, missed>>
       ELSE e1000hw_send(reply, "loop")

\* A system call sends a frame.
SysSend(f) ==
    /\ at = "out"
    /\ e1000hw_send(f, "out")
    /\ UNCHANGED rxVars

-----------------------------------------------------------------------------
\* After __e1000_reset_controller().  The transmit tail starts at the last descriptor,
\* and by the time of the first send the card has gone over the blank ones before it.
NicInit ==
    /\ rx = [i \in RxSlots |-> NoFrame] /\ rxDD = [i \in RxSlots |-> FALSE]
    /\ rx_cur = 0 /\ RDH = 0 /\ RDT = RECEIVE_BUFFER_MAX - 1 /\ old = RECEIVE_BUFFER_MAX - 1
    /\ tx = [i \in TxSlots |-> NoFrame] /\ txDD = [i \in TxSlots |-> TRUE]
    /\ tx_cur = 0 /\ TDH = SEND_BUFFER_MAX - 1 /\ TDT = SEND_BUFFER_MAX - 1
    /\ txOld = SEND_BUFFER_MAX - 1 /\ back = "out"
    /\ ICR = {} /\ InterruptCause = {} /\ at = "out" /\ missed = FALSE

Card == CardSends \/ CardLinks \/ \E f \in Frames : CardStores(f)

Driver == irq_E1000 \/ DeviceInterface_e1000 \/ RxTake \/ RxDone \/ SendDone

\* The driver under any protocol handler and any sender.
NicNext ==
    \/ Card
    \/ Driver
    \/ \E reply \in Frames \cup {NoFrame} : RxHandle(reply)
    \/ \E f \in Frames : SysSend(f)

NicSpec == NicInit /\ [][NicNext]_nicVars

-----------------------------------------------------------------------------
\* Type invariant of the card and its driver: no index leaves its ring.
NicTypeOK ==
    /\ rx \in [RxSlots -> Frames \cup {NoFrame}] /\ rxDD \in [RxSlots -> BOOLEAN]
    /\ rx_cur \in RxSlots /\ RDH \in RxSlots /\ RDT \in RxSlots /\ old \in RxSlots
    /\ tx \in [TxSlots -> Frames \cup {NoFrame}] /\ txDD \in [TxSlots -> BOOLEAN]
    /\ tx_cur \in TxSlots /\ TDH \in TxSlots /\ TDT \in TxSlots /\ txOld \in TxSlots
    /\ back \in {"out", "loop"}
    /\ ICR \subseteq Causes /\ InterruptCause \subseteq Causes
    /\ at \in {"out", "cause", "loop", "handle", "wait"}
    /\ missed \in BOOLEAN

\* The card does not write into the buffer of the frame that the protocols are reading,
\* although the driver has already given its descriptor back (e1000hw.c:926 asks whether
\* the tail should be moved later).  The DHCP handler even builds its request there.
FrameStable == [][at = "handle" /\ at' = "handle" => rx'[old] = rx[old]]_nicVars

\* How many descriptors are between two positions of the receive ring.
Between(from, to) == IF to >= from THEN to - from ELSE to - from + RECEIVE_BUFFER_MAX

\* The frames that wait in the ring.
Waiting ==
    [k \in 1 .. Between(rx_cur, RDH) |->
        rx[IF rx_cur + k - 1 >= RECEIVE_BUFFER_MAX THEN rx_cur + k - 1 - RECEIVE_BUFFER_MAX
           ELSE rx_cur + k - 1]]

Queue == INSTANCE FrameQueue WITH Capacity <- RECEIVE_BUFFER_MAX - 1, queue <- Waiting

\* The ring is a queue: the loop of __e1000_on_receive() takes the frames in the order
\* in which the card stored them, none twice, and only a full ring loses one.
RingIsQueue == Queue!Spec

\* Whoever is about to send finds the card done with the transmit ring: the callers of
\* e1000hw_send() build their frame in the buffer of tx_cur before they call it.
TxBufferFree == at # "wait" => TDH = TDT /\ txDD[tx_cur]

\* A frame that waits in the ring will be found: a receive cause is pending or being
\* looked at, or the loop runs; or its cause came together with another one, or between
\* the read of the causes and their clearing, and waits for the next frame to come.
NotForgotten ==
    rxDD[rx_cur] =>
        \/ "RXT0" \in ICR \cup InterruptCause
        \/ at \in {"loop", "handle"} \/ (at = "wait" /\ back = "loop")
        \/ missed
=============================================================================
