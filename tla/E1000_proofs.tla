---------------------------- MODULE E1000_proofs ----------------------------
(***************************************************************************)
(* Proofs about the driver of the network card and the card, for rings of  *)
(* any length, any frames, and whatever the protocol handlers answer.      *)
(***************************************************************************)
EXTENDS E1000, SequenceTheorems, TLAPS

\* The next descriptor is in the ring, and two descriptors have different successors.
LEMMA CircleFacts ==
    ASSUME NEW n \in Nat, n > 1, NEW i \in 0 .. (n - 1)
    PROVE  /\ Circle(i, n) = IF i + 1 = n THEN 0 ELSE i + 1
           /\ Circle(i, n) \in 0 .. (n - 1)
  <1>1. CASE i + 1 = n
    BY <1>1 DEF Circle
  <1>2. CASE i + 1 < n
    BY <1>2 DEF Circle
  <1> QED BY <1>1, <1>2

LEMMA RxCircle ==
    ASSUME NEW i \in RxSlots
    PROVE  /\ Circle(i, RECEIVE_BUFFER_MAX) = IF i = RECEIVE_BUFFER_MAX - 1 THEN 0 ELSE i + 1
           /\ Circle(i, RECEIVE_BUFFER_MAX) \in RxSlots
  <1>1. i + 1 = RECEIVE_BUFFER_MAX <=> i = RECEIVE_BUFFER_MAX - 1
    BY RingsAssumption DEF RxSlots
  <1> QED BY <1>1, CircleFacts, RingsAssumption DEF RxSlots

LEMMA TxCircle ==
    ASSUME NEW i \in TxSlots
    PROVE  /\ Circle(i, SEND_BUFFER_MAX) = IF i = SEND_BUFFER_MAX - 1 THEN 0 ELSE i + 1
           /\ Circle(i, SEND_BUFFER_MAX) \in TxSlots
  <1>1. i + 1 = SEND_BUFFER_MAX <=> i = SEND_BUFFER_MAX - 1
    BY RingsAssumption DEF TxSlots
  <1> QED BY <1>1, CircleFacts, RingsAssumption DEF TxSlots

LEMMA Ends ==
    /\ 0 \in RxSlots /\ RECEIVE_BUFFER_MAX - 1 \in RxSlots
    /\ 0 \in TxSlots /\ SEND_BUFFER_MAX - 1 \in TxSlots
    /\ RECEIVE_BUFFER_MAX - 1 # 0 /\ SEND_BUFFER_MAX - 1 # 0
  BY RingsAssumption DEF RxSlots, TxSlots

-----------------------------------------------------------------------------
(* Types.                                                                   *)

LEMMA TypeInit == NicInit => NicTypeOK
  BY Ends DEF NicInit, NicTypeOK

LEMMA TypeSend ==
    ASSUME NicTypeOK, NEW f \in Frames, NEW b \in {"out", "loop"}, e1000hw_send(f, b)
    PROVE  /\ tx' \in [TxSlots -> Frames \cup {NoFrame}] /\ txDD' \in [TxSlots -> BOOLEAN]
           /\ tx_cur' \in TxSlots /\ TDH' \in TxSlots /\ TDT' \in TxSlots /\ txOld' \in TxSlots
           /\ back' \in {"out", "loop"} /\ at' = "wait"
           /\ ICR' \subseteq Causes /\ InterruptCause' \subseteq Causes /\ missed' \in BOOLEAN
  BY TxCircle DEF NicTypeOK, e1000hw_send

LEMMA TypeStep == NicTypeOK /\ [NicNext]_nicVars => NicTypeOK'
  <1> SUFFICES ASSUME NicTypeOK, [NicNext]_nicVars PROVE NicTypeOK'
    OBVIOUS
  <1>1. CASE UNCHANGED nicVars
    BY <1>1 DEF NicTypeOK, nicVars, rxVars, txVars
  <1>2. CASE CardSends
    BY <1>2, TxCircle DEF NicTypeOK, CardSends, rxVars, Causes
  <1>3. CASE CardLinks
    BY <1>3 DEF NicTypeOK, CardLinks, rxVars, txVars, Causes
  <1>4. ASSUME NEW f \in Frames, CardStores(f) PROVE NicTypeOK'
    BY <1>4, RxCircle DEF NicTypeOK, CardStores, txVars, Causes
  <1>5. CASE irq_E1000
    BY <1>5 DEF NicTypeOK, irq_E1000, rxVars, txVars
  <1>6. CASE DeviceInterface_e1000
    <2>1. missed' \in BOOLEAN
      BY <1>6, Zenon DEF NicTypeOK, DeviceInterface_e1000
    <2> QED BY <1>6, <2>1 DEF NicTypeOK, DeviceInterface_e1000, rxVars, txVars
  <1>7. CASE RxTake
    BY <1>7, RxCircle DEF NicTypeOK, RxTake, txVars
  <1>8. CASE RxDone
    BY <1>8 DEF NicTypeOK, RxDone, rxVars, txVars
  <1>9. CASE SendDone
    BY <1>9 DEF NicTypeOK, SendDone, rxVars
  <1>10. ASSUME NEW reply \in Frames \cup {NoFrame}, RxHandle(reply) PROVE NicTypeOK'
    <2>1. CASE reply = NoFrame
      BY <1>10, <2>1 DEF NicTypeOK, RxHandle, txVars
    <2>2. CASE reply # NoFrame
      <3>1. reply \in Frames /\ e1000hw_send(reply, "loop")
        BY <1>10, <2>2 DEF RxHandle
      <3> QED BY <1>10, <3>1, TypeSend DEF NicTypeOK, RxHandle
    <2> QED BY <2>1, <2>2
  <1>11. ASSUME NEW f \in Frames, SysSend(f) PROVE NicTypeOK'
    BY <1>11, TypeSend DEF NicTypeOK, SysSend, rxVars
  <1> QED BY <1>1, <1>2, <1>3, <1>4, <1>5, <1>6, <1>7, <1>8, <1>9, <1>10, <1>11
          DEF NicNext, Card, Driver

\* No index of the driver or of the card leaves its ring: the code tests none of them
\* before it uses it, the circle of __e1000_on_receive() and e1000hw_send() is enough.
THEOREM NicTypeCorrect == NicSpec => []NicTypeOK
  <1> QED BY TypeInit, TypeStep, PTL DEF NicSpec

-----------------------------------------------------------------------------
(* The receive ring.                                                        *)

\* The tail is the descriptor before the driver's next one.  Between "loop" and the end of
\* the handler, it is the descriptor whose frame is handled.
RxTail ==
    /\ rx_cur = Circle(RDT, RECEIVE_BUFFER_MAX)
    /\ at = "handle" => old = RDT

LEMMA TailInit == NicInit => RxTail
  BY RxCircle, Ends DEF NicInit, RxTail

LEMMA TailStep == NicTypeOK /\ RxTail /\ [NicNext]_nicVars => RxTail'
  <1> SUFFICES ASSUME NicTypeOK, RxTail, [NicNext]_nicVars PROVE RxTail'
    OBVIOUS
  <1> USE DEF NicTypeOK, RxTail, rxVars, txVars
  <1>1. CASE UNCHANGED nicVars
    BY <1>1 DEF nicVars
  <1>2. CASE CardSends \/ CardLinks
    BY <1>2 DEF CardSends, CardLinks
  <1>3. ASSUME NEW f \in Frames, CardStores(f) PROVE RxTail'
    BY <1>3 DEF CardStores
  <1>4. CASE irq_E1000 \/ DeviceInterface_e1000 \/ RxDone \/ SendDone
    BY <1>4 DEF irq_E1000, DeviceInterface_e1000, RxDone, SendDone
  <1>5. CASE RxTake
    BY <1>5 DEF RxTake
  <1>6. ASSUME NEW reply \in Frames \cup {NoFrame}, RxHandle(reply) PROVE RxTail'
    BY <1>6 DEF RxHandle, e1000hw_send
  <1>7. ASSUME NEW f \in Frames, SysSend(f) PROVE RxTail'
    BY <1>7 DEF SysSend, e1000hw_send
  <1> QED BY <1>1, <1>2, <1>3, <1>4, <1>5, <1>6, <1>7 DEF NicNext, Card, Driver

LEMMA StableStep == NicTypeOK /\ RxTail /\ [NicNext]_nicVars => (at = "handle" /\ at' = "handle" => rx'[old] = rx[old])
  <1> SUFFICES ASSUME NicTypeOK, RxTail, [NicNext]_nicVars, at = "handle", at' = "handle" PROVE rx'[old] = rx[old]
    OBVIOUS
  <1>0. old = RDT
    BY DEF RxTail
  <1>1. CASE UNCHANGED nicVars
    BY <1>1 DEF nicVars, rxVars
  <1>2. CASE CardSends \/ CardLinks
    BY <1>2 DEF CardSends, CardLinks, rxVars
  <1>3. ASSUME NEW f \in Frames, CardStores(f) PROVE rx'[old] = rx[old]
    BY <1>0, <1>3 DEF CardStores, NicTypeOK
  <1>4. CASE Driver
    BY <1>4 DEF Driver, irq_E1000, DeviceInterface_e1000, RxTake, RxDone, SendDone
  <1>5. ASSUME NEW reply, RxHandle(reply) PROVE FALSE
    BY <1>5 DEF RxHandle, e1000hw_send
  <1>6. ASSUME NEW f, SysSend(f) PROVE FALSE
    BY <1>6 DEF SysSend
  <1> QED BY <1>1, <1>2, <1>3, <1>4, <1>5, <1>6 DEF NicNext, Card

\* The card never writes into the buffer of the frame that is being handled, whatever the
\* length of the ring, although __e1000_on_receive() gives the descriptor back first.
THEOREM FrameIsStable == NicSpec => FrameStable
  <1>1. NicInit => NicTypeOK /\ RxTail
    BY TypeInit, TailInit
  <1>2. NicTypeOK /\ RxTail /\ [NicNext]_nicVars => (NicTypeOK /\ RxTail)'
    BY TypeStep, TailStep
  <1>3. NicTypeOK /\ RxTail /\ [NicNext]_nicVars
            => [at = "handle" /\ at' = "handle" => rx'[old] = rx[old]]_nicVars
    BY StableStep
  <1> QED BY <1>1, <1>2, <1>3, PTL DEF NicSpec, FrameStable

-----------------------------------------------------------------------------
(* The transmit ring.                                                       *)

\* At most one frame is in the ring, the one the driver waits for; the card is at it, or,
\* before the first frame, at the blank descriptor that comes before it.
Behind(i, j) == i = j \/ (i = SEND_BUFFER_MAX - 1 /\ j = 0)

OneInFlight ==
    /\ \A i \in TxSlots : i # txOld => txDD[i]
    /\ IF at = "wait"
       THEN /\ TDT = tx_cur /\ tx_cur = Circle(txOld, SEND_BUFFER_MAX)
            /\ IF txDD[txOld] THEN TDH = TDT ELSE Behind(TDH, txOld)
       ELSE TDH = TDT /\ txDD[txOld] /\ Behind(TDT, tx_cur)

LEMMA FlightInit == NicInit => OneInFlight
  BY Ends DEF NicInit, OneInFlight, Behind

LEMMA FlightSend ==
    ASSUME NicTypeOK, OneInFlight, at # "wait", NEW f, NEW b, e1000hw_send(f, b)
    PROVE  OneInFlight'
  <1>1. \A i \in TxSlots : i # txOld' => txDD'[i]
    BY DEF OneInFlight, NicTypeOK, e1000hw_send
  <1>2. at' = "wait" /\ TDT' = tx_cur' /\ tx_cur' = Circle(txOld', SEND_BUFFER_MAX)
    BY DEF e1000hw_send
  <1>3. ~txDD'[txOld'] /\ Behind(TDH', txOld')
    BY DEF OneInFlight, NicTypeOK, e1000hw_send, Behind
  <1> QED BY <1>1, <1>2, <1>3 DEF OneInFlight, Behind

LEMMA FlightCard == NicTypeOK /\ OneInFlight /\ CardSends => OneInFlight'
  <1> SUFFICES ASSUME NicTypeOK, OneInFlight, CardSends PROVE OneInFlight'
    OBVIOUS
  <1>1. at = "wait" /\ ~txDD[txOld] /\ Behind(TDH, txOld) /\ TDT = Circle(txOld, SEND_BUFFER_MAX)
    BY DEF OneInFlight, CardSends, NicTypeOK
  <1>2. at' = at /\ txOld' = txOld /\ tx_cur' = tx_cur /\ TDT' = TDT
    BY DEF CardSends
  <1>3. \A i \in TxSlots : i # txOld' => txDD'[i]
    BY DEF OneInFlight, CardSends, NicTypeOK
  <1>4. CASE TDH = txOld
    BY <1>1, <1>2, <1>3, <1>4 DEF OneInFlight, CardSends, NicTypeOK, Behind
  <1>5. CASE TDH # txOld
    <2>1. TDH = SEND_BUFFER_MAX - 1 /\ txOld = 0 /\ TDH' = 0
      BY <1>1, <1>5, TxCircle, Ends DEF CardSends, Behind
    <2>2. txDD'[txOld'] = FALSE
      BY <1>1, <1>2, <1>5 DEF CardSends, NicTypeOK
    <2> QED BY <1>1, <1>2, <1>3, <2>1, <2>2 DEF OneInFlight, Behind
  <1> QED BY <1>4, <1>5

LEMMA FlightStep == NicTypeOK /\ OneInFlight /\ [NicNext]_nicVars => OneInFlight'
  <1> SUFFICES ASSUME NicTypeOK, OneInFlight, [NicNext]_nicVars PROVE OneInFlight'
    OBVIOUS
  <1>1. CASE UNCHANGED nicVars
    BY <1>1 DEF nicVars, txVars, OneInFlight, Behind
  <1>2. CASE CardSends
    BY <1>2, FlightCard
  <1>3. ASSUME UNCHANGED txVars, at # "wait" <=> at' # "wait" PROVE OneInFlight'
    BY <1>3 DEF txVars, OneInFlight, Behind
  <1>4. CASE CardLinks
    BY <1>3, <1>4 DEF CardLinks
  <1>5. ASSUME NEW f \in Frames, CardStores(f) PROVE OneInFlight'
    BY <1>3, <1>5 DEF CardStores
  <1>6. CASE irq_E1000 \/ DeviceInterface_e1000 \/ RxTake \/ RxDone
    BY <1>3, <1>6 DEF irq_E1000, DeviceInterface_e1000, RxTake, RxDone
  <1>7. CASE SendDone
    <2>1. at = "wait" /\ txDD[txOld] /\ at' # "wait"
      BY <1>7 DEF SendDone, NicTypeOK
    <2>2. UNCHANGED <<tx, txDD, tx_cur, TDH, TDT, txOld>>
      BY <1>7 DEF SendDone
    <2> QED BY <2>1, <2>2 DEF OneInFlight, Behind
  <1>8. ASSUME NEW reply, RxHandle(reply) PROVE OneInFlight'
    <2>1. CASE reply = NoFrame
      BY <1>3, <1>8, <2>1 DEF RxHandle
    <2>2. CASE reply # NoFrame
      BY <1>8, <2>2, FlightSend DEF RxHandle
    <2> QED BY <2>1, <2>2
  <1>9. ASSUME NEW f \in Frames, SysSend(f) PROVE OneInFlight'
    BY <1>9, FlightSend DEF SysSend
  <1> QED BY <1>1, <1>2, <1>4, <1>5, <1>6, <1>7, <1>8, <1>9 DEF NicNext, Card, Driver

\* Every caller of e1000hw_send() finds the card done with the buffer it builds its frame
\* in, for a ring of any length: the busy wait keeps the ring at one frame.
THEOREM SendBufferFree == NicSpec => []TxBufferFree
  <1>1. NicInit => NicTypeOK /\ OneInFlight
    BY TypeInit, FlightInit
  <1>2. NicTypeOK /\ OneInFlight /\ [NicNext]_nicVars => (NicTypeOK /\ OneInFlight)'
    BY TypeStep, FlightStep
  <1>3. NicTypeOK /\ OneInFlight => TxBufferFree
    BY DEF NicTypeOK, OneInFlight, TxBufferFree
  <1> QED BY <1>1, <1>2, <1>3, PTL DEF NicSpec

-----------------------------------------------------------------------------
(* The causes of the interrupts.                                            *)

\* The driver's copy of the causes lives only between the read and the second clearing.
CauseShort == at # "cause" => InterruptCause = {}

LEMMA CauseInit == NicInit => CauseShort /\ NotForgotten
  BY Ends DEF NicInit, CauseShort, NotForgotten

LEMMA CauseStep == NicTypeOK /\ CauseShort /\ NotForgotten /\ [NicNext]_nicVars => (CauseShort /\ NotForgotten)'
  <1> SUFFICES ASSUME NicTypeOK, CauseShort, NotForgotten, [NicNext]_nicVars
               PROVE  CauseShort' /\ NotForgotten'
    OBVIOUS
  <1> USE DEF CauseShort
  <1>1. CASE UNCHANGED nicVars
    BY <1>1 DEF nicVars, rxVars, txVars, NotForgotten
  <1>2. CASE CardSends
    BY <1>2 DEF CardSends, rxVars, NotForgotten
  <1>3. CASE CardLinks
    BY <1>3 DEF CardLinks, rxVars, txVars, NotForgotten
  <1>4. ASSUME NEW f \in Frames, CardStores(f) PROVE CauseShort' /\ NotForgotten'
    <2>1. CASE RDH # RDT
      BY <1>4, <2>1 DEF CardStores, NotForgotten
    <2>2. CASE RDH = RDT
      BY <1>4, <2>2 DEF CardStores, txVars, NotForgotten
    <2> QED BY <2>1, <2>2
  <1>5. CASE irq_E1000
    BY <1>5 DEF irq_E1000, rxVars, NotForgotten
  <1>6. CASE DeviceInterface_e1000
    <2>1. CauseShort' /\ UNCHANGED <<rxDD, rx_cur>>
      BY <1>6 DEF DeviceInterface_e1000, rxVars
    <2>2. CASE IsReceive(InterruptCause)
      BY <1>6, <2>1, <2>2 DEF DeviceInterface_e1000, NotForgotten
    <2>3. CASE ~IsReceive(InterruptCause)
      <3>1. missed' <=> missed \/ "RXT0" \in InterruptCause \cup ICR
        BY <1>6, <2>3, Zenon DEF DeviceInterface_e1000
      <3>2. rxDD[rx_cur] => missed \/ "RXT0" \in InterruptCause \cup ICR
        BY <1>6 DEF DeviceInterface_e1000, NotForgotten
      <3> QED BY <2>1, <3>1, <3>2 DEF NotForgotten
    <2> QED BY <2>2, <2>3
  <1>7. CASE RxTake
    BY <1>7 DEF RxTake, NotForgotten
  <1>8. CASE RxDone
    BY <1>8 DEF RxDone, rxVars, NotForgotten
  <1>9. CASE SendDone
    BY <1>9 DEF SendDone, rxVars, NicTypeOK, NotForgotten
  <1>10. ASSUME NEW reply, RxHandle(reply) PROVE CauseShort' /\ NotForgotten'
    BY <1>10 DEF RxHandle, e1000hw_send, NotForgotten
  <1>11. ASSUME NEW f \in Frames, SysSend(f) PROVE CauseShort' /\ NotForgotten'
    BY <1>11 DEF SysSend, e1000hw_send, rxVars, NotForgotten
  <1> QED BY <1>1, <1>2, <1>3, <1>4, <1>5, <1>6, <1>7, <1>8, <1>9, <1>10, <1>11
          DEF NicNext, Card, Driver

\* A frame in the ring that no pending cause stands for is one whose cause came together
\* with another, or between the two clearings: the driver loses sight of it in no other way.
THEOREM NoFrameForgotten == NicSpec => []NotForgotten
  <1>1. NicInit => NicTypeOK /\ CauseShort /\ NotForgotten
    BY TypeInit, CauseInit
  <1>2. NicTypeOK /\ CauseShort /\ NotForgotten /\ [NicNext]_nicVars
            => (NicTypeOK /\ CauseShort /\ NotForgotten)'
    BY TypeStep, CauseStep
  <1> QED BY <1>1, <1>2, PTL DEF NicSpec

-----------------------------------------------------------------------------
(* The receive ring is a queue.                                             *)

\* The k-th descriptor from cur on.
Slot(cur, k) == IF cur + k - 1 >= RECEIVE_BUFFER_MAX THEN cur + k - 1 - RECEIVE_BUFFER_MAX
                ELSE cur + k - 1

LEMMA SlotFacts ==
    ASSUME NEW cur \in RxSlots, NEW i \in RxSlots
    PROVE  /\ Between(cur, i) \in 0 .. (RECEIVE_BUFFER_MAX - 1)
           /\ Slot(cur, Between(cur, i) + 1) = i
           /\ \A k \in 1 .. RECEIVE_BUFFER_MAX :
                Slot(cur, k) \in RxSlots /\ Between(cur, Slot(cur, k)) = k - 1
  BY RingsAssumption DEF RxSlots, Between, Slot

\* The head moves on.
LEMMA HeadFacts ==
    ASSUME NEW cur \in RxSlots, NEW head \in RxSlots, cur # Circle(head, RECEIVE_BUFFER_MAX)
    PROVE  /\ Between(cur, Circle(head, RECEIVE_BUFFER_MAX)) = Between(cur, head) + 1
           /\ \A i \in RxSlots : Between(cur, i) = Between(cur, head) <=> i = head
  BY RxCircle, RingsAssumption DEF RxSlots, Between

\* The driver moves on.
LEMMA CurFacts ==
    ASSUME NEW cur \in RxSlots, NEW head \in RxSlots, cur # head
    PROVE  LET next == Circle(cur, RECEIVE_BUFFER_MAX)
           IN  /\ Between(next, cur) = RECEIVE_BUFFER_MAX - 1
               /\ \A i \in RxSlots : i # cur => Between(next, i) = Between(cur, i) - 1
               /\ \A k \in 1 .. (RECEIVE_BUFFER_MAX - 1) : Slot(next, k) = Slot(cur, k + 1)
  BY RxCircle, RingsAssumption DEF RxSlots, Between, Slot

\* The descriptors between the driver and the head are full, and no others.
FullBetween ==
    \A i \in RxSlots : rxDD[i] <=> Between(rx_cur, i) < Between(rx_cur, RDH)

LEMMA FullInit == NicInit => FullBetween
  BY RingsAssumption DEF NicInit, FullBetween, RxSlots, Between

\* A sequence is the function of its entries.
LEMMA SequenceIsFunction ==
    ASSUME NEW S, NEW s \in Seq(S)
    PROVE  s = [k \in 1 .. Len(s) |-> s[k]]
  OBVIOUS

\* A longer and a shorter sequence, entry by entry.
LEMMA SequenceFacts ==
    ASSUME NEW S, NEW w \in Seq(S), NEW f \in S
    PROVE  /\ Append(w, f) = [k \in 1 .. (Len(w) + 1) |-> IF k = Len(w) + 1 THEN f ELSE w[k]]
           /\ Len(w) > 0 => w # <<>> /\ Tail(w) = [k \in 1 .. (Len(w) - 1) |-> w[k + 1]]
  <1>1. Append(w, f) = [k \in 1 .. (Len(w) + 1) |-> IF k = Len(w) + 1 THEN f ELSE w[k]]
    <2>1. /\ Append(w, f) \in Seq(S) /\ Len(Append(w, f)) = Len(w) + 1
          /\ \A k \in 1 .. Len(w) : Append(w, f)[k] = w[k]
          /\ Append(w, f)[Len(w) + 1] = f
      BY AppendProperties
    <2>2. Append(w, f) = [k \in 1 .. (Len(w) + 1) |-> Append(w, f)[k]]
      BY <2>1, SequenceIsFunction
    <2> QED BY <2>1, <2>2
  <1>2. ASSUME Len(w) > 0
        PROVE  w # <<>> /\ Tail(w) = [k \in 1 .. (Len(w) - 1) |-> w[k + 1]]
    <2>1. w # <<>>
      BY <1>2
    <2>2. /\ Tail(w) \in Seq(S) /\ Len(Tail(w)) = Len(w) - 1
          /\ \A k \in 1 .. Len(Tail(w)) : Tail(w)[k] = w[k + 1]
      BY <2>1, HeadTailProperties
    <2>3. Tail(w) = [k \in 1 .. Len(Tail(w)) |-> Tail(w)[k]]
      BY <2>2, SequenceIsFunction
    <2> QED BY <2>1, <2>2, <2>3
  <1> QED BY <1>1, <1>2

LEMMA WaitingFacts ==
    ASSUME NicTypeOK
    PROVE  /\ Waiting = [k \in 1 .. Between(rx_cur, RDH) |-> rx[Slot(rx_cur, k)]]
           /\ Waiting \in Seq(Frames \cup {NoFrame})
           /\ Len(Waiting) = Between(rx_cur, RDH)
           /\ Between(rx_cur, RDH) \in 0 .. (RECEIVE_BUFFER_MAX - 1)
  <1>1. Waiting = [k \in 1 .. Between(rx_cur, RDH) |-> rx[Slot(rx_cur, k)]]
    BY DEF Waiting, Slot
  <1>2. Between(rx_cur, RDH) \in 0 .. (RECEIVE_BUFFER_MAX - 1)
    BY SlotFacts DEF NicTypeOK
  <1>3. \A k \in 1 .. Between(rx_cur, RDH) : rx[Slot(rx_cur, k)] \in Frames \cup {NoFrame}
    <2> TAKE k \in 1 .. Between(rx_cur, RDH)
    <2>1. k \in 1 .. RECEIVE_BUFFER_MAX
      BY <1>2, RingsAssumption
    <2> QED BY <2>1, SlotFacts DEF NicTypeOK
  <1> QED BY <1>1, <1>2, <1>3

\* The card stores a frame at the end of the queue ...
LEMMA StoreIsPut ==
    ASSUME NicTypeOK, NicTypeOK', RxTail, FullBetween, NEW f \in Frames, CardStores(f), RDH # RDT
    PROVE  FullBetween' /\ Queue!Put(f)
  <1> DEFINE n == Between(rx_cur, RDH)
  <1>0. rx_cur \in RxSlots /\ RDH \in RxSlots /\ RDT \in RxSlots
    BY DEF NicTypeOK
  <1>1. rx_cur # Circle(RDH, RECEIVE_BUFFER_MAX)
    BY <1>0, RxCircle, RingsAssumption DEF RxTail, RxSlots
  <1>2. rx_cur' = rx_cur /\ RDH' \in RxSlots /\ n \in Nat /\ Between(rx_cur', RDH') = n + 1
    BY <1>0, <1>1, HeadFacts, WaitingFacts DEF CardStores, NicTypeOK
  <1>3. \A i \in RxSlots : Between(rx_cur, i) \in Nat /\ (Between(rx_cur, i) = n <=> i = RDH)
    BY <1>0, <1>1, HeadFacts, SlotFacts
  <1>4. FullBetween'
    <2> SUFFICES ASSUME NEW i \in RxSlots PROVE rxDD'[i] <=> Between(rx_cur, i) < n + 1
      BY <1>2 DEF FullBetween
    <2>1. rxDD'[i] <=> i = RDH \/ rxDD[i]
      BY DEF CardStores, NicTypeOK
    <2> QED BY <1>2, <1>3, <2>1 DEF FullBetween
  <1>5. Waiting' = [k \in 1 .. (n + 1) |-> rx'[Slot(rx_cur, k)]] /\ n + 1 \in 0 .. (RECEIVE_BUFFER_MAX - 1)
    <2>1. /\ Waiting' = [k \in 1 .. Between(rx_cur', RDH') |-> rx'[Slot(rx_cur', k)]]
          /\ Between(rx_cur', RDH') \in 0 .. (RECEIVE_BUFFER_MAX - 1)
      <3>1. Waiting' = [k \in 1 .. Between(rx_cur', RDH') |-> rx'[Slot(rx_cur', k)]]
        BY DEF Waiting, Slot, Between
      <3>2. Between(rx_cur', RDH') \in 0 .. (RECEIVE_BUFFER_MAX - 1)
        BY <1>0, <1>2, SlotFacts
      <3> QED BY <3>1, <3>2
    <2> QED BY <1>2, <2>1
  <1>6. rx'[Slot(rx_cur, n + 1)] = f
    BY <1>0, SlotFacts DEF CardStores, NicTypeOK
  <1>7. \A k \in 1 .. n : rx'[Slot(rx_cur, k)] = rx[Slot(rx_cur, k)]
    <2> TAKE k \in 1 .. n
    <2>1. k \in 1 .. RECEIVE_BUFFER_MAX /\ k - 1 # n
      BY <1>2, <1>5, RingsAssumption
    <2>2. Slot(rx_cur, k) \in RxSlots /\ Between(rx_cur, Slot(rx_cur, k)) = k - 1
      BY <1>0, <2>1, SlotFacts
    <2>3. Slot(rx_cur, k) # RDH
      BY <2>1, <2>2
    <2> QED BY <2>2, <2>3 DEF CardStores, NicTypeOK
  <1>8. Waiting' = Append(Waiting, f)
    <2> DEFINE w == Waiting
    <2>1. w \in Seq(Frames \cup {NoFrame}) /\ Len(w) = n /\ \A k \in 1 .. n : w[k] = rx[Slot(rx_cur, k)]
      BY WaitingFacts
    <2>2. Append(w, f) = [k \in 1 .. (n + 1) |-> IF k = n + 1 THEN f ELSE w[k]]
      <3> HIDE DEF w
      <3> QED BY <1>2, <2>1, SequenceFacts
    <2>3. \A k \in 1 .. (n + 1) : rx'[Slot(rx_cur, k)] = IF k = n + 1 THEN f ELSE w[k]
      BY <1>2, <1>6, <1>7, <2>1
    <2> QED BY <1>5, <2>2, <2>3
  <1>9. Len(Waiting) < RECEIVE_BUFFER_MAX - 1
    BY <1>5, WaitingFacts, RingsAssumption
  <1> QED BY <1>4, <1>8, <1>9 DEF Queue!Put

\* ... and the driver takes the first one.
LEMMA TakeIsGet ==
    ASSUME NicTypeOK, NicTypeOK', FullBetween, RxTake
    PROVE  FullBetween' /\ Queue!Get
  <1> DEFINE n == Between(rx_cur, RDH)
  <1>0. rx_cur \in RxSlots /\ RDH \in RxSlots /\ n \in Nat /\ Between(rx_cur, rx_cur) = 0
    BY WaitingFacts DEF NicTypeOK, RxSlots, Between
  <1>1. n > 0 /\ rx_cur # RDH
    BY <1>0 DEF FullBetween, RxTake
  <1>2. rx_cur' = Circle(rx_cur, RECEIVE_BUFFER_MAX) /\ RDH' = RDH /\ rx' = rx
    BY DEF RxTake
  <1>3. /\ Between(rx_cur', rx_cur) = RECEIVE_BUFFER_MAX - 1
        /\ \A i \in RxSlots : i # rx_cur => Between(rx_cur', i) = Between(rx_cur, i) - 1
        /\ \A k \in 1 .. (RECEIVE_BUFFER_MAX - 1) : Slot(rx_cur', k) = Slot(rx_cur, k + 1)
    BY <1>0, <1>1, <1>2, CurFacts
  <1>4. Between(rx_cur', RDH') = n - 1 /\ n <= RECEIVE_BUFFER_MAX - 1
    BY <1>0, <1>1, <1>2, <1>3, WaitingFacts, RingsAssumption
  <1>5. FullBetween'
    <2> SUFFICES ASSUME NEW i \in RxSlots PROVE rxDD'[i] <=> Between(rx_cur', i) < n - 1
      BY <1>4 DEF FullBetween
    <2>1. CASE i = rx_cur
      BY <1>0, <1>3, <1>4, <2>1, RingsAssumption DEF RxTake, NicTypeOK
    <2>2. CASE i # rx_cur
      <3>1. Between(rx_cur, i) \in Nat /\ rxDD'[i] = rxDD[i]
        BY <1>0, <2>2, SlotFacts DEF RxTake, NicTypeOK
      <3> QED BY <1>0, <1>3, <2>2, <3>1 DEF FullBetween
    <2> QED BY <2>1, <2>2
  <1>6. Waiting' = [k \in 1 .. (n - 1) |-> rx[Slot(rx_cur', k)]]
    BY <1>2, <1>4 DEF Waiting, Slot
  <1>7. \A k \in 1 .. (n - 1) : Slot(rx_cur', k) = Slot(rx_cur, k + 1)
    BY <1>0, <1>3, <1>4, RingsAssumption
  <1>8. Waiting' = Tail(Waiting) /\ Waiting # <<>>
    <2> DEFINE w == Waiting
    <2>1. w \in Seq(Frames \cup {NoFrame}) /\ Len(w) = n /\ \A k \in 1 .. n : w[k] = rx[Slot(rx_cur, k)]
      BY WaitingFacts
    <2>2. w # <<>> /\ Tail(w) = [k \in 1 .. (n - 1) |-> w[k + 1]]
      <3> HIDE DEF w
      <3> QED BY <1>0, <1>1, <2>1, SequenceFacts
    <2>3. \A k \in 1 .. (n - 1) : rx[Slot(rx_cur', k)] = w[k + 1]
      BY <1>0, <1>7, <2>1
    <2> QED BY <1>6, <2>2, <2>3
  <1> QED BY <1>5, <1>8 DEF Queue!Get

\* No other step touches a frame that waits.
LEMMA HandleKeeps ==
    ASSUME NicTypeOK, FullBetween, NEW reply, RxHandle(reply)
    PROVE  FullBetween' /\ Waiting' = Waiting
  <1>1. UNCHANGED <<rxDD, rx_cur, RDH>>
    BY DEF RxHandle
  <1>2. FullBetween'
    BY <1>1 DEF FullBetween, Between
  <1>3. Waiting' = [k \in 1 .. Between(rx_cur, RDH) |-> rx'[Slot(rx_cur, k)]]
    BY <1>1 DEF Waiting, Slot, Between
  <1>4. \A k \in 1 .. Between(rx_cur, RDH) : rx'[Slot(rx_cur, k)] = rx[Slot(rx_cur, k)]
    <2> TAKE k \in 1 .. Between(rx_cur, RDH)
    <2>1. k \in 1 .. RECEIVE_BUFFER_MAX /\ k - 1 < Between(rx_cur, RDH)
      BY WaitingFacts, RingsAssumption
    <2>2. Slot(rx_cur, k) \in RxSlots /\ rxDD[Slot(rx_cur, k)]
      BY <2>1, SlotFacts DEF FullBetween, NicTypeOK
    <2> QED BY <2>2 DEF RxHandle, NicTypeOK
  <1> QED BY <1>2, <1>3, <1>4, WaitingFacts

LEMMA QueueStep ==
    NicTypeOK /\ NicTypeOK' /\ RxTail /\ FullBetween /\ [NicNext]_nicVars
        => FullBetween' /\ [Queue!Next]_Waiting
  <1> SUFFICES ASSUME NicTypeOK, NicTypeOK', RxTail, FullBetween, [NicNext]_nicVars
               PROVE  FullBetween' /\ [Queue!Next]_Waiting
    OBVIOUS
  <1>1. ASSUME UNCHANGED <<rx, rxDD, rx_cur, RDH>> PROVE FullBetween' /\ Waiting' = Waiting
    BY <1>1 DEF FullBetween, Waiting, Between
  <1>2. CASE UNCHANGED nicVars
    BY <1>1, <1>2 DEF nicVars, rxVars
  <1>3. CASE CardSends \/ CardLinks
    BY <1>1, <1>3 DEF CardSends, CardLinks, rxVars
  <1>4. ASSUME NEW f \in Frames, CardStores(f) PROVE FullBetween' /\ [Queue!Next]_Waiting
    <2>1. CASE RDH # RDT
      BY <1>4, <2>1, StoreIsPut DEF Queue!Next
    <2>2. CASE RDH = RDT
      BY <1>1, <1>4, <2>2 DEF CardStores
    <2> QED BY <2>1, <2>2
  <1>5. CASE irq_E1000 \/ DeviceInterface_e1000 \/ RxDone \/ SendDone
    BY <1>1, <1>5 DEF irq_E1000, DeviceInterface_e1000, RxDone, SendDone, rxVars
  <1>6. CASE RxTake
    BY <1>6, TakeIsGet DEF Queue!Next
  <1>7. ASSUME NEW reply, RxHandle(reply) PROVE FullBetween' /\ [Queue!Next]_Waiting
    BY <1>7, HandleKeeps
  <1>8. ASSUME NEW f, SysSend(f) PROVE FullBetween' /\ [Queue!Next]_Waiting
    BY <1>1, <1>8 DEF SysSend, rxVars
  <1> QED BY <1>2, <1>3, <1>4, <1>5, <1>6, <1>7, <1>8 DEF NicNext, Card, Driver

\* The receive ring implements FrameQueue for every length: frames are handled in the
\* order in which they came, none twice, and only a full ring loses one.
THEOREM RingImplementsQueue == NicSpec => RingIsQueue
  <1>1. NicInit => NicTypeOK /\ RxTail /\ FullBetween
    BY TypeInit, TailInit, FullInit
  <1>2. NicInit => Queue!Init
    BY RingsAssumption DEF NicInit, Queue!Init, Waiting, Between
  <1>3. NicTypeOK /\ RxTail /\ FullBetween /\ [NicNext]_nicVars => (NicTypeOK /\ RxTail /\ FullBetween)'
    BY TypeStep, TailStep, QueueStep
  <1>4. NicTypeOK /\ RxTail /\ FullBetween /\ [NicNext]_nicVars => [Queue!Next]_Waiting
    BY TypeStep, QueueStep
  <1> QED BY <1>1, <1>2, <1>3, <1>4, PTL DEF NicSpec, RingIsQueue, Queue!Spec
=============================================================================
