-------------------------- MODULE Scheduler_proofs --------------------------
(***************************************************************************)
(* Proofs about Scheduler, for a thread table of any size, any quanta, any *)
(* workload and any value of the uninitialised pointer of __scheduler_rr,  *)
(* unless a theorem states a hypothesis on the workload or on the pointer. *)
(***************************************************************************)
EXTENDS Scheduler, TLAPS, WellFoundedInduction

-----------------------------------------------------------------------------
(* Helpers.                                                                 *)

\* A set of tids that is not empty has a first element.
LEMMA FirstIn ==
    ASSUME NEW S \in SUBSET Tids, S # {}
    PROVE  First(S) \in S /\ \A u \in S : First(S) <= u
  <1>1. S \subseteq Nat
    BY TableAssumption DEF Tids
  <1> DEFINE LessThan == {ss \in Nat \X Nat : ss[1] < ss[2]}
  <1>2. IsWellFoundedOn(LessThan, Nat)
    BY NatLessThanWellFounded, Zenon DEF OpToRel
  <1>3. PICK x \in S : \A y \in S : ~(<<y, x>> \in LessThan)
    <2> HIDE DEF LessThan
    <2> QED BY <1>1, <1>2, WFMin
  <1>4. ASSUME NEW y \in S PROVE x <= y
    <2>1. x \in Nat /\ y \in Nat
      BY <1>1
    <2>2. y < x => <<y, x>> \in LessThan
      BY <2>1
    <2> HIDE DEF LessThan
    <2> QED BY <1>3, <2>1, <2>2
  <1> QED BY <1>4 DEF First

\* The link of a round is a tid or NULL.
LEMMA FollowingType ==
    ASSUME NEW S \in SUBSET Tids, NEW t \in Tids
    PROVE  Following(S, t) \in TidOrNone
  <1>1. CASE \E u \in S : u > t
    <2>1. {u \in S : u > t} \in SUBSET Tids /\ {u \in S : u > t} # {}
      BY <1>1
    <2> HIDE DEF Tids
    <2>2. First({u \in S : u > t}) \in Tids
      BY <2>1, FirstIn
    <2> QED BY <1>1, <2>2 DEF Following, TidOrNone
  <1>2. CASE ~ \E u \in S : u > t
    BY <1>2 DEF Following, TidOrNone
  <1> QED BY <1>1, <1>2

\* The quanta lie between 1 and the cap, and the cap is positive.
LEMMA QuantumFacts ==
    /\ QuantumCap \in Nat \ {0} /\ QUANTUM_MAX \in 1 .. QuantumCap
    /\ QUANTUM_MIN \in 1 .. QUANTUM_MAX
    /\ \A q \in {QUANTUM_NORMAL_THRESHOLD, QUANTUM_NORMAL_TIME_CRITICAL,
                 QUANTUM_SYSTEM_THRESHOLD, QUANTUM_SYSTEM_TIME_CRITICAL} :
          q \in 1 .. QUANTUM_MAX /\ q \in 1 .. QuantumCap
  <1> DEFINE Levels == {QUANTUM_NORMAL_THRESHOLD, QUANTUM_NORMAL_TIME_CRITICAL,
                        QUANTUM_SYSTEM_THRESHOLD, QUANTUM_SYSTEM_TIME_CRITICAL}
  <1>1. QUANTUM_MIN \in Nat \ {0} /\ QUANTUM_MAX \in Nat /\ FocusBoost \in Nat
    BY QuantumAssumption
  <1>2. \A q \in Levels : q \in Int /\ QUANTUM_MIN <= q /\ q <= QUANTUM_MAX
    <2> SUFFICES ASSUME NEW q \in Levels
                 PROVE  q \in Int /\ QUANTUM_MIN <= q /\ q <= QUANTUM_MAX
      OBVIOUS
    <2>1. q \in QUANTUM_MIN .. QUANTUM_MAX
      BY QuantumAssumption
    <2> QED BY <1>1, <2>1
  <1>3. QUANTUM_NORMAL_THRESHOLD \in Levels
    OBVIOUS
  <1> HIDE DEF Levels
  <1>4. QUANTUM_MIN <= QUANTUM_MAX
    BY <1>1, <1>2, <1>3
  <1>5. QuantumCap \in Nat \ {0} /\ QUANTUM_MAX <= QuantumCap
    BY <1>1, <1>4 DEF QuantumCap
  <1>6. \A q \in Levels : q \in 1 .. QUANTUM_MAX /\ q \in 1 .. QuantumCap
    BY <1>1, <1>2, <1>5
  <1> QED BY <1>1, <1>4, <1>5, <1>6 DEF Levels

LEMMA CapFacts ==
    /\ 0 \in 0 .. QuantumCap
    /\ QuantumCap \in 1 .. QuantumCap /\ QUANTUM_MAX \in 1 .. QuantumCap
    /\ QUANTUM_SYSTEM_THRESHOLD \in 1 .. QuantumCap
  BY QuantumFacts

\* AtMost() and AtLeast() keep a quantum within its bounds.
LEMMA QuantumBounds ==
    ASSUME NEW q \in 1 .. QuantumCap
    PROVE  /\ AtMost(q + 1, QuantumCap) \in 1 .. QuantumCap
           /\ AtMost(q + 1, QUANTUM_MAX) \in 1 .. QuantumCap
           /\ AtLeast(q, QUANTUM_MIN) \in 1 .. QuantumCap
           /\ AtLeast(AtMost(q, QUANTUM_MAX), QUANTUM_MIN) \in 1 .. QuantumCap
  BY QuantumFacts DEF AtMost, AtLeast

\* ThreadReady() and Woken() map thread states to thread states.
LEMMA StatesType ==
    ASSUME TypeOK, NEW st \in [Tids -> States], NEW t \in TidOrNone
    PROVE  ThreadReady(st, t) \in [Tids -> States] /\ Woken(st) \in [Tids -> States]
  BY DEF ThreadReady, Woken, States

\* Waiting a jiffy keeps the types.
LEMMA ElapseType == TypeOK => Elapse \in [Tids -> 0 .. MaxSleep]
  BY TableAssumption DEF TypeOK, Elapse, AtLeast

LEMMA TidFacts ==
    /\ INIT_TID \in Tids /\ INIT_TID \in TidOrNone /\ NoTid \in TidOrNone
    /\ \A t \in Tids : t \in TidOrNone
    /\ \A t \in TidOrNone : t \in Tids \/ t = NoTid
  BY TableAssumption DEF INIT_TID, Tids, TidOrNone

-----------------------------------------------------------------------------
(* Typing.                                                                  *)

LEMMA InitTypeOK == Init => TypeOK
  <1> SUFFICES ASSUME Init PROVE TypeOK
    OBVIOUS
  <1>1. used \in [Tids -> BOOLEAN]
    BY Zenon DEF Init
  <1>2. slots \subseteq Tids /\ INIT_TID \in slots /\ processes \subseteq Tids
    BY TidFacts DEF Init
  <1>3. owner \in [Tids -> Tids] /\ next \in [Tids -> TidOrNone]
    BY TidFacts DEF Init
  <1>4. state \in [Tids -> States]
    BY DEF Init, States
  <1>5. /\ saved \in [Tids -> BOOLEAN] /\ exit_in_progress \in [Tids -> BOOLEAN]
        /\ yield_in_progress \in [Tids -> BOOLEAN] /\ isResponder \in [Tids -> BOOLEAN]
        /\ waiting_for_timeout \in [Tids -> BOOLEAN]
    BY DEF Init
  <1>6. /\ wake \in [Tids -> 0 .. MaxSleep] /\ sleep_ms \in [Tids -> 0 .. MaxSleep]
        /\ runningCount \in [Tids -> 0 .. QuantumCap] /\ credits \in [Tids -> 0 .. 2]
        /\ quantum \in [Tids -> 1 .. QuantumCap]
    BY TableAssumption, QuantumFacts DEF Init
  <1>7. /\ currentq \in Tids /\ timeout_thread \in TidOrNone /\ current_thread \in TidOrNone
        /\ foreground_thread \in TidOrNone /\ ds_tid \in TidOrNone
    BY TidFacts DEF Init
  <1>8. ts_locked \in BOOLEAN /\ sched_locked \in BOOLEAN /\ pc = "user"
    BY DEF Init
  <1> QED BY <1>1, <1>2, <1>3, <1>4, <1>5, <1>6, <1>7, <1>8 DEF TypeOK

\* The fields that a round rewrites keep their types.
LEMMA SchedulerRRTypeOK ==
    ASSUME TypeOK, NEW stale \in StaleTids, SchedulerRR(stale),
           pc' \in {"gravity", "ahead"}
    PROVE  TypeOK'
  <1> DEFINE st0 == IF wake[INIT_TID] = 0 THEN ThreadReady(state, stale) ELSE state
             st1 == Woken(st0)
  <1>1. st0 \in [Tids -> States]
    BY StatesType, WorkloadAssumption DEF TypeOK
  <1>2. st1 \in [Tids -> States]
    BY <1>1, StatesType, TidFacts
  <1> HIDE DEF st0, st1
  <1>3. used' \in [Tids -> BOOLEAN]
    BY DEF SchedulerRR, TypeOK
  <1>4. state' \in [Tids -> States]
    BY <1>2 DEF SchedulerRR, States, st0, st1
  <1>5. quantum' \in [Tids -> 1 .. QuantumCap]
    BY QuantumFacts, QuantumBounds DEF SchedulerRR, TypeOK
  <1>6. runningCount' \in [Tids -> 0 .. QuantumCap]
    BY QuantumFacts DEF SchedulerRR, TypeOK
  <1>7. isResponder' \in [Tids -> BOOLEAN] /\ credits' \in [Tids -> 0 .. 2]
    BY DEF SchedulerRR, TypeOK
  <1>8. next' \in [Tids -> TidOrNone]
    <2> DEFINE ready == {t \in Others : st1[t] = "READY"}
    <2>1. ready \in SUBSET Tids
      BY DEF Others
    <2>2. \A t \in Tids : Following(ready, t) \in TidOrNone
      BY <2>1, FollowingType
    <2>3. next' = [t \in Tids |-> IF t \in ready \cup {INIT_TID} THEN Following(ready, t)
                                  ELSE next[t]]
      BY DEF SchedulerRR, st0, st1
    <2> HIDE DEF ready
    <2> QED BY <2>2, <2>3 DEF TypeOK
  <1>9. /\ currentq' \in Tids /\ current_thread' \in TidOrNone
        /\ ds_tid' \in TidOrNone /\ foreground_thread' \in TidOrNone
    BY TidFacts DEF SchedulerRR, TypeOK, DsWithout
  <1> QED
    BY <1>3, <1>4, <1>5, <1>6, <1>7, <1>8, <1>9
    DEF SchedulerRR, TypeOK, requests, timeout, locks

\* psScheduler() keeps the types.
LEMMA PsSchedulerTypeOK ==
    ASSUME TypeOK, PsScheduler, pc' \in {"gravity", "ahead"}
    PROVE  TypeOK'
  <1>1. CASE /\ sched_locked /\ current_thread' = NoTid
             /\ UNCHANGED <<table, state, saved, wake, requests, share, round, timeout, roles,
                            locks>>
    BY <1>1, TidFacts DEF TypeOK, table, requests, share, round, timeout, roles, locks
  <1>2. CASE /\ currentq' = INIT_TID /\ current_thread' = INIT_TID
             /\ UNCHANGED <<table, state, saved, wake, requests, share, next, timeout, roles,
                            locks>>
    BY <1>2, TidFacts DEF TypeOK, table, requests, share, timeout, roles, locks
  <1>3. CASE \E stale \in StaleTids : SchedulerRR(stale)
    BY <1>3, SchedulerRRTypeOK
  <1> QED BY <1>1, <1>2, <1>3 DEF PsScheduler

\* The fields of a timer tick keep their types; the tick itself is one of the actions
\* below.
LEMMA TicksType ==
    ASSUME TypeOK, current_thread \in Tids
    PROVE  Ticks \in 0 .. QuantumCap
  BY QuantumFacts DEF TypeOK, Ticks, AtMost

LEMMA TickTypeOK == TypeOK /\ Tick => TypeOK'
  <1> SUFFICES ASSUME TypeOK, Tick PROVE TypeOK'
    OBVIOUS
  <1> USE DEF table, requests, share, round, timeout, roles, locks
  <1>1. CASE TickFails
    BY <1>1 DEF TickFails, Stop, TypeOK, Panics
  <1>2. CASE TickLocked
    BY <1>2, ElapseType, TicksType DEF TickLocked, CurrentIsLive, TypeOK
  <1>3. CASE TickInQuantum
    <2>1. current_thread \in Tids
      BY <1>3 DEF TickInQuantum, CurrentIsLive
    <2>2. runningCount' \in [Tids -> 0 .. QuantumCap]
      BY <1>3, <2>1, TicksType, QuantumFacts DEF TickInQuantum, TypeOK
    <2>3. yield_in_progress' \in [Tids -> BOOLEAN]
      BY <1>3, <2>1 DEF TickInQuantum, TypeOK
    <2>4. sleep_ms' \in [Tids -> 0 .. MaxSleep]
      BY <1>3, <2>1, TableAssumption DEF TickInQuantum, TypeOK
    <2>5. state' \in [Tids -> States]
      BY <1>3, <2>1 DEF TickInQuantum, TypeOK, States
    <2>6. wake' \in [Tids -> 0 .. MaxSleep]
      BY <1>3, <2>1, ElapseType DEF TickInQuantum, TypeOK
    <2>7. saved' \in [Tids -> BOOLEAN]
      BY <1>3, <2>1 DEF TickInQuantum, TypeOK, SaveContext
    <2> QED BY <1>3, <2>2, <2>3, <2>4, <2>5, <2>6, <2>7 DEF TickInQuantum, TypeOK
  <1>4. CASE TickPreempts
    <2>1. current_thread \in Tids
      BY <1>4 DEF TickPreempts, EndOfQuantum, CurrentIsLive
    <2>2. wake' \in [Tids -> 0 .. MaxSleep]
      BY <1>4, ElapseType DEF TickPreempts
    <2>3. runningCount' \in [Tids -> 0 .. QuantumCap]
      BY <1>4, <2>1, TicksType DEF TickPreempts, TypeOK
    <2>4. saved' \in [Tids -> BOOLEAN]
      BY <1>4, <2>1 DEF TickPreempts, TypeOK, SaveContext
    <2>5. state' \in [Tids -> States]
      BY <1>4, <2>1 DEF TickPreempts, TypeOK, Preempted, States
    <2> QED BY <1>4, <2>2, <2>3, <2>4, <2>5 DEF TickPreempts, TypeOK
  <1>5. CASE TickSpawns
    <2> DEFINE t == First(Standby)
    <2>1. current_thread \in Tids
      BY <1>5 DEF TickSpawns, EndOfQuantum, CurrentIsLive
    <2>2. t \in Tids
      <3>1. Standby \in SUBSET Tids /\ Standby # {}
        BY <1>5 DEF TickSpawns, Standby
      <3> QED BY <3>1, FirstIn
    <2>3. wake' \in [Tids -> 0 .. MaxSleep]
      BY <1>5, ElapseType DEF TickSpawns
    <2>4. runningCount' \in [Tids -> 0 .. QuantumCap]
      BY <1>5, <2>1, <2>2, TicksType, QuantumFacts DEF TickSpawns, TypeOK
    <2>5. saved' \in [Tids -> BOOLEAN] /\ exit_in_progress' \in [Tids -> BOOLEAN]
      BY <1>5, <2>1, <2>2 DEF TickSpawns, TypeOK, SaveContext
    <2>6. state' \in [Tids -> States]
      BY <1>5, <2>1, <2>2 DEF TickSpawns, TypeOK, Preempted, States
    <2>7. next' \in [Tids -> TidOrNone] /\ current_thread' \in TidOrNone
      BY <1>5, <2>2, TidFacts DEF TickSpawns, TypeOK
    <2> QED BY <1>5, <2>3, <2>4, <2>5, <2>6, <2>7 DEF TickSpawns, TypeOK
  <1>6. CASE TickCannotSpawn
    BY <1>6 DEF TickCannotSpawn, Stop, TypeOK, Panics
  <1> QED BY <1>1, <1>2, <1>3, <1>4, <1>5, <1>6 DEF Tick

LEMMA TaskSwitchTypeOK == TypeOK /\ TaskSwitch => TypeOK'
  <1> SUFFICES ASSUME TypeOK, TaskSwitch PROVE TypeOK'
    OBVIOUS
  <1> USE DEF table, requests, share, round, timeout, roles, locks
  <1>1. CASE PickSingle
    BY <1>1, TidFacts DEF PickSingle, TypeOK
  <1>2. CASE PickTimeout
    BY <1>2, TidFacts DEF PickTimeout, TimeoutPending, TypeOK
  <1>3. CASE PickRebuild
    BY <1>3, PsSchedulerTypeOK DEF PickRebuild
  <1>4. CASE PickNext
    <2>1. next[currentq] \in Tids
      BY <1>4, TidFacts DEF PickNext, TypeOK
    <2> QED BY <1>4, <2>1 DEF PickNext, TypeOK
  <1>5. CASE GoAhead
    <2>1. currentq \in Tids /\ quantum[currentq] \in 1 .. QuantumCap
      BY DEF TypeOK
    <2>2. quantum' \in [Tids -> 1 .. QuantumCap]
      BY <1>5, <2>1, QuantumBounds DEF GoAhead, TypeOK
    <2>3. state' \in [Tids -> States] /\ saved' \in [Tids -> BOOLEAN]
      BY <1>5 DEF GoAhead, Dispatch, TypeOK, States
    <2>4. runningCount' \in [Tids -> 0 .. QuantumCap]
      BY <1>5, CapFacts DEF GoAhead, Dispatch, TypeOK
    <2>5. current_thread' \in TidOrNone
      BY <1>5, <2>1, TidFacts DEF GoAhead, Dispatch
    <2> QED BY <1>5, <2>2, <2>3, <2>4, <2>5 DEF GoAhead, TypeOK, Panics
  <1>6. CASE TryAgain
    BY <1>6, PsSchedulerTypeOK DEF TryAgain
  <1> QED BY <1>1, <1>2, <1>3, <1>4, <1>5, <1>6 DEF TaskSwitch, ZeroGravity

\* Posting a message keeps the types.
LEMMA NotifyTypeOK ==
    ASSUME TypeOK, NEW t \in Tids, NotifyReceiver(t), credits' \in [Tids -> 0 .. 2]
    PROVE  TypeOK'
  <1>1. timeout_thread' \in TidOrNone
    BY TidFacts DEF NotifyReceiver
  <1>2. waiting_for_timeout' \in [Tids -> BOOLEAN] /\ isResponder' \in [Tids -> BOOLEAN]
    BY DEF NotifyReceiver, TypeOK
  <1> QED BY <1>1, <1>2 DEF NotifyReceiver, TypeOK, table, requests, round, roles, locks

LEMMA SystemCallTypeOK == TypeOK /\ SystemCall => TypeOK'
  <1> SUFFICES ASSUME TypeOK, SystemCall PROVE TypeOK'
    OBVIOUS
  <1> USE DEF table, requests, share, round, timeout, roles, locks
  <1>s. \A reason \in Panics : Stop(reason) => TypeOK'
    BY DEF Stop, TypeOK
  <1>t. slots \subseteq Tids
    BY DEF TypeOK
  <1>u. FreeSlots # {} => First(FreeSlots) \in Tids
    <2>1. FreeSlots \in SUBSET Tids
      BY DEF FreeSlots
    <2> QED BY <2>1, FirstIn
  <1>1. CASE Yield
    BY <1>1 DEF Yield, Calling, TypeOK
  <1>2. ASSUME NEW ms \in 1 .. MaxSleep, Sleep(ms) PROVE TypeOK'
    <2>1. ms \in 0 .. MaxSleep
      BY <1>2, TableAssumption
    <2> QED BY <1>2, <2>1 DEF Sleep, Calling, TypeOK
  <1>3. CASE BrokenVessels
    BY <1>3, QuantumBounds DEF BrokenVessels, Calling, TypeOK
  <1>4. ASSUME NEW t \in Tids, RequestExit(t) PROVE TypeOK'
    BY <1>4 DEF RequestExit, TypeOK
  <1>5. CASE Exit
    BY <1>4, <1>5 DEF Exit, Calling, TypeOK
  <1>6. ASSUME NEW t \in slots, ExitThread(t) PROVE TypeOK'
    BY <1>s, <1>t, <1>4, <1>6 DEF ExitThread, Panics
  <1>7. CASE WaitPid
    BY <1>7 DEF WaitPid, Calling, TypeOK, States
  <1>8. CASE CreateThread
    <2>1. CASE FreeSlots = {}
      BY <1>s, <1>8, <2>1 DEF CreateThread, Panics
    <2>2. CASE FreeSlots # {}
      <3> DEFINE t == First(FreeSlots)
      <3>1. t \in Tids /\ current_thread \in Tids
        BY <1>u, <1>8, <2>2 DEF CreateThread, Calling
      <3> HIDE DEF t
      <3>2. slots' = slots \cup {t} /\ used' = [used EXCEPT ![t] = TRUE]
        BY <1>8, <2>2 DEF CreateThread, t
      <3>3. slots' \subseteq Tids /\ INIT_TID \in slots' /\ used' \in [Tids -> BOOLEAN]
        BY <3>1, <3>2 DEF TypeOK
      <3>4. owner' = [owner EXCEPT ![t] = owner[current_thread]]
        BY <1>8, <2>2 DEF CreateThread, t
      <3>5. owner' \in [Tids -> Tids]
        BY <3>1, <3>4 DEF TypeOK
      <3> QED BY <1>8, <2>2, <3>3, <3>5 DEF CreateThread, TypeOK
    <2> QED BY <2>1, <2>2
  <1>9. ASSUME NEW t \in slots, StartThread(t) PROVE TypeOK'
    BY <1>t, <1>9 DEF StartThread, TypeOK, States
  <1>10. ASSUME NEW loaded \in BOOLEAN, CopyProcess(loaded) PROVE TypeOK'
    <2>1. CASE current_thread # owner[current_thread] \/ FreeSlots = {}
      BY <1>s, <1>10, <2>1 DEF CopyProcess, Panics
    <2>2. CASE current_thread = owner[current_thread] /\ FreeSlots # {}
      <3> DEFINE t == First(FreeSlots)
      <3>1. t \in Tids /\ current_thread \in Tids
        BY <1>u, <1>10, <2>2 DEF CopyProcess, Calling
      <3> DEFINE inherited == AtLeast(AtMost(quantum[current_thread], QUANTUM_MAX),
                                      QUANTUM_MIN)
      <3> HIDE DEF t
      <3>2. inherited \in 1 .. QuantumCap
        BY <3>1, QuantumBounds DEF TypeOK
      <3> HIDE DEF inherited
      <3>3. quantum' \in [Tids -> 1 .. QuantumCap]
        <4>1. quantum' = IF loaded
                         THEN [quantum EXCEPT ![current_thread] = QUANTUM_SYSTEM_THRESHOLD,
                                              ![t] = QUANTUM_SYSTEM_THRESHOLD]
                         ELSE [quantum EXCEPT ![t] = inherited]
          BY <1>10, <2>2 DEF CopyProcess, t, inherited
        <4> QED BY <3>1, <3>2, <4>1, CapFacts DEF TypeOK
      <3>4. state' \in [Tids -> States] /\ saved' \in [Tids -> BOOLEAN]
        BY <1>10, <2>2, <3>1 DEF CopyProcess, TypeOK, States, t
      <3>5. /\ slots' = slots \cup {t} /\ processes' = processes \cup {t}
            /\ used' = [used EXCEPT ![t] = TRUE] /\ owner' = [owner EXCEPT ![t] = t]
        BY <1>10, <2>2 DEF CopyProcess, t
      <3>6. /\ slots' \subseteq Tids /\ INIT_TID \in slots' /\ used' \in [Tids -> BOOLEAN]
            /\ owner' \in [Tids -> Tids] /\ processes' \subseteq Tids
        BY <3>1, <3>5 DEF TypeOK
      <3> QED BY <1>10, <2>2, <3>3, <3>4, <3>6 DEF CopyProcess, TypeOK
    <2> QED BY <2>1, <2>2
  <1>11. ASSUME NEW t \in slots, Focus(t) PROVE TypeOK'
    BY <1>t, <1>11, TidFacts, QuantumFacts DEF Focus, TypeOK
  <1>12. ASSUME NEW t \in slots, LoseFocus(t) PROVE TypeOK'
    BY <1>12, TidFacts DEF LoseFocus, TypeOK
  <1>13. CASE RegisterDs
    <2>1. CASE ds_tid # NoTid
      BY <1>s, <1>13, <2>1 DEF RegisterDs, Panics
    <2>2. CASE ds_tid = NoTid
      BY <1>13, <2>2, TidFacts, QuantumFacts DEF RegisterDs, Calling, TypeOK
    <2> QED BY <2>1, <2>2
  <1>14. ASSUME NEW t \in slots, PostMessage(t) PROVE TypeOK'
    <2>1. CASE used[t]
      BY <1>t, <1>14, <2>1, NotifyTypeOK DEF PostMessage, TypeOK
    <2>2. CASE ~used[t]
      BY <1>s, <1>14, <2>2 DEF PostMessage, Panics
    <2> QED BY <2>1, <2>2
  <1>15. CASE WriteFile
    BY <1>15, TidFacts, StatesType DEF WriteFile, TypeOK
  <1>16. ASSUME NEW yields \in BOOLEAN, UseSocket(yields) PROVE TypeOK'
    <2>1. credits' \in [Tids -> 0 .. 2]
      BY <1>16 DEF UseSocket, Calling, MoreCredits, AtMost, TypeOK
    <2>2. yield_in_progress' \in [Tids -> BOOLEAN]
      BY <1>16 DEF UseSocket, Calling, TypeOK
    <2> QED BY <1>16, <2>1, <2>2 DEF UseSocket, TypeOK
  <1>17. ASSUME NEW locked \in BOOLEAN, TaskswitchLock(locked) \/ SchedulerLock(locked)
         PROVE  TypeOK'
    BY <1>17 DEF TaskswitchLock, SchedulerLock, TypeOK
  <1>18. CASE ReadEmptySocket
    BY <1>s, <1>18 DEF ReadEmptySocket, Panics
  <1> QED
    BY <1>1, <1>2, <1>3, <1>5, <1>6, <1>7, <1>8, <1>9, <1>10, <1>11, <1>12, <1>13, <1>14,
       <1>15, <1>16, <1>17, <1>18
    DEF SystemCall

LEMMA StepTypeOK == TypeOK /\ [Next]_vars => TypeOK'
  <1> SUFFICES ASSUME TypeOK, [Next]_vars PROVE TypeOK'
    OBVIOUS
  <1> USE DEF table, requests, share, round, timeout, roles, locks
  <1>s. \A reason \in Panics : Stop(reason) => TypeOK'
    BY DEF Stop, TypeOK
  <1>1. CASE InputForeground
    <2>1. CASE used[foreground_thread]
      BY <1>1, <2>1, NotifyTypeOK DEF InputForeground, TypeOK
    <2>2. CASE ~used[foreground_thread]
      BY <1>s, <1>1, <2>2 DEF InputForeground, Panics
    <2> QED BY <2>1, <2>2
  <1>2. CASE InputDs
    <2>1. CASE used[ds_tid]
      <3>1. ds_tid \in Tids /\ NotifyReceiver(ds_tid) /\ credits' = MoreCredits(ds_tid)
        BY <1>2, <2>1 DEF InputDs
      <3>2. credits' \in [Tids -> 0 .. 2]
        BY <3>1 DEF MoreCredits, AtMost, TypeOK
      <3> QED BY <3>1, <3>2, NotifyTypeOK
    <2>2. CASE ~used[ds_tid]
      BY <1>s, <1>2, <2>2 DEF InputDs, Panics
    <2> QED BY <2>1, <2>2
  <1>3. CASE Fault
    <2>1. CASE \/ owner[current_thread] \in {INIT_TID} \cup (Tids \ processes)
               \/ state[INIT_TID] # "READY"
      BY <1>s, <1>3, <2>1 DEF Fault, Panics
    <2>2. CASE ~ (\/ owner[current_thread] \in {INIT_TID} \cup (Tids \ processes)
                  \/ state[INIT_TID] # "READY")
      <3>1. quantum' \in [Tids -> 1 .. QuantumCap]
        <4>1. AtLeast(quantum[INIT_TID], QUANTUM_MIN) \in 1 .. QuantumCap
          BY TidFacts, QuantumBounds DEF TypeOK
        <4>2. quantum' = [quantum EXCEPT ![INIT_TID] =
                            AtLeast(quantum[INIT_TID], QUANTUM_MIN)]
          BY <1>3, <2>2 DEF Fault
        <4> QED BY <4>1, <4>2 DEF TypeOK
      <3>2. state' \in [Tids -> States] /\ saved' \in [Tids -> BOOLEAN]
        BY <1>3, <2>2, TidFacts DEF Fault, Dispatch, TypeOK, States
      <3>3. runningCount' \in [Tids -> 0 .. QuantumCap]
        BY <1>3, <2>2, CapFacts DEF Fault, Dispatch, TypeOK
      <3>4. /\ processes' \subseteq Tids /\ used' \in [Tids -> BOOLEAN]
            /\ current_thread' \in TidOrNone
        BY <1>3, <2>2, TidFacts DEF Fault, Dispatch, TypeOK
      <3> QED BY <1>3, <2>2, <3>1, <3>2, <3>3, <3>4 DEF Fault, TypeOK
    <2> QED BY <2>1, <2>2
  <1>4. CASE Halted \/ UNCHANGED vars
    BY <1>4 DEF Halted, vars, TypeOK
  <1> QED BY <1>1, <1>2, <1>3, <1>4, TickTypeOK, TaskSwitchTypeOK, SystemCallTypeOK DEF Next

\* Every field of the thread table, of the round and of the roles keeps its range, for
\* any table size, workload and quanta: currentq is never NULL, and a quantum never
\* drops to 0.
THEOREM TypeCorrect == Spec => []TypeOK
  <1> QED BY InitTypeOK, StepTypeOK, PTL DEF Spec

-----------------------------------------------------------------------------
(* One processor: only the current thread is RUNNING.  The property is not  *)
(* inductive by itself: create_thread() makes a slot live, which must not   *)
(* hold a RUNNING state, and copy_process() marks the current thread        *)
(* RUNNING, which must have a slot.                                         *)

RunInv ==
    /\ \A t \in Tids \ slots : ~used[t] /\ state[t] # "RUNNING"
    /\ pc = "user" => current_thread \in slots
    /\ OnlyCurrentRuns

\* A step that leaves the table, the states and the current thread alone, or only
\* stops the machine.
LEMMA QuietRunInv ==
    ASSUME RunInv, UNCHANGED <<slots, used, state, current_thread>>,
           pc' = pc \/ pc' \in Panics \/ (pc = "gravity" /\ pc' = "ahead")
    PROVE  RunInv'
  BY DEF RunInv, OnlyCurrentRuns, Panics

\* A free slot that is taken is free.
LEMMA FreeSlotTaken ==
    ASSUME FreeSlots # {}
    PROVE  First(FreeSlots) \in Tids \ slots
  <1>1. FreeSlots \in SUBSET Tids
    BY DEF FreeSlots
  <1> QED BY <1>1, FirstIn DEF FreeSlots

\* The thread that is spawned is a live thread of the table.
LEMMA StandbyTaken ==
    ASSUME Standby # {}
    PROVE  First(Standby) \in Tids /\ used[First(Standby)]
  <1>1. Standby \in SUBSET Tids
    BY DEF Standby
  <1> QED BY <1>1, FirstIn DEF Standby

\* A round makes no thread RUNNING and no thread live.
LEMMA SchedulerRRStates ==
    ASSUME TypeOK, NEW stale \in StaleTids, SchedulerRR(stale), NEW t \in Tids
    PROVE  /\ used'[t] => used[t]
           /\ state'[t] = "RUNNING" => state[t] = "RUNNING"
  <1> DEFINE st0 == IF wake[INIT_TID] = 0 THEN ThreadReady(state, stale) ELSE state
             st1 == Woken(st0)
  <1>1. st0[t] = "RUNNING" => state[t] = "RUNNING"
    BY DEF ThreadReady, TypeOK
  <1>2. st1[t] = "RUNNING" => st0[t] = "RUNNING"
    BY DEF Woken
  <1>3. state' = [u \in Tids |-> IF u \in Dying(st1) THEN "ZOMBIE" ELSE st1[u]]
    BY DEF SchedulerRR
  <1>4. used'[t] => used[t]
    BY DEF SchedulerRR
  <1> HIDE DEF st0, st1
  <1> QED BY <1>1, <1>2, <1>3, <1>4

LEMMA PsSchedulerRunInv ==
    ASSUME TypeOK, RunInv, PsScheduler, pc \in {"gravity", "ahead"},
           pc' \in {"gravity", "ahead"}
    PROVE  RunInv'
  <1>1. slots' = slots
    BY DEF PsScheduler, SchedulerRR, table
  <1>2. ASSUME NEW t \in Tids
        PROVE  /\ used'[t] => used[t]
               /\ state'[t] = "RUNNING" => state[t] = "RUNNING"
    BY SchedulerRRStates DEF PsScheduler, table
  <1> QED BY <1>1, <1>2 DEF RunInv, OnlyCurrentRuns

LEMMA TickRunInv == TypeOK /\ RunInv /\ Tick => RunInv'
  <1> SUFFICES ASSUME TypeOK, RunInv, Tick PROVE RunInv'
    OBVIOUS
  <1> USE DEF table, requests, share, round, timeout, roles, locks
  <1>1. CASE TickFails
    BY <1>1, QuietRunInv DEF TickFails, Stop, Panics
  <1>2. CASE TickLocked
    BY <1>2, QuietRunInv DEF TickLocked
  <1>3. CASE TickInQuantum
    <2>1. \A t \in Tids : state'[t] = "RUNNING" => state[t] = "RUNNING"
      BY <1>3 DEF TickInQuantum, CurrentIsLive, TypeOK
    <2>2. UNCHANGED <<slots, used, current_thread, pc>>
      BY <1>3 DEF TickInQuantum
    <2> QED BY <2>1, <2>2 DEF RunInv, OnlyCurrentRuns
  <1>4. CASE TickPreempts
    <2>1. /\ \A t \in Tids : state'[t] = "RUNNING" => state[t] = "RUNNING"
          /\ state'[current_thread] # "RUNNING"
      BY <1>4 DEF TickPreempts, EndOfQuantum, CurrentIsLive, Preempted, TypeOK
    <2>2. UNCHANGED <<slots, used, current_thread>> /\ pc = "user" /\ pc' = "gravity"
      BY <1>4 DEF TickPreempts, EndOfQuantum
    <2> QED BY <2>1, <2>2 DEF RunInv, OnlyCurrentRuns
  <1>5. CASE TickSpawns
    <2> DEFINE s == First(Standby)
    <2>1. s \in Tids /\ used[s]
      BY <1>5, StandbyTaken DEF TickSpawns
    <2>2. state' = [Preempted EXCEPT ![s] = "RUNNING"] /\ current_thread' = s
      BY <1>5 DEF TickSpawns
    <2>3. UNCHANGED <<slots, used, pc>> /\ pc = "user"
      BY <1>5 DEF TickSpawns, EndOfQuantum
    <2> HIDE DEF s
    <2>4. \A t \in Tids : state'[t] = "RUNNING"
                            => t = s \/ (state[t] = "RUNNING" /\ t # current_thread)
      BY <2>1, <2>2 DEF Preempted, TypeOK
    <2>5. s \in slots
      BY <2>1 DEF RunInv
    <2> QED BY <2>1, <2>2, <2>3, <2>4, <2>5 DEF RunInv, OnlyCurrentRuns
  <1>6. CASE TickCannotSpawn
    BY <1>6, QuietRunInv DEF TickCannotSpawn, Stop, Panics
  <1> QED BY <1>1, <1>2, <1>3, <1>4, <1>5, <1>6 DEF Tick

LEMMA TaskSwitchRunInv == TypeOK /\ RunInv /\ TaskSwitch => RunInv'
  <1> SUFFICES ASSUME TypeOK, RunInv, TaskSwitch PROVE RunInv'
    OBVIOUS
  <1> USE DEF table, requests, share, round, timeout, roles, locks
  <1>1. CASE PickSingle
    BY <1>1, QuietRunInv DEF PickSingle
  <1>2. CASE PickTimeout
    BY <1>2, QuietRunInv DEF PickTimeout
  <1>3. CASE PickRebuild
    BY <1>3, PsSchedulerRunInv DEF PickRebuild
  <1>4. CASE PickNext
    BY <1>4, QuietRunInv DEF PickNext
  <1>5. CASE GoAhead
    <2>1. currentq \in Tids /\ used[currentq] /\ currentq \in slots
      BY <1>5 DEF GoAhead, TypeOK, RunInv
    <2>2. /\ state' = [state EXCEPT ![currentq] = "RUNNING"] /\ current_thread' = currentq
          /\ UNCHANGED <<slots, used>> /\ pc = "ahead"
          /\ pc' = "user" \/ pc' = "ts validation"
      BY <1>5 DEF GoAhead, Dispatch
    <2> QED BY <2>1, <2>2 DEF RunInv, OnlyCurrentRuns, TypeOK
  <1>6. CASE TryAgain
    BY <1>6, PsSchedulerRunInv DEF TryAgain
  <1> QED BY <1>1, <1>2, <1>3, <1>4, <1>5, <1>6 DEF TaskSwitch, ZeroGravity

LEMMA SystemCallRunInv == TypeOK /\ RunInv /\ SystemCall => RunInv'
  <1> SUFFICES ASSUME TypeOK, RunInv, SystemCall PROVE RunInv'
    OBVIOUS
  <1> USE DEF table, requests, share, round, timeout, roles, locks
  <1>s. \A reason \in Panics : Stop(reason) => RunInv'
    BY QuietRunInv DEF Stop
  <1>t. slots \subseteq Tids
    BY DEF TypeOK
  <1>1. CASE Yield \/ BrokenVessels \/ \E yields \in BOOLEAN : UseSocket(yields)
    BY <1>1, QuietRunInv DEF Yield, BrokenVessels, UseSocket
  <1>2. ASSUME NEW ms \in 1 .. MaxSleep, Sleep(ms) PROVE RunInv'
    BY <1>2, QuietRunInv DEF Sleep
  <1>3. ASSUME NEW locked \in BOOLEAN, TaskswitchLock(locked) \/ SchedulerLock(locked)
        PROVE  RunInv'
    BY <1>3, QuietRunInv DEF TaskswitchLock, SchedulerLock
  <1>4. CASE Exit
    BY <1>4, QuietRunInv DEF Exit, RequestExit
  <1>5. ASSUME NEW t \in slots, ExitThread(t) PROVE RunInv'
    BY <1>s, <1>5, QuietRunInv DEF ExitThread, RequestExit, Panics
  <1>6. CASE WaitPid
    BY <1>6 DEF WaitPid, RunInv, OnlyCurrentRuns, TypeOK
  <1>7. CASE CreateThread
    <2>1. CASE FreeSlots = {}
      BY <1>s, <1>7, <2>1 DEF CreateThread, Panics
    <2>2. CASE FreeSlots # {}
      <3> DEFINE n == First(FreeSlots)
      <3>1. n \in Tids \ slots
        BY <2>2, FreeSlotTaken
      <3>2. /\ slots' = slots \cup {n} /\ used' = [used EXCEPT ![n] = TRUE]
            /\ UNCHANGED <<state, current_thread, pc>>
        BY <1>7, <2>2 DEF CreateThread
      <3> HIDE DEF n
      <3>3. state[n] # "RUNNING"
        BY <3>1 DEF RunInv
      <3> QED BY <3>1, <3>2, <3>3 DEF RunInv, OnlyCurrentRuns, TypeOK
    <2> QED BY <2>1, <2>2
  <1>8. ASSUME NEW t \in slots, StartThread(t) PROVE RunInv'
    BY <1>t, <1>8 DEF StartThread, RunInv, OnlyCurrentRuns, TypeOK
  <1>9. ASSUME NEW loaded \in BOOLEAN, CopyProcess(loaded) PROVE RunInv'
    <2>1. CASE current_thread # owner[current_thread] \/ FreeSlots = {}
      BY <1>s, <1>9, <2>1 DEF CopyProcess, Panics
    <2>2. CASE current_thread = owner[current_thread] /\ FreeSlots # {}
      <3> DEFINE n == First(FreeSlots)
                 born == IF loaded THEN "STANDBY" ELSE "BLOCKED"
      <3>1. n \in Tids \ slots
        BY <2>2, FreeSlotTaken
      <3>2. /\ slots' = slots \cup {n} /\ used' = [used EXCEPT ![n] = TRUE]
            /\ state' = [state EXCEPT ![current_thread] = "RUNNING", ![n] = born]
            /\ UNCHANGED <<current_thread, pc>> /\ pc = "user"
        BY <1>9, <2>2 DEF CopyProcess, Calling
      <3>3. born # "RUNNING"
        OBVIOUS
      <3> HIDE DEF n, born
      <3>4. \A t \in Tids : state'[t] = "RUNNING"
                              => t # n /\ (t = current_thread \/ state[t] = "RUNNING")
        BY <3>1, <3>2, <3>3 DEF TypeOK
      <3> QED BY <3>1, <3>2, <3>4 DEF RunInv, OnlyCurrentRuns, TypeOK
    <2> QED BY <2>1, <2>2
  <1>10. ASSUME NEW t \in slots, Focus(t) \/ LoseFocus(t) PROVE RunInv'
    BY <1>10, QuietRunInv DEF Focus, LoseFocus
  <1>11. CASE RegisterDs
    BY <1>s, <1>11, QuietRunInv DEF RegisterDs, Panics
  <1>12. ASSUME NEW t \in slots, PostMessage(t) PROVE RunInv'
    BY <1>s, <1>12, QuietRunInv DEF PostMessage, NotifyReceiver, Panics
  <1>13. CASE WriteFile
    <2>1. \A t \in Tids : state'[t] = "RUNNING" => state[t] = "RUNNING"
      BY <1>13 DEF WriteFile, ThreadReady, TypeOK
    <2>2. UNCHANGED <<slots, used, current_thread, pc>>
      BY <1>13 DEF WriteFile
    <2> QED BY <2>1, <2>2 DEF RunInv, OnlyCurrentRuns
  <1>14. CASE ReadEmptySocket
    BY <1>s, <1>14 DEF ReadEmptySocket, Panics
  <1> QED
    BY <1>1, <1>2, <1>3, <1>4, <1>5, <1>6, <1>7, <1>8, <1>9, <1>10, <1>11, <1>12, <1>13,
       <1>14
    DEF SystemCall

LEMMA StepRunInv == TypeOK /\ RunInv /\ [Next]_vars => RunInv'
  <1> SUFFICES ASSUME TypeOK, RunInv, [Next]_vars PROVE RunInv'
    OBVIOUS
  <1> USE DEF table, requests, share, round, timeout, roles, locks
  <1>s. \A reason \in Panics : Stop(reason) => RunInv'
    BY QuietRunInv DEF Stop
  <1>1. CASE InputForeground \/ InputDs
    BY <1>s, <1>1, QuietRunInv DEF InputForeground, InputDs, NotifyReceiver, Panics
  <1>2. CASE Fault
    <2>1. CASE \/ owner[current_thread] \in {INIT_TID} \cup (Tids \ processes)
               \/ state[INIT_TID] # "READY"
      BY <1>s, <1>2, <2>1 DEF Fault, Panics
    <2>2. CASE ~ (\/ owner[current_thread] \in {INIT_TID} \cup (Tids \ processes)
                  \/ state[INIT_TID] # "READY")
      <3>1. /\ state' = [state EXCEPT ![INIT_TID] = "RUNNING"] /\ slots' = slots
            /\ used' = [used EXCEPT ![current_thread] = FALSE]
            /\ current_thread' = INIT_TID /\ pc = "user" /\ pc' = "user"
            /\ current_thread \in Tids
        BY <1>2, <2>2 DEF Fault, Dispatch, Calling
      <3>2. INIT_TID \in slots /\ INIT_TID \in Tids
        BY TidFacts DEF TypeOK
      <3> QED BY <3>1, <3>2 DEF RunInv, OnlyCurrentRuns, TypeOK
    <2> QED BY <2>1, <2>2
  <1>3. CASE Halted \/ UNCHANGED vars
    BY <1>3, QuietRunInv DEF Halted, vars
  <1> QED BY <1>1, <1>2, <1>3, TickRunInv, TaskSwitchRunInv, SystemCallRunInv DEF Next

\* Whatever the programs call, whatever faults, and whatever the uninitialised pointer
\* of __scheduler_rr() holds, no thread but the current one is marked RUNNING.
THEOREM OneThreadRuns == Spec => []OnlyCurrentRuns
  <1>1. Init => RunInv
    BY TidFacts DEF Init, RunInv, OnlyCurrentRuns
  <1>2. RunInv => OnlyCurrentRuns
    BY DEF RunInv
  <1> QED BY <1>1, <1>2, InitTypeOK, StepTypeOK, StepRunInv, PTL DEF Spec

-----------------------------------------------------------------------------
(* Without faults, the checks of __task_switch() never fail and the threads *)
(* that input is sent to are live.  A thread stops being live only when a   *)
(* round reaps it, so it must be shown that the round that makes the        *)
(* foreground thread a ZOMBIE already takes the focus away.                 *)

LiveInv ==
    /\ \A t \in Tids : used[t] => owner[t] \in processes
    /\ pc = "user" => current_thread \in Tids /\ used[current_thread]
    /\ SwitchIsValid
    /\ foreground_thread \in Tids =>
          used[foreground_thread] /\ state[foreground_thread] # "ZOMBIE"
    /\ ds_tid \in Tids => used[ds_tid]

\* A step that makes no thread a ZOMBIE and leaves the table and the roles alone.
LEMMA QuietLiveInv ==
    ASSUME LiveInv, UNCHANGED <<used, owner, processes, foreground_thread, ds_tid>>,
           \A t \in Tids : state'[t] = "ZOMBIE" => state[t] = "ZOMBIE",
           \/ pc' \in (Panics \cup {"gravity", "ahead"}) \ {"ts validation"}
           \/ pc' = pc /\ current_thread' = current_thread
    PROVE  LiveInv'
  BY DEF LiveInv, SwitchIsValid, Panics

\* A machine that stops for another reason.
LEMMA StopLiveInv ==
    ASSUME LiveInv, NEW reason \in Panics \ {"ts validation"}, Stop(reason)
    PROVE  LiveInv'
  BY QuietLiveInv DEF Stop, table, roles

\* A round reaps neither the foreground thread nor, without unregistering it, the
\* display server.
LEMMA SchedulerRRLiveInv ==
    ASSUME TypeOK, LiveInv, NEW stale \in StaleTids, SchedulerRR(stale),
           pc' \in {"gravity", "ahead"}
    PROVE  LiveInv'
  <1> DEFINE st0 == IF wake[INIT_TID] = 0 THEN ThreadReady(state, stale) ELSE state
             st1 == Woken(st0)
  <1>1. \A t \in Tids : st1[t] = "ZOMBIE" => state[t] = "ZOMBIE"
    BY DEF Woken, ThreadReady, TypeOK
  <1>2. /\ used' = [t \in Tids |-> used[t] /\ t \notin Reaped(st1)]
        /\ state' = [t \in Tids |-> IF t \in Dying(st1) THEN "ZOMBIE" ELSE st1[t]]
        /\ ds_tid' = DsWithout(Reaped(st1))
        /\ foreground_thread' = IF foreground_thread \in Dying(st1) THEN NoTid
                                ELSE foreground_thread
        /\ UNCHANGED <<owner, processes>>
    BY DEF SchedulerRR
  <1> HIDE DEF st0, st1
  <1>3. \A t \in Tids : used'[t] => owner'[t] \in processes'
    BY <1>2 DEF LiveInv
  <1>4. NoTid \notin Tids
    BY TableAssumption DEF NoTid, Tids
  <1>5. ds_tid' \in Tids => used'[ds_tid']
    BY <1>2, <1>4 DEF LiveInv, DsWithout
  <1>6. foreground_thread' \in Tids =>
            used'[foreground_thread'] /\ state'[foreground_thread'] # "ZOMBIE"
    <2> SUFFICES ASSUME foreground_thread' \in Tids
                 PROVE  /\ used'[foreground_thread']
                        /\ state'[foreground_thread'] # "ZOMBIE"
      OBVIOUS
    <2>1. foreground_thread' = foreground_thread /\ foreground_thread \notin Dying(st1)
      BY <1>2, <1>4
    <2>2. used[foreground_thread] /\ st1[foreground_thread] # "ZOMBIE"
      BY <1>1, <2>1 DEF LiveInv
    <2>3. foreground_thread \notin Reaped(st1)
      BY <2>2 DEF Reaped
    <2>4. used'[foreground_thread]
      BY <1>2, <2>1, <2>2, <2>3
    <2>5. state'[foreground_thread] # "ZOMBIE"
      BY <1>2, <2>1, <2>2
    <2> QED BY <2>1, <2>4, <2>5
  <1> QED BY <1>3, <1>5, <1>6 DEF LiveInv, SwitchIsValid

LEMMA PsSchedulerLiveInv ==
    ASSUME TypeOK, LiveInv, PsScheduler, pc' \in {"gravity", "ahead"}
    PROVE  LiveInv'
  <1>1. CASE UNCHANGED <<table, state, roles>>
    BY <1>1, QuietLiveInv DEF table, roles
  <1>2. CASE \E stale \in StaleTids : SchedulerRR(stale)
    BY <1>2, SchedulerRRLiveInv
  <1> QED BY <1>1, <1>2 DEF PsScheduler

LEMMA TickLiveInv == TypeOK /\ LiveInv /\ Tick => LiveInv'
  <1> SUFFICES ASSUME TypeOK, LiveInv, Tick PROVE LiveInv'
    OBVIOUS
  <1> USE DEF table, requests, share, round, timeout, roles, locks
  <1>1. CASE TickFails
    BY <1>1 DEF TickFails, CurrentIsLive, LiveInv
  <1>2. CASE TickLocked
    BY <1>2, QuietLiveInv DEF TickLocked
  <1>3. CASE TickInQuantum
    <2>1. \A t \in Tids : state'[t] = "ZOMBIE" => state[t] = "ZOMBIE"
      BY <1>3 DEF TickInQuantum, CurrentIsLive, TypeOK
    <2> QED BY <1>3, <2>1, QuietLiveInv DEF TickInQuantum
  <1>4. CASE TickPreempts
    <2>1. \A t \in Tids : state'[t] = "ZOMBIE" => state[t] = "ZOMBIE"
      BY <1>4 DEF TickPreempts, Preempted, TypeOK
    <2> QED BY <1>4, <2>1, QuietLiveInv DEF TickPreempts
  <1>5. CASE TickSpawns
    <2> DEFINE s == First(Standby)
    <2>1. s \in Tids /\ used[s]
      BY <1>5, StandbyTaken DEF TickSpawns
    <2>2. state' = [Preempted EXCEPT ![s] = "RUNNING"] /\ current_thread' = s
      BY <1>5 DEF TickSpawns
    <2>3. UNCHANGED <<used, owner, processes, foreground_thread, ds_tid, pc>>
      BY <1>5 DEF TickSpawns
    <2> HIDE DEF s
    <2>4. \A t \in Tids : state'[t] = "ZOMBIE" => state[t] = "ZOMBIE"
      BY <2>1, <2>2 DEF Preempted, TypeOK
    <2> QED BY <2>1, <2>2, <2>3, <2>4 DEF LiveInv, SwitchIsValid
  <1>6. CASE TickCannotSpawn
    BY <1>6, StopLiveInv DEF TickCannotSpawn, Panics
  <1> QED BY <1>1, <1>2, <1>3, <1>4, <1>5, <1>6 DEF Tick

LEMMA TaskSwitchLiveInv == TypeOK /\ LiveInv /\ TaskSwitch => LiveInv'
  <1> SUFFICES ASSUME TypeOK, LiveInv, TaskSwitch PROVE LiveInv'
    OBVIOUS
  <1> USE DEF table, requests, share, round, timeout, roles, locks
  <1>1. CASE PickSingle \/ PickTimeout \/ PickNext
    BY <1>1, QuietLiveInv DEF PickSingle, PickTimeout, PickNext
  <1>2. CASE PickRebuild
    BY <1>2, PsSchedulerLiveInv DEF PickRebuild
  <1>3. CASE GoAhead
    <2>1. currentq \in Tids /\ used[currentq] /\ owner[currentq] \in processes
      BY <1>3 DEF GoAhead, TypeOK, LiveInv
    <2>2. /\ state' = [state EXCEPT ![currentq] = "RUNNING"] /\ current_thread' = currentq
          /\ UNCHANGED <<used, owner, processes, foreground_thread, ds_tid>>
          /\ pc' = "user"
      BY <1>3, <2>1 DEF GoAhead, Dispatch
    <2> QED BY <2>1, <2>2 DEF LiveInv, SwitchIsValid, TypeOK
  <1>4. CASE TryAgain
    BY <1>4, PsSchedulerLiveInv DEF TryAgain
  <1> QED BY <1>1, <1>2, <1>3, <1>4 DEF TaskSwitch, ZeroGravity

LEMMA SystemCallLiveInv == TypeOK /\ RunInv /\ LiveInv /\ SystemCall => LiveInv'
  <1> SUFFICES ASSUME TypeOK, RunInv, LiveInv, SystemCall PROVE LiveInv'
    OBVIOUS
  <1> USE DEF table, requests, share, round, timeout, roles, locks
  <1>t. slots \subseteq Tids
    BY DEF TypeOK
  <1>1. CASE Yield \/ BrokenVessels \/ \E yields \in BOOLEAN : UseSocket(yields)
    BY <1>1, QuietLiveInv DEF Yield, BrokenVessels, UseSocket
  <1>2. ASSUME NEW ms \in 1 .. MaxSleep, Sleep(ms) PROVE LiveInv'
    BY <1>2, QuietLiveInv DEF Sleep
  <1>3. ASSUME NEW locked \in BOOLEAN, TaskswitchLock(locked) \/ SchedulerLock(locked)
        PROVE  LiveInv'
    BY <1>3, QuietLiveInv DEF TaskswitchLock, SchedulerLock
  <1>4. CASE Exit
    BY <1>4, QuietLiveInv DEF Exit, RequestExit
  <1>5. ASSUME NEW t \in slots, ExitThread(t) PROVE LiveInv'
    BY <1>5, QuietLiveInv, StopLiveInv DEF ExitThread, RequestExit, Panics
  <1>6. CASE WaitPid
    <2>1. \A t \in Tids : state'[t] = "ZOMBIE" => state[t] = "ZOMBIE"
      BY <1>6 DEF WaitPid, TypeOK
    <2> QED BY <1>6, <2>1, QuietLiveInv DEF WaitPid
  <1>7. CASE CreateThread
    <2>1. CASE FreeSlots = {}
      BY <1>7, <2>1, StopLiveInv DEF CreateThread, Panics
    <2>2. CASE FreeSlots # {}
      <3> DEFINE n == First(FreeSlots)
      <3>1. n \in Tids \ slots
        BY <2>2, FreeSlotTaken
      <3>2. /\ used' = [used EXCEPT ![n] = TRUE]
            /\ owner' = [owner EXCEPT ![n] = owner[current_thread]]
            /\ UNCHANGED <<processes, state, foreground_thread, ds_tid, current_thread, pc>>
            /\ pc = "user"
        BY <1>7, <2>2 DEF CreateThread, Calling
      <3> HIDE DEF n
      <3>3. ~used[n] /\ owner[current_thread] \in processes
        BY <3>1, <3>2 DEF RunInv, LiveInv
      <3> QED BY <3>1, <3>2, <3>3 DEF LiveInv, SwitchIsValid, TypeOK
    <2> QED BY <2>1, <2>2
  <1>8. ASSUME NEW t \in slots, StartThread(t) PROVE LiveInv'
    <2>1. \A u \in Tids : state'[u] = "ZOMBIE" => state[u] = "ZOMBIE"
      BY <1>8 DEF StartThread, TypeOK
    <2> QED BY <1>8, <2>1, QuietLiveInv DEF StartThread
  <1>9. ASSUME NEW loaded \in BOOLEAN, CopyProcess(loaded) PROVE LiveInv'
    <2>1. CASE current_thread # owner[current_thread] \/ FreeSlots = {}
      BY <1>9, <2>1, StopLiveInv DEF CopyProcess, Panics
    <2>2. CASE current_thread = owner[current_thread] /\ FreeSlots # {}
      <3> DEFINE n == First(FreeSlots)
                 born == IF loaded THEN "STANDBY" ELSE "BLOCKED"
      <3>1. n \in Tids \ slots
        BY <2>2, FreeSlotTaken
      <3>2. /\ used' = [used EXCEPT ![n] = TRUE] /\ owner' = [owner EXCEPT ![n] = n]
            /\ processes' = processes \cup {n}
            /\ state' = [state EXCEPT ![current_thread] = "RUNNING", ![n] = born]
            /\ UNCHANGED <<foreground_thread, ds_tid, current_thread, pc>> /\ pc = "user"
        BY <1>9, <2>2 DEF CopyProcess, Calling
      <3>3. born # "ZOMBIE"
        OBVIOUS
      <3> HIDE DEF n, born
      <3>4. \A t \in Tids : state'[t] = "ZOMBIE" => state[t] = "ZOMBIE"
        BY <3>1, <3>2, <3>3 DEF TypeOK
      <3>5. \A t \in Tids : used'[t] => owner'[t] \in processes'
        BY <3>1, <3>2 DEF LiveInv, TypeOK
      <3>6. \A t \in Tids : used[t] => used'[t]
        BY <3>1, <3>2 DEF TypeOK
      <3> QED BY <3>2, <3>4, <3>5, <3>6 DEF LiveInv, SwitchIsValid
    <2> QED BY <2>1, <2>2
  <1>10. ASSUME NEW t \in slots, Focus(t) \/ LoseFocus(t) PROVE LiveInv'
    <2>1. NoTid \notin Tids
      BY TableAssumption DEF NoTid, Tids
    <2> QED BY <1>t, <1>10, <2>1 DEF Focus, LoseFocus, LiveInv, SwitchIsValid
  <1>11. CASE RegisterDs
    <2>1. CASE ds_tid # NoTid
      BY <1>11, <2>1, StopLiveInv DEF RegisterDs, Panics
    <2>2. CASE ds_tid = NoTid
      BY <1>11, <2>2 DEF RegisterDs, LiveInv, SwitchIsValid
    <2> QED BY <2>1, <2>2
  <1>12. ASSUME NEW t \in slots, PostMessage(t) PROVE LiveInv'
    BY <1>12, QuietLiveInv, StopLiveInv DEF PostMessage, NotifyReceiver, Panics
  <1>13. CASE WriteFile
    <2>1. \A t \in Tids : state'[t] = "ZOMBIE" => state[t] = "ZOMBIE"
      BY <1>13 DEF WriteFile, ThreadReady, TypeOK
    <2> QED BY <1>13, <2>1, QuietLiveInv DEF WriteFile
  <1>14. CASE ReadEmptySocket
    BY <1>14, StopLiveInv DEF ReadEmptySocket, Panics
  <1> QED
    BY <1>1, <1>2, <1>3, <1>4, <1>5, <1>6, <1>7, <1>8, <1>9, <1>10, <1>11, <1>12, <1>13,
       <1>14
    DEF SystemCall

NoFaults == \A t \in Tids : "fault" \notin Calls[t]

LEMMA StepLiveInv ==
    ASSUME NoFaults
    PROVE  TypeOK /\ RunInv /\ LiveInv /\ [Next]_vars => LiveInv'
  <1> SUFFICES ASSUME TypeOK, RunInv, LiveInv, [Next]_vars PROVE LiveInv'
    OBVIOUS
  <1> USE DEF table, requests, share, round, timeout, roles, locks
  <1>1. CASE InputForeground \/ InputDs
    BY <1>1, QuietLiveInv, StopLiveInv DEF InputForeground, InputDs, NotifyReceiver, Panics
  <1>2. CASE Fault
    BY <1>2 DEF Fault, Calling, NoFaults
  <1>3. CASE Halted \/ UNCHANGED vars
    BY <1>3, QuietLiveInv DEF Halted, vars
  <1> QED BY <1>1, <1>2, <1>3, TickLiveInv, TaskSwitchLiveInv, SystemCallLiveInv DEF Next

LEMMA LiveInvHolds == ASSUME NoFaults PROVE Spec => []LiveInv
  <1>1. Init => RunInv
    BY TidFacts DEF Init, RunInv, OnlyCurrentRuns
  <1>2. ASSUME Init PROVE LiveInv
    <2>1. INIT_TID \in Tids /\ NoTid \notin Tids
      BY TableAssumption DEF INIT_TID, NoTid, Tids
    <2>2. \A t \in Tids : owner[t] \in processes
      BY <1>2 DEF Init
    <2>3. used[INIT_TID] /\ state[INIT_TID] = "RUNNING"
      BY <1>2, <2>1 DEF Init
    <2> QED BY <1>2, <2>1, <2>2, <2>3 DEF Init, LiveInv, SwitchIsValid
  <1> QED
    BY <1>1, <1>2, InitTypeOK, StepTypeOK, StepRunInv, StepLiveInv, PTL DEF Spec

\* As long as no thread faults, no check that __task_switch() makes of the current
\* thread, of its process and of the target's process fails: threads and processes
\* come and go, but a live thread never outlives its process structure.
THEOREM SwitchAlwaysValid == ASSUME NoFaults PROVE Spec => []SwitchIsValid
  <1>1. LiveInv => SwitchIsValid
    BY DEF LiveInv
  <1> QED BY <1>1, LiveInvHolds, PTL

\* As long as no thread faults, the thread with the focus and the display server are
\* live whenever an input interrupt can arrive: __scheduler_rr() takes the focus away
\* before it reaps the thread, and unregisters the display server with it.
THEOREM ReceiversAlwaysLive == ASSUME NoFaults PROVE Spec => []ReceiversLive
  <1>1. TypeOK /\ LiveInv => ReceiversLive
    BY TidFacts DEF TypeOK, LiveInv, ReceiversLive
  <1> QED BY <1>1, LiveInvHolds, TypeCorrect, PTL

-----------------------------------------------------------------------------
(* What the dispatcher restores was saved.  A round makes READY the threads *)
(* whose sleep is over, and the thread that TmpThread points to, so their   *)
(* contexts must be saved as well: the WAITING threads, and the init thread *)
(* in any state.                                                            *)

Searching == pc \in {"gravity", "ahead"}

\* The comment at sched.c:316, "Wake up init thread.", means thread 0 or, when the
\* pointer holds no thread, none.
StaleIsInit == StaleTids \subseteq {NoTid, INIT_TID}

Suspended == {"READY", "WAITING"}

SavedInv ==
    /\ INIT_TID # current_thread \/ Searching => saved[INIT_TID]
    /\ \A t \in Tids : used[t] /\ state[t] \in Suspended /\ (t # current_thread \/ Searching)
                         => saved[t]
    /\ \A t \in Tids \ slots : state[t] \notin Suspended

\* A step that keeps the contexts and suspends no thread.
LEMMA QuietSavedInv ==
    ASSUME SavedInv, UNCHANGED <<slots, used, saved, current_thread>>,
           \A t \in Tids : state'[t] \in Suspended => state[t] \in Suspended,
           Searching' => Searching
    PROVE  SavedInv'
  BY DEF SavedInv

LEMMA StopSavedInv ==
    ASSUME SavedInv, NEW reason \in Panics, Stop(reason)
    PROVE  SavedInv'
  BY QuietSavedInv DEF Stop, table, Panics, Searching

\* A round suspends only threads that were suspended already, and the init thread.
LEMMA SchedulerRRSuspends ==
    ASSUME TypeOK, StaleIsInit, NEW stale \in StaleTids, SchedulerRR(stale), NEW t \in Tids
    PROVE  /\ used'[t] => used[t]
           /\ state'[t] \in Suspended => state[t] \in Suspended \/ t = INIT_TID
  <1> DEFINE st0 == IF wake[INIT_TID] = 0 THEN ThreadReady(state, stale) ELSE state
             st1 == Woken(st0)
  <1>1. st0[t] \in Suspended => state[t] \in Suspended \/ t = INIT_TID
    <2>1. NoTid \notin Tids
      BY TableAssumption DEF NoTid, Tids
    <2> QED BY <2>1 DEF ThreadReady, TypeOK, StaleIsInit
  <1>2. st1[t] \in Suspended => st0[t] \in Suspended
    BY DEF Woken, Suspended
  <1>3. state' = [u \in Tids |-> IF u \in Dying(st1) THEN "ZOMBIE" ELSE st1[u]]
    BY DEF SchedulerRR
  <1>4. used'[t] => used[t]
    BY DEF SchedulerRR
  <1> HIDE DEF st0, st1
  <1> QED BY <1>1, <1>2, <1>3, <1>4 DEF Suspended

LEMMA PsSchedulerSavedInv ==
    ASSUME TypeOK, StaleIsInit, SavedInv, PsScheduler, Searching
    PROVE  SavedInv'
  <1>1. UNCHANGED <<slots, saved>>
    BY DEF PsScheduler, SchedulerRR, table
  <1>2. ASSUME NEW t \in Tids
        PROVE  /\ used'[t] => used[t]
               /\ state'[t] \in Suspended => state[t] \in Suspended \/ t = INIT_TID
    BY SchedulerRRSuspends DEF PsScheduler, table
  <1>3. INIT_TID \in slots
    BY DEF TypeOK
  <1> QED BY <1>1, <1>2, <1>3 DEF SavedInv

LEMMA TickSavedInv == TypeOK /\ RunInv /\ SavedInv /\ Tick => SavedInv'
  <1> SUFFICES ASSUME TypeOK, RunInv, SavedInv, Tick PROVE SavedInv'
    OBVIOUS
  <1> USE DEF table, requests, share, round, timeout, roles, locks
  <1>t. CurrentIsLive => current_thread \in Tids /\ current_thread \in slots
    BY DEF CurrentIsLive, RunInv
  <1>1. CASE TickFails
    BY <1>1, StopSavedInv DEF TickFails, Panics
  <1>2. CASE TickLocked
    BY <1>2, QuietSavedInv DEF TickLocked, Searching
  <1>3. CASE TickInQuantum
    <2>1. \A t \in Tids \ {current_thread} : state'[t] = state[t] /\ saved'[t] = saved[t]
      BY <1>3 DEF TickInQuantum, SaveContext, CurrentIsLive, TypeOK
    <2>2. UNCHANGED <<slots, used, current_thread, pc>> /\ pc = "user" /\ CurrentIsLive
      BY <1>3 DEF TickInQuantum
    <2> QED BY <1>t, <2>1, <2>2, TidFacts DEF SavedInv, Searching
  <1>4. CASE TickPreempts
    <2>1. /\ \A t \in Tids \ {current_thread} : state'[t] = state[t] /\ saved'[t] = saved[t]
          /\ saved'[current_thread]
      BY <1>4 DEF TickPreempts, EndOfQuantum, SaveContext, Preempted, CurrentIsLive, TypeOK
    <2>2. UNCHANGED <<slots, used, current_thread>> /\ CurrentIsLive
      BY <1>4 DEF TickPreempts, EndOfQuantum
    <2> QED BY <1>t, <2>1, <2>2, TidFacts DEF SavedInv
  <1>5. CASE TickSpawns
    <2> DEFINE s == First(Standby)
    <2>1. s \in Tids /\ used[s] /\ s # INIT_TID
      BY <1>5, StandbyTaken DEF TickSpawns, CanSpawn
    <2>2. /\ state' = [Preempted EXCEPT ![s] = "RUNNING"] /\ current_thread' = s
          /\ saved' = [SaveContext EXCEPT ![s] = FALSE]
      BY <1>5 DEF TickSpawns
    <2>3. UNCHANGED <<slots, used, pc>> /\ pc = "user" /\ CurrentIsLive
      BY <1>5 DEF TickSpawns, EndOfQuantum
    <2> HIDE DEF s
    <2>4. \A t \in Tids \ {current_thread, s} :
             state'[t] = state[t] /\ saved'[t] = saved[t]
      BY <1>t, <2>1, <2>2, <2>3 DEF Preempted, SaveContext, TypeOK
    <2>5. current_thread # s => saved'[current_thread]
      BY <1>t, <2>1, <2>2, <2>3 DEF SaveContext, TypeOK
    <2>6. s \in slots
      BY <2>1 DEF RunInv
    <2> QED BY <1>t, <2>1, <2>2, <2>3, <2>4, <2>5, <2>6, TidFacts DEF SavedInv, Searching
  <1>6. CASE TickCannotSpawn
    BY <1>6, StopSavedInv DEF TickCannotSpawn, Panics
  <1> QED BY <1>1, <1>2, <1>3, <1>4, <1>5, <1>6 DEF Tick

LEMMA TaskSwitchSavedInv ==
    ASSUME StaleIsInit
    PROVE  TypeOK /\ SavedInv /\ TaskSwitch => SavedInv'
  <1> SUFFICES ASSUME TypeOK, SavedInv, TaskSwitch PROVE SavedInv'
    OBVIOUS
  <1> USE DEF table, requests, share, round, timeout, roles, locks
  <1>1. CASE PickSingle \/ PickTimeout \/ PickNext
    BY <1>1, QuietSavedInv DEF PickSingle, PickTimeout, PickNext, Searching
  <1>2. CASE PickRebuild
    BY <1>2, PsSchedulerSavedInv DEF PickRebuild, Searching
  <1>3. CASE GoAhead
    <2>1. currentq \in Tids /\ Searching /\ ~Searching'
      BY <1>3 DEF GoAhead, TypeOK, Searching
    <2>2. /\ state' = [state EXCEPT ![currentq] = "RUNNING"] /\ current_thread' = currentq
          /\ saved' = [saved EXCEPT ![currentq] = FALSE] /\ UNCHANGED <<slots, used>>
      BY <1>3 DEF GoAhead, Dispatch
    <2>3. \A t \in Tids \ {currentq} : state'[t] = state[t] /\ saved'[t] = saved[t]
      BY <2>1, <2>2 DEF TypeOK
    <2>4. state'[currentq] \notin Suspended
      BY <2>1, <2>2 DEF TypeOK, Suspended
    <2> QED BY <2>1, <2>2, <2>3, <2>4, TidFacts DEF SavedInv
  <1>4. CASE TryAgain
    BY <1>4, PsSchedulerSavedInv DEF TryAgain, Searching
  <1> QED BY <1>1, <1>2, <1>3, <1>4 DEF TaskSwitch, ZeroGravity

LEMMA SystemCallSavedInv == TypeOK /\ RunInv /\ SavedInv /\ SystemCall => SavedInv'
  <1> SUFFICES ASSUME TypeOK, RunInv, SavedInv, SystemCall PROVE SavedInv'
    OBVIOUS
  <1> USE DEF table, requests, share, round, timeout, roles, locks
  <1>t. slots \subseteq Tids
    BY DEF TypeOK
  <1>1. CASE Yield \/ BrokenVessels \/ \E yields \in BOOLEAN : UseSocket(yields)
    BY <1>1, QuietSavedInv DEF Yield, BrokenVessels, UseSocket, Searching
  <1>2. ASSUME NEW ms \in 1 .. MaxSleep, Sleep(ms) PROVE SavedInv'
    BY <1>2, QuietSavedInv DEF Sleep, Searching
  <1>3. ASSUME NEW locked \in BOOLEAN, TaskswitchLock(locked) \/ SchedulerLock(locked)
        PROVE  SavedInv'
    BY <1>3, QuietSavedInv DEF TaskswitchLock, SchedulerLock, Searching
  <1>4. CASE Exit
    BY <1>4, QuietSavedInv DEF Exit, RequestExit, Searching
  <1>5. ASSUME NEW t \in slots, ExitThread(t) PROVE SavedInv'
    BY <1>5, QuietSavedInv, StopSavedInv DEF ExitThread, RequestExit, Panics, Searching
  <1>6. CASE WaitPid
    <2>1. \A t \in Tids : state'[t] \in Suspended => state[t] \in Suspended
      BY <1>6 DEF WaitPid, TypeOK, Suspended
    <2> QED BY <1>6, <2>1, QuietSavedInv DEF WaitPid, Searching
  <1>7. CASE CreateThread
    <2>1. CASE FreeSlots = {}
      BY <1>7, <2>1, StopSavedInv DEF CreateThread, Panics
    <2>2. CASE FreeSlots # {}
      <3> DEFINE n == First(FreeSlots)
      <3>1. n \in Tids \ slots
        BY <2>2, FreeSlotTaken
      <3>2. /\ slots' = slots \cup {n} /\ used' = [used EXCEPT ![n] = TRUE]
            /\ UNCHANGED <<state, saved, current_thread, pc>>
        BY <1>7, <2>2 DEF CreateThread
      <3> HIDE DEF n
      <3>3. state[n] \notin Suspended
        BY <3>1 DEF SavedInv
      <3>4. \A t \in Tids \ {n} : used'[t] = used[t]
        BY <3>1, <3>2 DEF TypeOK
      <3> QED BY <3>2, <3>3, <3>4 DEF SavedInv, Searching
    <2> QED BY <2>1, <2>2
  <1>8. ASSUME NEW t \in slots, StartThread(t) PROVE SavedInv'
    <2>1. \A u \in Tids : state'[u] \in Suspended => state[u] \in Suspended
      BY <1>8 DEF StartThread, TypeOK, Suspended
    <2> QED BY <1>8, <2>1, QuietSavedInv DEF StartThread, Searching
  <1>9. ASSUME NEW loaded \in BOOLEAN, CopyProcess(loaded) PROVE SavedInv'
    <2>1. CASE current_thread # owner[current_thread] \/ FreeSlots = {}
      BY <1>9, <2>1, StopSavedInv DEF CopyProcess, Panics
    <2>2. CASE current_thread = owner[current_thread] /\ FreeSlots # {}
      <3> DEFINE n == First(FreeSlots)
                 born == IF loaded THEN "STANDBY" ELSE "BLOCKED"
                 context == IF loaded THEN FALSE ELSE saved[current_thread]
      <3>1. n \in Tids \ slots
        BY <2>2, FreeSlotTaken
      <3>2. /\ slots' = slots \cup {n} /\ used' = [used EXCEPT ![n] = TRUE]
            /\ state' = [state EXCEPT ![current_thread] = "RUNNING", ![n] = born]
            /\ saved' = [saved EXCEPT ![n] = context]
            /\ UNCHANGED <<current_thread, pc>> /\ pc = "user" /\ current_thread \in Tids
        BY <1>9, <2>2 DEF CopyProcess, Calling
      <3>3. born \notin Suspended
        BY DEF Suspended
      <3> HIDE DEF n, born, context
      <3>4. /\ \A t \in Tids \ {n} : used'[t] = used[t] /\ saved'[t] = saved[t]
            /\ \A t \in Tids \ {n, current_thread} : state'[t] = state[t]
            /\ state'[n] = born
        BY <3>1, <3>2 DEF TypeOK
      <3>5. INIT_TID \in slots
        BY DEF TypeOK
      <3>6. current_thread \in slots
        BY <3>2 DEF RunInv
      <3>7. INIT_TID # current_thread' \/ Searching' => saved'[INIT_TID]
        BY <1>t, <3>1, <3>2, <3>4, <3>5 DEF SavedInv, Searching
      <3>8. ASSUME NEW t \in Tids, used'[t], state'[t] \in Suspended,
                   t # current_thread' \/ Searching'
            PROVE  saved'[t]
        <4>1. t # current_thread /\ t # n
          BY <3>2, <3>3, <3>4, <3>8 DEF Searching
        <4> QED BY <3>4, <3>8, <4>1 DEF SavedInv
      <3>9. \A t \in Tids \ slots' : state'[t] \notin Suspended
        BY <3>2, <3>4, <3>6 DEF SavedInv
      <3> QED BY <3>7, <3>8, <3>9 DEF SavedInv
    <2> QED BY <2>1, <2>2
  <1>10. ASSUME NEW t \in slots, Focus(t) \/ LoseFocus(t) PROVE SavedInv'
    BY <1>10, QuietSavedInv DEF Focus, LoseFocus, Searching
  <1>11. CASE RegisterDs
    BY <1>11, QuietSavedInv, StopSavedInv DEF RegisterDs, Panics, Searching
  <1>12. ASSUME NEW t \in slots, PostMessage(t) PROVE SavedInv'
    BY <1>12, QuietSavedInv, StopSavedInv DEF PostMessage, NotifyReceiver, Panics, Searching
  <1>13. CASE WriteFile
    <2>1. \A t \in Tids \ {INIT_TID} : state'[t] = state[t]
      BY <1>13 DEF WriteFile, ThreadReady, TypeOK
    <2>2. UNCHANGED <<slots, used, saved, current_thread, pc>> /\ INIT_TID \in slots
      BY <1>13 DEF WriteFile, TypeOK
    <2> QED BY <2>1, <2>2 DEF SavedInv, Searching
  <1>14. CASE ReadEmptySocket
    BY <1>14, StopSavedInv DEF ReadEmptySocket, Panics
  <1> QED
    BY <1>1, <1>2, <1>3, <1>4, <1>5, <1>6, <1>7, <1>8, <1>9, <1>10, <1>11, <1>12, <1>13,
       <1>14
    DEF SystemCall

LEMMA StepSavedInv ==
    ASSUME StaleIsInit
    PROVE  TypeOK /\ RunInv /\ SavedInv /\ [Next]_vars => SavedInv'
  <1> SUFFICES ASSUME TypeOK, RunInv, SavedInv, [Next]_vars PROVE SavedInv'
    OBVIOUS
  <1> USE DEF table, requests, share, round, timeout, roles, locks
  <1>1. CASE InputForeground \/ InputDs
    BY <1>1, QuietSavedInv, StopSavedInv
    DEF InputForeground, InputDs, NotifyReceiver, Panics, Searching
  <1>2. CASE Fault
    <2>1. CASE \/ owner[current_thread] \in {INIT_TID} \cup (Tids \ processes)
               \/ state[INIT_TID] # "READY"
      BY <1>2, <2>1, StopSavedInv DEF Fault, Panics
    <2>2. CASE ~ (\/ owner[current_thread] \in {INIT_TID} \cup (Tids \ processes)
                  \/ state[INIT_TID] # "READY")
      <3>1. /\ state' = [state EXCEPT ![INIT_TID] = "RUNNING"] /\ slots' = slots
            /\ saved' = [saved EXCEPT ![INIT_TID] = FALSE]
            /\ used' = [used EXCEPT ![current_thread] = FALSE]
            /\ current_thread' = INIT_TID /\ pc = "user" /\ pc' = "user"
            /\ current_thread \in Tids
        BY <1>2, <2>2 DEF Fault, Dispatch, Calling
      <3>2. INIT_TID \in slots /\ INIT_TID \in Tids
        BY TidFacts DEF TypeOK
      <3>3. /\ \A t \in Tids \ {INIT_TID} : state'[t] = state[t] /\ saved'[t] = saved[t]
            /\ \A t \in Tids : used'[t] => used[t] /\ t # current_thread
        BY <3>1, <3>2 DEF TypeOK
      <3> QED BY <3>1, <3>2, <3>3 DEF SavedInv, Searching
    <2> QED BY <2>1, <2>2
  <1>3. CASE Halted \/ UNCHANGED vars
    BY <1>3, QuietSavedInv DEF Halted, vars, Searching
  <1> QED
    BY <1>1, <1>2, <1>3, TickSavedInv, TaskSwitchSavedInv, SystemCallSavedInv DEF Next

\* If the pointer that __scheduler_rr() uses before it is set holds the init thread, as
\* the comment there intends, or none, the dispatcher only restores contexts that were
\* saved, whatever the programs call and whatever faults: a READY thread that does not
\* run was preempted, slept or gave the processor up after its context was saved.
THEOREM ReadyAlwaysSaved == ASSUME StaleIsInit PROVE Spec => []ReadyIsSaved
  <1>1. Init => RunInv
    BY TidFacts DEF Init, RunInv, OnlyCurrentRuns
  <1>2. Init => SavedInv
    BY TidFacts DEF Init, SavedInv, Searching, Suspended
  <1>3. SavedInv => ReadyIsSaved
    BY DEF SavedInv, ReadyIsSaved, Searching, Suspended
  <1> QED
    BY <1>1, <1>2, <1>3, InitTypeOK, StepTypeOK, StepRunInv, StepSavedInv, PTL DEF Spec

-----------------------------------------------------------------------------
(* A sleeper is left alone until its jiffy.  The kernel itself only wakes   *)
(* it in a round, but do_thread_ready(), schediSelectForExecution() and     *)
(* copy_process() do not look at the state of a thread, so the programs     *)
(* must not use them on one that sleeps.                                    *)

Asleep == {"WAITING", "BLOCKED", "ZOMBIE"}

\* A program that sleeps does not clone, which marks the caller RUNNING; only threads
\* that do not sleep are started; thread 0, which a write to a file makes READY, does
\* not sleep if a program writes; and the stale pointer holds no thread that sleeps,
\* but the init thread, whose wake_jiffy is looked at.
SleepersLeftAlone ==
    /\ \A t \in Tids : ~({"sleep", "clone"} \subseteq Calls[t])
    /\ StartStates \cap Asleep = {}
    /\ "sleep" \in Calls[INIT_TID] => \A t \in Tids : "write" \notin Calls[t]
    /\ \A t \in StaleTids \cap Tids : t = INIT_TID \/ "sleep" \notin Calls[t]

WakeInv ==
    /\ \A t \in Tids : wake[t] = 0 \/ state[t] \in Asleep
    /\ \A t \in Tids \ slots : wake[t] = 0
    /\ \A t \in Tids : "sleep" \notin Calls[t] => sleep_ms[t] = 0 /\ wake[t] = 0

\* A step that puts no thread to sleep and disturbs none.
LEMMA QuietWakeInv ==
    ASSUME WakeInv, slots \subseteq slots', UNCHANGED sleep_ms,
           \A t \in Tids : wake[t] = 0 => wake'[t] = 0,
           \A t \in Tids : wake[t] = 0 \/ (state[t] \in Asleep => state'[t] \in Asleep)
    PROVE  WakeInv'
  BY DEF WakeInv

LEMMA StopWakeInv ==
    ASSUME WakeInv, NEW reason \in Panics, Stop(reason)
    PROVE  WakeInv'
  BY QuietWakeInv DEF Stop, table, requests

\* A jiffy does not put a thread to sleep.
LEMMA ElapseZero ==
    ASSUME TypeOK, NEW t \in Tids, wake[t] = 0
    PROVE  Elapse[t] = 0
  BY DEF Elapse, AtLeast

\* A round wakes no thread whose jiffy has not come.
LEMMA SchedulerRRWakes ==
    ASSUME TypeOK, WakeInv, SleepersLeftAlone, NEW stale \in StaleTids, SchedulerRR(stale),
           NEW t \in Tids
    PROVE  wake[t] = 0 \/ (state[t] \in Asleep => state'[t] \in Asleep)
  <1> SUFFICES ASSUME wake[t] # 0, state[t] \in Asleep PROVE state'[t] \in Asleep
    OBVIOUS
  <1> DEFINE st0 == IF wake[INIT_TID] = 0 THEN ThreadReady(state, stale) ELSE state
             st1 == Woken(st0)
  <1>1. st0[t] = state[t]
    BY DEF ThreadReady, TypeOK, WakeInv, SleepersLeftAlone
  <1>2. st1[t] = st0[t]
    BY DEF Woken
  <1>3. state' = [u \in Tids |-> IF u \in Dying(st1) THEN "ZOMBIE" ELSE st1[u]]
    BY DEF SchedulerRR
  <1> HIDE DEF st0, st1
  <1> QED BY <1>1, <1>2, <1>3 DEF Asleep

LEMMA PsSchedulerWakeInv ==
    ASSUME TypeOK, WakeInv, SleepersLeftAlone, PsScheduler
    PROVE  WakeInv'
  <1>1. UNCHANGED <<slots, wake, sleep_ms>>
    BY DEF PsScheduler, SchedulerRR, table, requests
  <1>2. ASSUME NEW t \in Tids
        PROVE  wake[t] = 0 \/ (state[t] \in Asleep => state'[t] \in Asleep)
    BY SchedulerRRWakes DEF PsScheduler
  <1> QED BY <1>1, <1>2, QuietWakeInv

LEMMA TickWakeInv == TypeOK /\ RunInv /\ WakeInv /\ Tick => WakeInv'
  <1> SUFFICES ASSUME TypeOK, RunInv, WakeInv, Tick PROVE WakeInv'
    OBVIOUS
  <1> USE DEF table, requests, share, round, timeout, roles, locks
  <1>1. CASE TickFails
    BY <1>1, StopWakeInv DEF TickFails, Panics
  <1>2. CASE TickLocked
    BY <1>2, QuietWakeInv, ElapseZero DEF TickLocked
  <1>3. CASE TickInQuantum
    <2> DEFINE c == current_thread
               sleeps == state[c] = "RUNNING" /\ sleep_ms[c] > 0
    <2>1. c \in Tids /\ c \in slots
      BY <1>3 DEF TickInQuantum, CurrentIsLive, RunInv
    <2>2. /\ wake' = [Elapse EXCEPT ![c] = IF sleeps THEN sleep_ms[c] ELSE @]
          /\ state' = [state EXCEPT ![c] = IF sleeps THEN "WAITING" ELSE @]
          /\ sleep_ms' = [sleep_ms EXCEPT ![c] = IF sleeps THEN 0 ELSE @]
          /\ slots' = slots
      BY <1>3 DEF TickInQuantum
    <2>3. Elapse \in [Tids -> 0 .. MaxSleep]
      BY ElapseType
    <2>4. CASE sleeps
      <3>1. "sleep" \in Calls[c]
        BY <2>1, <2>4 DEF WakeInv
      <3>2. \A t \in Tids \ {c} : /\ wake'[t] = Elapse[t] /\ state'[t] = state[t]
                                  /\ sleep_ms'[t] = sleep_ms[t]
        BY <2>1, <2>2, <2>3 DEF TypeOK
      <3>3. state'[c] \in Asleep
        BY <2>1, <2>2, <2>4 DEF TypeOK, Asleep
      <3> HIDE DEF c, sleeps
      <3> QED BY <2>1, <2>2, <3>1, <3>2, <3>3, ElapseZero DEF WakeInv
    <2>5. CASE ~sleeps
      <3>1. wake' = Elapse /\ state' = state /\ sleep_ms' = sleep_ms
        BY <2>1, <2>2, <2>3, <2>5 DEF TypeOK
      <3> QED BY <2>2, <3>1, QuietWakeInv, ElapseZero
    <2> QED BY <2>4, <2>5
  <1>4. CASE TickPreempts
    <2>1. \A t \in Tids : state[t] \in Asleep => state'[t] \in Asleep
      BY <1>4 DEF TickPreempts, Preempted, TypeOK, Asleep
    <2> QED BY <1>4, <2>1, QuietWakeInv, ElapseZero DEF TickPreempts
  <1>5. CASE TickSpawns
    <2> DEFINE s == First(Standby)
    <2>1. s \in Tids /\ Preempted[s] = "STANDBY"
      <3>1. Standby \in SUBSET Tids /\ Standby # {}
        BY <1>5 DEF Standby, TickSpawns
      <3> QED BY <3>1, FirstIn DEF Standby
    <2>2. state' = [Preempted EXCEPT ![s] = "RUNNING"]
      BY <1>5 DEF TickSpawns
    <2>3. UNCHANGED <<slots, sleep_ms>> /\ wake' = Elapse
      BY <1>5 DEF TickSpawns
    <2> HIDE DEF s
    <2>4. ASSUME NEW t \in Tids, state[t] \in Asleep PROVE state'[t] \in Asleep
      BY <2>1, <2>2, <2>4 DEF Preempted, TypeOK, Asleep
    <2> QED BY <2>3, <2>4, QuietWakeInv, ElapseZero
  <1>6. CASE TickCannotSpawn
    BY <1>6, StopWakeInv DEF TickCannotSpawn, Panics
  <1> QED BY <1>1, <1>2, <1>3, <1>4, <1>5, <1>6 DEF Tick

LEMMA TaskSwitchWakeInv ==
    ASSUME SleepersLeftAlone
    PROVE  TypeOK /\ WakeInv /\ TaskSwitch => WakeInv'
  <1> SUFFICES ASSUME TypeOK, WakeInv, TaskSwitch PROVE WakeInv'
    OBVIOUS
  <1> USE DEF table, requests, share, round, timeout, roles, locks
  <1>1. CASE PickSingle \/ PickTimeout \/ PickNext
    BY <1>1, QuietWakeInv DEF PickSingle, PickTimeout, PickNext
  <1>2. CASE PickRebuild
    BY <1>2, PsSchedulerWakeInv DEF PickRebuild
  <1>3. CASE GoAhead
    <2>1. \A t \in Tids : state[t] \in Asleep => state'[t] = state[t]
      BY <1>3 DEF GoAhead, Dispatch, TypeOK, Asleep
    <2> QED BY <1>3, <2>1, QuietWakeInv DEF GoAhead
  <1>4. CASE TryAgain
    BY <1>4, PsSchedulerWakeInv DEF TryAgain
  <1> QED BY <1>1, <1>2, <1>3, <1>4 DEF TaskSwitch, ZeroGravity

LEMMA SystemCallWakeInv ==
    ASSUME SleepersLeftAlone
    PROVE  TypeOK /\ WakeInv /\ SystemCall => WakeInv'
  <1> SUFFICES ASSUME TypeOK, WakeInv, SystemCall PROVE WakeInv'
    OBVIOUS
  <1> USE DEF table, requests, share, round, timeout, roles, locks
  <1>1. CASE Yield \/ BrokenVessels \/ \E yields \in BOOLEAN : UseSocket(yields)
    BY <1>1, QuietWakeInv DEF Yield, BrokenVessels, UseSocket
  <1>2. ASSUME NEW ms \in 1 .. MaxSleep, Sleep(ms) PROVE WakeInv'
    <2>1. /\ "sleep" \in Calls[current_thread] /\ current_thread \in Tids
          /\ sleep_ms' = [sleep_ms EXCEPT ![current_thread] = ms]
          /\ UNCHANGED <<slots, wake, state>>
      BY <1>2 DEF Sleep, Calling
    <2>2. \A t \in Tids \ {current_thread} : sleep_ms'[t] = sleep_ms[t]
      BY <2>1 DEF TypeOK
    <2> QED BY <2>1, <2>2 DEF WakeInv
  <1>3. ASSUME NEW locked \in BOOLEAN, TaskswitchLock(locked) \/ SchedulerLock(locked)
        PROVE  WakeInv'
    BY <1>3, QuietWakeInv DEF TaskswitchLock, SchedulerLock
  <1>4. CASE Exit
    BY <1>4, QuietWakeInv DEF Exit, RequestExit
  <1>5. ASSUME NEW t \in slots, ExitThread(t) PROVE WakeInv'
    BY <1>5, QuietWakeInv, StopWakeInv DEF ExitThread, RequestExit, Panics
  <1>6. CASE WaitPid
    <2>1. \A t \in Tids : state[t] \in Asleep => state'[t] \in Asleep
      BY <1>6 DEF WaitPid, TypeOK, Asleep
    <2> QED BY <1>6, <2>1, QuietWakeInv DEF WaitPid
  <1>7. CASE CreateThread
    <2>1. CASE FreeSlots = {}
      BY <1>7, <2>1, StopWakeInv DEF CreateThread, Panics
    <2>2. CASE FreeSlots # {}
      BY <1>7, <2>2, QuietWakeInv DEF CreateThread
    <2> QED BY <2>1, <2>2
  <1>8. ASSUME NEW t \in slots, StartThread(t) PROVE WakeInv'
    <2>1. \A u \in Tids : state[u] \in Asleep => state'[u] = state[u]
      BY <1>8 DEF StartThread, TypeOK, SleepersLeftAlone
    <2> QED BY <1>8, <2>1, QuietWakeInv DEF StartThread
  <1>9. ASSUME NEW loaded \in BOOLEAN, CopyProcess(loaded) PROVE WakeInv'
    <2>1. CASE current_thread # owner[current_thread] \/ FreeSlots = {}
      BY <1>9, <2>1, StopWakeInv DEF CopyProcess, Panics
    <2>2. CASE current_thread = owner[current_thread] /\ FreeSlots # {}
      <3> DEFINE n == First(FreeSlots)
                 born == IF loaded THEN "STANDBY" ELSE "BLOCKED"
      <3>1. n \in Tids \ slots
        BY <2>2, FreeSlotTaken
      <3>2. /\ slots' = slots \cup {n}
            /\ state' = [state EXCEPT ![current_thread] = "RUNNING", ![n] = born]
            /\ UNCHANGED <<wake, sleep_ms>>
            /\ current_thread \in Tids /\ "clone" \in Calls[current_thread]
        BY <1>9, <2>2 DEF CopyProcess, Calling
      <3> HIDE DEF n, born
      <3>3. wake[n] = 0 /\ wake[current_thread] = 0
        BY <3>1, <3>2 DEF WakeInv, SleepersLeftAlone
      <3>4. \A t \in Tids \ {n, current_thread} : state'[t] = state[t]
        BY <3>1, <3>2 DEF TypeOK
      <3>5. \A t \in Tids : wake[t] = 0 \/ (state[t] \in Asleep => state'[t] \in Asleep)
        BY <3>3, <3>4
      <3> QED BY <3>2, <3>5, QuietWakeInv
    <2> QED BY <2>1, <2>2
  <1>10. ASSUME NEW t \in slots, Focus(t) \/ LoseFocus(t) PROVE WakeInv'
    BY <1>10, QuietWakeInv DEF Focus, LoseFocus
  <1>11. CASE RegisterDs
    BY <1>11, QuietWakeInv, StopWakeInv DEF RegisterDs, Panics
  <1>12. ASSUME NEW t \in slots, PostMessage(t) PROVE WakeInv'
    BY <1>12, QuietWakeInv, StopWakeInv DEF PostMessage, NotifyReceiver, Panics
  <1>13. CASE WriteFile
    <2>1. wake[INIT_TID] = 0
      BY <1>13, TidFacts DEF WriteFile, Calling, WakeInv, SleepersLeftAlone
    <2>2. \A t \in Tids \ {INIT_TID} : state'[t] = state[t]
      BY <1>13 DEF WriteFile, ThreadReady, TypeOK
    <2> QED BY <1>13, <2>1, <2>2, QuietWakeInv DEF WriteFile
  <1>14. CASE ReadEmptySocket
    BY <1>14, StopWakeInv DEF ReadEmptySocket, Panics
  <1> QED
    BY <1>1, <1>2, <1>3, <1>4, <1>5, <1>6, <1>7, <1>8, <1>9, <1>10, <1>11, <1>12, <1>13,
       <1>14
    DEF SystemCall

LEMMA StepWakeInv ==
    ASSUME SleepersLeftAlone
    PROVE  TypeOK /\ RunInv /\ WakeInv /\ [Next]_vars => WakeInv'
  <1> SUFFICES ASSUME TypeOK, RunInv, WakeInv, [Next]_vars PROVE WakeInv'
    OBVIOUS
  <1> USE DEF table, requests, share, round, timeout, roles, locks
  <1>1. CASE InputForeground \/ InputDs
    BY <1>1, QuietWakeInv, StopWakeInv DEF InputForeground, InputDs, NotifyReceiver, Panics
  <1>2. CASE Fault
    <2>1. CASE \/ owner[current_thread] \in {INIT_TID} \cup (Tids \ processes)
               \/ state[INIT_TID] # "READY"
      BY <1>2, <2>1, StopWakeInv DEF Fault, Panics
    <2>2. CASE ~ (\/ owner[current_thread] \in {INIT_TID} \cup (Tids \ processes)
                  \/ state[INIT_TID] # "READY")
      <3>1. /\ state' = [state EXCEPT ![INIT_TID] = "RUNNING"]
            /\ UNCHANGED <<slots, wake, sleep_ms>>
        BY <1>2, <2>2 DEF Fault, Dispatch
      <3>2. \A t \in Tids : state[t] \in Asleep => state'[t] = state[t]
        BY <2>2, <3>1 DEF TypeOK, Asleep
      <3> QED BY <3>1, <3>2, QuietWakeInv
    <2> QED BY <2>1, <2>2
  <1>3. CASE Halted \/ UNCHANGED vars
    BY <1>3, QuietWakeInv DEF Halted, vars
  <1> QED
    BY <1>1, <1>2, <1>3, TickWakeInv, TaskSwitchWakeInv, SystemCallWakeInv DEF Next

\* As long as the programs leave sleepers alone, a thread that sleeps is neither
\* dispatched nor offered to the dispatcher before the jiffy it asked for: ticks,
\* preemption, rounds, exits, faults, waitpid() and the creation of threads around it
\* do not wake it.
THEOREM SleepersSleep == ASSUME SleepersLeftAlone PROVE Spec => []NoEarlyWake
  <1>1. Init => RunInv
    BY TidFacts DEF Init, RunInv, OnlyCurrentRuns
  <1>2. Init => WakeInv
    BY DEF Init, WakeInv
  <1>3. WakeInv => NoEarlyWake
    BY DEF WakeInv, NoEarlyWake, Asleep
  <1> QED
    BY <1>1, <1>2, <1>3, InitTypeOK, StepTypeOK, StepRunInv, StepWakeInv, PTL DEF Spec

-----------------------------------------------------------------------------
(* A round ends.  The spawner links its thread back to the init thread, so  *)
(* the links are not ascending in general; those of the round that the      *)
(* conductor follows are, because the threads of a round have run before    *)
(* and are not spawned again.                                               *)

Unborn == {"INITIALIZED", "STANDBY"}

\* Programs only start threads that never ran.
OnlyNewStarted == StartStates \subseteq {"INITIALIZED"}

\* R holds the threads of a round: the init thread and threads that were spawned,
\* linked upwards.
RoundInv ==
    \E R \in SUBSET slots :
       /\ INIT_TID \in R
       /\ \A t \in R : state[t] \notin Unborn
       /\ \A t \in R : next[t] = NoTid \/ (next[t] \in R /\ next[t] > t)
       /\ currentq \in R \/ (next[currentq] = NoTid /\ pc # "user")

\* A link of a new round leads to a later thread of it.
LEMMA FollowingAbove ==
    ASSUME NEW S \in SUBSET Tids, NEW t \in Tids
    PROVE  Following(S, t) = NoTid \/ (Following(S, t) \in S /\ Following(S, t) > t)
  <1>1. CASE \E u \in S : u > t
    <2> DEFINE A == {u \in S : u > t}
    <2>1. A \in SUBSET Tids /\ A # {}
      BY <1>1
    <2>2. Following(S, t) = First(A)
      BY <1>1 DEF Following
    <2>3. First(A) \in A
      <3> HIDE DEF A
      <3> QED BY <2>1, FirstIn
    <2> QED BY <2>2, <2>3
  <1>2. CASE ~ \E u \in S : u > t
    BY <1>2 DEF Following
  <1> QED BY <1>1, <1>2

\* A step that leaves the links and the conductor alone.
LEMMA QuietRoundInv ==
    ASSUME RoundInv, slots \subseteq slots', UNCHANGED <<next, currentq>>,
           \A t \in slots : state[t] \notin Unborn => state'[t] \notin Unborn,
           pc' = "user" => pc = "user"
    PROVE  RoundInv'
  <1>1. PICK R \in SUBSET slots :
           /\ INIT_TID \in R
           /\ \A t \in R : state[t] \notin Unborn
           /\ \A t \in R : next[t] = NoTid \/ (next[t] \in R /\ next[t] > t)
           /\ currentq \in R \/ (next[currentq] = NoTid /\ pc # "user")
    BY DEF RoundInv
  <1>2. \A t \in R : state'[t] \notin Unborn
    BY <1>1
  <1> QED BY <1>1, <1>2 DEF RoundInv

LEMMA StopRoundInv ==
    ASSUME RoundInv, NEW reason \in Panics, Stop(reason)
    PROVE  RoundInv'
  BY QuietRoundInv DEF Stop, table, round, Panics

\* __scheduler_rr() links the READY threads upwards, behind the init thread.
LEMMA SchedulerRRRoundInv ==
    ASSUME TypeOK, RunInv, RoundInv, NEW stale \in StaleTids, SchedulerRR(stale)
    PROVE  RoundInv'
  <1> DEFINE st0 == IF wake[INIT_TID] = 0 THEN ThreadReady(state, stale) ELSE state
             st1 == Woken(st0)
             ready == {t \in Others : st1[t] = "READY"}
             R == ready \cup {INIT_TID}
  <1>1. /\ state' = [t \in Tids |-> IF t \in Dying(st1) THEN "ZOMBIE" ELSE st1[t]]
        /\ next' = [t \in Tids |-> IF t \in R THEN Following(ready, t) ELSE next[t]]
        /\ currentq' = INIT_TID /\ slots' = slots
    BY DEF SchedulerRR
  <1>2. ready \in SUBSET Tids /\ R \in SUBSET slots
    BY DEF Others, RunInv, TypeOK
  <1>3. st1[INIT_TID] \notin Unborn
    <2>1. state[INIT_TID] \notin Unborn
      BY DEF RoundInv
    <2>2. st0[INIT_TID] \notin Unborn
      BY <2>1, TidFacts DEF ThreadReady, TypeOK, Unborn
    <2> QED BY <2>2, TidFacts DEF Woken, Unborn
  <1>4. \A t \in R : state'[t] \notin Unborn
    BY <1>1, <1>3, TidFacts DEF Others, Unborn
  <1>5. \A t \in R : t \in Tids
    BY <1>2, TidFacts
  <1> HIDE DEF st0, st1, ready
  <1>6. \A t \in R : next'[t] = NoTid \/ (next'[t] \in R /\ next'[t] > t)
    BY <1>1, <1>2, <1>5, FollowingAbove
  <1>7. INIT_TID \in R
    OBVIOUS
  <1> HIDE DEF R
  <1> QED BY <1>1, <1>2, <1>4, <1>6, <1>7 DEF RoundInv

LEMMA PsSchedulerRoundInv ==
    ASSUME TypeOK, RunInv, RoundInv, PsScheduler, pc' # "user"
    PROVE  RoundInv'
  <1> USE DEF table, round
  <1>1. CASE sched_locked /\ UNCHANGED <<slots, state, next, currentq>>
    BY <1>1, QuietRoundInv
  <1>2. CASE currentq' = INIT_TID /\ UNCHANGED <<slots, state, next>>
    BY <1>2 DEF RoundInv
  <1>3. CASE \E stale \in StaleTids : SchedulerRR(stale)
    BY <1>3, SchedulerRRRoundInv
  <1> QED BY <1>1, <1>2, <1>3 DEF PsScheduler

LEMMA TickRoundInv == TypeOK /\ RunInv /\ RoundInv /\ Tick => RoundInv'
  <1> SUFFICES ASSUME TypeOK, RunInv, RoundInv, Tick PROVE RoundInv'
    OBVIOUS
  <1> USE DEF table, requests, share, round, timeout, roles, locks
  <1>1. CASE TickFails
    BY <1>1, StopRoundInv DEF TickFails, Panics
  <1>2. CASE TickLocked
    BY <1>2, QuietRoundInv DEF TickLocked
  <1>3. CASE TickInQuantum
    <2>1. \A t \in slots : state[t] \notin Unborn => state'[t] \notin Unborn
      BY <1>3 DEF TickInQuantum, TypeOK, Unborn
    <2> QED BY <1>3, <2>1, QuietRoundInv DEF TickInQuantum
  <1>4. CASE TickPreempts
    <2>1. \A t \in slots : state[t] \notin Unborn => state'[t] \notin Unborn
      BY <1>4 DEF TickPreempts, Preempted, TypeOK, Unborn
    <2> QED BY <1>4, <2>1, QuietRoundInv DEF TickPreempts
  <1>5. CASE TickSpawns
    <2> DEFINE s == First(Standby)
    <2>1. s \in Tids /\ Preempted[s] = "STANDBY"
      <3>1. Standby \in SUBSET Tids /\ Standby # {}
        BY <1>5 DEF Standby, TickSpawns
      <3> QED BY <3>1, FirstIn DEF Standby
    <2>2. /\ state' = [Preempted EXCEPT ![s] = "RUNNING"]
          /\ next' = [next EXCEPT ![s] = INIT_TID]
          /\ UNCHANGED <<slots, currentq, pc>> /\ pc = "user"
      BY <1>5 DEF TickSpawns, EndOfQuantum
    <2> HIDE DEF s
    <2>3. state[s] \in Unborn
      BY <2>1 DEF Preempted, TypeOK, Unborn
    <2>4. PICK R \in SUBSET slots :
             /\ INIT_TID \in R
             /\ \A t \in R : state[t] \notin Unborn
             /\ \A t \in R : next[t] = NoTid \/ (next[t] \in R /\ next[t] > t)
             /\ currentq \in R
      BY <2>2 DEF RoundInv
    <2>5. \A t \in R : t \in Tids /\ t # s
      BY <2>3, <2>4 DEF TypeOK
    <2>6. \A t \in R : next'[t] = next[t]
      BY <2>2, <2>5 DEF TypeOK
    <2>7. \A t \in R : state'[t] \notin Unborn
      BY <2>1, <2>2, <2>4, <2>5 DEF Preempted, TypeOK, Unborn
    <2> QED BY <2>2, <2>4, <2>6, <2>7 DEF RoundInv
  <1>6. CASE TickCannotSpawn
    BY <1>6, StopRoundInv DEF TickCannotSpawn, Panics
  <1> QED BY <1>1, <1>2, <1>3, <1>4, <1>5, <1>6 DEF Tick

LEMMA TaskSwitchRoundInv == TypeOK /\ RunInv /\ RoundInv /\ TaskSwitch => RoundInv'
  <1> SUFFICES ASSUME TypeOK, RunInv, RoundInv, TaskSwitch PROVE RoundInv'
    OBVIOUS
  <1> USE DEF table, requests, share, round, timeout, roles, locks
  <1>1. CASE PickSingle
    BY <1>1 DEF PickSingle, RoundInv
  <1>2. CASE PickTimeout
    <2>1. /\ timeout_thread \in Tids /\ next' = [next EXCEPT ![timeout_thread] = NoTid]
          /\ currentq' = timeout_thread /\ pc' = "ahead" /\ UNCHANGED <<slots, state>>
      BY <1>2 DEF PickTimeout, TimeoutPending
    <2>2. PICK R \in SUBSET slots :
             /\ INIT_TID \in R
             /\ \A t \in R : state[t] \notin Unborn
             /\ \A t \in R : next[t] = NoTid \/ (next[t] \in R /\ next[t] > t)
      BY DEF RoundInv
    <2>3. \A t \in R : next'[t] = NoTid \/ next'[t] = next[t]
      BY <2>1, <2>2 DEF TypeOK
    <2>4. \A t \in R : next'[t] = NoTid \/ (next'[t] \in R /\ next'[t] > t)
      BY <2>2, <2>3
    <2>5. next'[currentq'] = NoTid
      BY <2>1 DEF TypeOK
    <2> QED BY <2>1, <2>2, <2>4, <2>5 DEF RoundInv
  <1>3. CASE PickRebuild
    BY <1>3, PsSchedulerRoundInv DEF PickRebuild
  <1>4. CASE PickNext
    BY <1>4 DEF PickNext, RoundInv
  <1>5. CASE GoAhead
    <2>1. /\ currentq \in slots /\ state[currentq] = "READY"
          /\ state' = [state EXCEPT ![currentq] = "RUNNING"]
          /\ UNCHANGED <<slots, next, currentq>>
      BY <1>5 DEF GoAhead, Dispatch, TypeOK, RunInv
    <2>2. PICK R \in SUBSET slots :
             /\ INIT_TID \in R
             /\ \A t \in R : state[t] \notin Unborn
             /\ \A t \in R : next[t] = NoTid \/ (next[t] \in R /\ next[t] > t)
             /\ currentq \in R \/ next[currentq] = NoTid
      BY DEF RoundInv
    <2> DEFINE Q == R \cup {currentq}
    <2>3. Q \in SUBSET slots /\ INIT_TID \in Q /\ currentq \in Q
      BY <2>1, <2>2
    <2>4. \A t \in Q : next[t] = NoTid \/ (next[t] \in Q /\ next[t] > t)
      BY <2>2
    <2>5. \A t \in Q : state'[t] \notin Unborn
      BY <2>1, <2>2 DEF TypeOK, Unborn
    <2> HIDE DEF Q
    <2> QED BY <2>1, <2>3, <2>4, <2>5 DEF RoundInv
  <1>6. CASE TryAgain
    BY <1>6, PsSchedulerRoundInv DEF TryAgain
  <1> QED BY <1>1, <1>2, <1>3, <1>4, <1>5, <1>6 DEF TaskSwitch, ZeroGravity

LEMMA SystemCallRoundInv ==
    ASSUME OnlyNewStarted
    PROVE  TypeOK /\ RunInv /\ RoundInv /\ SystemCall => RoundInv'
  <1> SUFFICES ASSUME TypeOK, RunInv, RoundInv, SystemCall PROVE RoundInv'
    OBVIOUS
  <1> USE DEF table, requests, share, round, timeout, roles, locks
  <1>t. slots \subseteq Tids
    BY DEF TypeOK
  <1>1. CASE Yield \/ BrokenVessels \/ \E yields \in BOOLEAN : UseSocket(yields)
    BY <1>1, QuietRoundInv DEF Yield, BrokenVessels, UseSocket
  <1>2. ASSUME NEW ms \in 1 .. MaxSleep, Sleep(ms) PROVE RoundInv'
    BY <1>2, QuietRoundInv DEF Sleep
  <1>3. ASSUME NEW locked \in BOOLEAN, TaskswitchLock(locked) \/ SchedulerLock(locked)
        PROVE  RoundInv'
    BY <1>3, QuietRoundInv DEF TaskswitchLock, SchedulerLock
  <1>4. CASE Exit
    BY <1>4, QuietRoundInv DEF Exit, RequestExit
  <1>5. ASSUME NEW t \in slots, ExitThread(t) PROVE RoundInv'
    BY <1>5, QuietRoundInv, StopRoundInv DEF ExitThread, RequestExit, Panics
  <1>6. CASE WaitPid
    <2>1. \A t \in slots : state[t] \notin Unborn => state'[t] \notin Unborn
      BY <1>t, <1>6 DEF WaitPid, TypeOK, Unborn
    <2> QED BY <1>6, <2>1, QuietRoundInv DEF WaitPid
  <1>7. CASE CreateThread
    <2>1. CASE FreeSlots = {}
      BY <1>7, <2>1, StopRoundInv DEF CreateThread, Panics
    <2>2. CASE FreeSlots # {}
      BY <1>7, <2>2, QuietRoundInv DEF CreateThread
    <2> QED BY <2>1, <2>2
  <1>8. ASSUME NEW t \in slots, StartThread(t) PROVE RoundInv'
    <2>1. \A u \in slots : state[u] \notin Unborn => state'[u] \notin Unborn
      BY <1>t, <1>8 DEF StartThread, TypeOK, Unborn, OnlyNewStarted
    <2> QED BY <1>8, <2>1, QuietRoundInv DEF StartThread
  <1>9. ASSUME NEW loaded \in BOOLEAN, CopyProcess(loaded) PROVE RoundInv'
    <2>1. CASE current_thread # owner[current_thread] \/ FreeSlots = {}
      BY <1>9, <2>1, StopRoundInv DEF CopyProcess, Panics
    <2>2. CASE current_thread = owner[current_thread] /\ FreeSlots # {}
      <3> DEFINE n == First(FreeSlots)
                 born == IF loaded THEN "STANDBY" ELSE "BLOCKED"
      <3>1. n \in Tids \ slots
        BY <2>2, FreeSlotTaken
      <3>2. /\ slots' = slots \cup {n}
            /\ state' = [state EXCEPT ![current_thread] = "RUNNING", ![n] = born]
            /\ UNCHANGED <<next, currentq, pc>> /\ current_thread \in Tids
        BY <1>9, <2>2 DEF CopyProcess, Calling
      <3> HIDE DEF n, born
      <3>3. \A t \in slots : state[t] \notin Unborn => state'[t] \notin Unborn
        BY <1>t, <3>1, <3>2 DEF TypeOK, Unborn
      <3> QED BY <3>2, <3>3, QuietRoundInv
    <2> QED BY <2>1, <2>2
  <1>10. ASSUME NEW t \in slots, Focus(t) \/ LoseFocus(t) PROVE RoundInv'
    BY <1>10, QuietRoundInv DEF Focus, LoseFocus
  <1>11. CASE RegisterDs
    BY <1>11, QuietRoundInv, StopRoundInv DEF RegisterDs, Panics
  <1>12. ASSUME NEW t \in slots, PostMessage(t) PROVE RoundInv'
    BY <1>12, QuietRoundInv, StopRoundInv DEF PostMessage, NotifyReceiver, Panics
  <1>13. CASE WriteFile
    <2>1. \A t \in slots : state[t] \notin Unborn => state'[t] \notin Unborn
      BY <1>t, <1>13 DEF WriteFile, ThreadReady, TypeOK, Unborn
    <2> QED BY <1>13, <2>1, QuietRoundInv DEF WriteFile
  <1>14. CASE ReadEmptySocket
    BY <1>14, StopRoundInv DEF ReadEmptySocket, Panics
  <1> QED
    BY <1>1, <1>2, <1>3, <1>4, <1>5, <1>6, <1>7, <1>8, <1>9, <1>10, <1>11, <1>12, <1>13,
       <1>14
    DEF SystemCall

LEMMA StepRoundInv ==
    ASSUME OnlyNewStarted
    PROVE  TypeOK /\ RunInv /\ RoundInv /\ [Next]_vars => RoundInv'
  <1> SUFFICES ASSUME TypeOK, RunInv, RoundInv, [Next]_vars PROVE RoundInv'
    OBVIOUS
  <1> USE DEF table, requests, share, round, timeout, roles, locks
  <1>1. CASE InputForeground \/ InputDs
    BY <1>1, QuietRoundInv, StopRoundInv
    DEF InputForeground, InputDs, NotifyReceiver, Panics
  <1>2. CASE Fault
    <2>1. CASE \/ owner[current_thread] \in {INIT_TID} \cup (Tids \ processes)
               \/ state[INIT_TID] # "READY"
      BY <1>2, <2>1, StopRoundInv DEF Fault, Panics
    <2>2. CASE ~ (\/ owner[current_thread] \in {INIT_TID} \cup (Tids \ processes)
                  \/ state[INIT_TID] # "READY")
      <3>1. /\ state' = [state EXCEPT ![INIT_TID] = "RUNNING"]
            /\ UNCHANGED <<slots, next, currentq, pc>>
        BY <1>2, <2>2 DEF Fault, Dispatch
      <3>2. \A t \in slots : state[t] \notin Unborn => state'[t] \notin Unborn
        BY <3>1 DEF TypeOK, Unborn
      <3> QED BY <3>1, <3>2, QuietRoundInv
    <2> QED BY <2>1, <2>2
  <1>3. CASE Halted \/ UNCHANGED vars
    BY <1>3, QuietRoundInv DEF Halted, vars
  <1> QED
    BY <1>1, <1>2, <1>3, TickRoundInv, TaskSwitchRoundInv, SystemCallRoundInv DEF Next

\* As long as programs start only threads that never ran, the conductor moves to a
\* thread with a higher tid whenever it follows a link: no thread is met twice in a
\* round, and a round ends after at most as many links as there are threads, so that
\* the next one, with every READY thread, is built.  Messages that break rounds, faults
\* and locks do not change that.
THEOREM RoundsAscend ==
    ASSUME OnlyNewStarted
    PROVE  Spec => [][PickNext => currentq' > currentq]_vars
  <1>1. Init => RunInv
    BY TidFacts DEF Init, RunInv, OnlyCurrentRuns
  <1>2. Init => RoundInv
    BY TidFacts DEF Init, RoundInv, Unborn
  <1>3. RoundInv => [PickNext => currentq' > currentq]_vars
    BY DEF RoundInv, PickNext
  <1> QED
    BY <1>1, <1>2, <1>3, InitTypeOK, StepTypeOK, StepRunInv, StepRoundInv, PTL DEF Spec

\* A link of a new round passes over no thread of it.
LEMMA FollowingNearest ==
    ASSUME NEW S \in SUBSET Tids, NEW t \in Tids, NEW u \in S, u > t
    PROVE  Following(S, t) # NoTid /\ Following(S, t) <= u
  <1> DEFINE A == {v \in S : v > t}
  <1>1. A \in SUBSET Tids /\ u \in A
    OBVIOUS
  <1>2. Following(S, t) = First(A)
    BY DEF Following
  <1>3. First(A) \in Tids /\ First(A) <= u
    <2> HIDE DEF A
    <2> QED BY <1>1, FirstIn
  <1>4. NoTid \notin Tids
    BY TableAssumption DEF NoTid, Tids
  <1> QED BY <1>2, <1>3, <1>4

Queued(t) == t = INIT_TID \/ (used[t] /\ state[t] = "READY")

\* The links of a round that was just built pass over no READY thread.
SkipsNobody ==
    (PickRebuild \/ TryAgain) /\ ~sched_locked /\ Cardinality(slots) > 1 =>
        \A t, u \in Tids : Queued(t)' /\ Queued(u)' /\ u > t =>
                              next'[t] # NoTid /\ next'[t] <= u

\* With RoundsAscend: whenever __scheduler_rr() builds a round, following the links from
\* the init thread meets every thread that is READY then, including those it has just
\* woken, whatever the workload.
THEOREM RoundsSkipNobody == Spec => [][SkipsNobody]_vars
  <1>1. ASSUME TypeOK, PickRebuild \/ TryAgain, ~sched_locked, Cardinality(slots) > 1,
               NEW t \in Tids, NEW u \in Tids, Queued(t)', Queued(u)', u > t
        PROVE  next'[t] # NoTid /\ next'[t] <= u
    <2>1. PICK stale \in StaleTids : SchedulerRR(stale)
      <3>1. Cardinality(slots) > 1 => Cardinality(slots) # 1
        OBVIOUS
      <3> QED BY <1>1, <3>1 DEF PickRebuild, TryAgain, PsScheduler
    <2> DEFINE st0 == IF wake[INIT_TID] = 0 THEN ThreadReady(state, stale) ELSE state
               st1 == Woken(st0)
               ready == {v \in Others : st1[v] = "READY"}
    <2>2. /\ used' = [v \in Tids |-> used[v] /\ v \notin Reaped(st1)]
          /\ state' = [v \in Tids |-> IF v \in Dying(st1) THEN "ZOMBIE" ELSE st1[v]]
          /\ next' = [v \in Tids |-> IF v \in ready \cup {INIT_TID} THEN Following(ready, v)
                                     ELSE next[v]]
      BY <2>1 DEF SchedulerRR
    <2>3. ready \in SUBSET Tids
      BY DEF Others
    <2>4. \A v \in Tids : used'[v] /\ state'[v] = "READY" /\ v # INIT_TID => v \in ready
      <3> HIDE DEF st1
      <3> QED BY <2>2 DEF Others
    <2>5. u # INIT_TID
      BY <1>1, TableAssumption DEF Tids, INIT_TID
    <2>6. u \in ready /\ t \in ready \cup {INIT_TID}
      BY <1>1, <2>4, <2>5 DEF Queued
    <2> HIDE DEF st0, st1, ready
    <2> QED BY <1>1, <2>2, <2>3, <2>6, FollowingNearest
  <1>2. TypeOK => [SkipsNobody]_vars
    BY <1>1 DEF SkipsNobody
  <1> QED BY <1>2, TypeCorrect, PTL

=============================================================================
