----------------------------- MODULE Scheduler -----------------------------
(***************************************************************************)
(* The thread table, the round-robin scheduler, the task switcher, the     *)
(* dispatcher and the spawner of the kernel (core/ke/intake), with the     *)
(* system calls, the input events and the faults that act on them.         *)
(*                                                                         *)
(* The machine has one processor and every IDT entry is an interrupt gate  *)
(* (arch/x86_64/entry/sw/sw1.asm:37), so a system call, an input interrupt *)
(* and a fault each run to completion: each is one action.  The timer      *)
(* interrupt also runs to completion, but the search of __task_switch for  *)
(* the next thread is a loop that need not end, so it is several actions,  *)
(* told apart by pc:                                                       *)
(*    "user"    a thread runs, interrupts are enabled                      *)
(*    "gravity" __task_switch is at its label ZeroGravity                  *)
(*    "ahead"   __task_switch is at its label go_ahead                     *)
(*    otherwise the kernel stopped in panic(), die() or keDie(); the value *)
(*              names the check that failed.                               *)
(*                                                                         *)
(* A process is named by the tid of its control thread.                    *)
(***************************************************************************)
EXTENDS Integers, FiniteSets

CONSTANTS
    LastTid,      \* bound: threads get the tids 0..LastTid; one more thread and create_thread()
                  \* finds threads_counter >= THREAD_COUNT_MAX (thread.c:1614)
    MaxSleep,     \* bound: the longest sleep, in ticks, that a thread asks for
    Calls,        \* Calls[t]: the system calls that the program of thread t makes
    Events,       \* the interrupts that happen: input for the "foreground" thread, for the "ds"
    StartStates,  \* the states of the threads that programs ask the kernel to start
    StaleTids,    \* the tids that the uninitialised TmpThread of __scheduler_rr may yield
    QUANTUM_MIN, QUANTUM_NORMAL_THRESHOLD, QUANTUM_NORMAL_TIME_CRITICAL,
    QUANTUM_SYSTEM_THRESHOLD, QUANTUM_SYSTEM_TIME_CRITICAL, QUANTUM_MAX,
    FocusBoost    \* the 88 that system call 10011 adds to QUANTUM_MAX

INIT_TID == 0      \* the init thread, which is also the idle thread
NoTid == -1
Tids == 0 .. LastTid
TidOrNone == Tids \cup {NoTid}

States == {"INITIALIZED", "STANDBY", "RUNNING", "READY", "WAITING", "BLOCKED", "ZOMBIE"}

CallNames == {"yield", "sleep", "nice", "exit_thread", "exit", "waitpid", "create",
              "start", "clone", "focus", "blur", "register", "post", "write", "socket",
              "locks", "fault"}

\* The checks that stop the machine.
Panics == {"ts validation", "spawn", "standby init", "ipc receiver", "exit idle",
           "faulty init", "init not ready", "no slots", "clone caller", "second ds",
           "socket"}

\* The largest quantum a thread can hold: sci.c:2423.
QuantumCap == QUANTUM_MAX + FocusBoost

ASSUME TableAssumption == LastTid \in Nat /\ MaxSleep \in Nat

ASSUME WorkloadAssumption ==
    /\ Calls \in [Tids -> SUBSET CallNames]
    /\ Events \subseteq {"foreground", "ds"}
    /\ StartStates \subseteq States
    /\ StaleTids \subseteq TidOrNone /\ StaleTids # {}

\* quantum.h: every level lies between QUANTUM_MIN and QUANTUM_MAX.
ASSUME QuantumAssumption ==
    /\ QUANTUM_MIN \in Nat \ {0} /\ QUANTUM_MAX \in Nat /\ FocusBoost \in Nat
    /\ \A q \in {QUANTUM_NORMAL_THRESHOLD, QUANTUM_NORMAL_TIME_CRITICAL,
                 QUANTUM_SYSTEM_THRESHOLD, QUANTUM_SYSTEM_TIME_CRITICAL} :
          q \in QUANTUM_MIN .. QUANTUM_MAX

VARIABLES
    slots,                \* the tids whose entry of threadList[] is not NULL
    used,                 \* used = TRUE and magic = 1234
    owner,                \* owner_pid, as the tid of the process's control thread
    processes,            \* the processes whose structure is valid
    state,
    saved,                \* the context is saved in the thread structure
    wake,                 \* ticks that are left until wake_jiffy
    exit_in_progress,
    yield_in_progress,
    sleep_ms,             \* desired_sleep_ms if sleep_in_progress, 0 otherwise
    quantum,
    runningCount,
    credits,              \* saturates at 2: only "credits >= 2" is ever asked
    isResponder,
    next,                 \* the rest of the round, linked
    currentq,             \* the conductor: the thread of the round that was tried last
    waiting_for_timeout,
    timeout_thread,
    current_thread,
    foreground_thread,
    ds_tid,               \* DisplayServerInfo.tid if it is initialized, NoTid otherwise
    ts_locked,            \* task_switch_status = LOCKED
    sched_locked,         \* g_scheduler_status = LOCKED
    pc

table    == <<slots, used, owner, processes>>
requests == <<exit_in_progress, yield_in_progress, sleep_ms>>
share    == <<quantum, runningCount, credits, isResponder>>
round    == <<next, currentq>>
timeout  == <<timeout_thread, waiting_for_timeout>>
roles    == <<foreground_thread, ds_tid>>
locks    == <<ts_locked, sched_locked>>
vars == <<table, state, saved, wake, requests, share, round, timeout, current_thread,
          roles, locks, pc>>

TypeOK ==
    /\ slots \subseteq Tids /\ INIT_TID \in slots
    /\ used \in [Tids -> BOOLEAN]
    /\ owner \in [Tids -> Tids]
    /\ processes \subseteq Tids
    /\ state \in [Tids -> States]
    /\ saved \in [Tids -> BOOLEAN]
    /\ wake \in [Tids -> 0 .. MaxSleep]
    /\ exit_in_progress \in [Tids -> BOOLEAN]
    /\ yield_in_progress \in [Tids -> BOOLEAN]
    /\ sleep_ms \in [Tids -> 0 .. MaxSleep]
    /\ quantum \in [Tids -> 1 .. QuantumCap]
    /\ runningCount \in [Tids -> 0 .. QuantumCap]
    /\ credits \in [Tids -> 0 .. 2]
    /\ isResponder \in [Tids -> BOOLEAN]
    /\ next \in [Tids -> TidOrNone]
    /\ currentq \in Tids
    /\ waiting_for_timeout \in [Tids -> BOOLEAN]
    /\ timeout_thread \in TidOrNone
    /\ current_thread \in TidOrNone
    /\ foreground_thread \in TidOrNone
    /\ ds_tid \in TidOrNone
    /\ ts_locked \in BOOLEAN /\ sched_locked \in BOOLEAN
    /\ pc \in {"user", "gravity", "ahead"} \cup Panics

-----------------------------------------------------------------------------
(* Boot: only the init thread exists, it runs, and the locks are open.      *)

Init ==
    /\ slots = {INIT_TID} /\ used = [t \in Tids |-> t = INIT_TID]
    /\ owner = [t \in Tids |-> INIT_TID] /\ processes = {INIT_TID}
    /\ state = [t \in Tids |-> IF t = INIT_TID THEN "RUNNING" ELSE "INITIALIZED"]
    /\ saved = [t \in Tids |-> FALSE] /\ wake = [t \in Tids |-> 0]
    /\ exit_in_progress = [t \in Tids |-> FALSE]
    /\ yield_in_progress = [t \in Tids |-> FALSE] /\ sleep_ms = [t \in Tids |-> 0]
    /\ quantum = [t \in Tids |-> QUANTUM_NORMAL_THRESHOLD]
    /\ runningCount = [t \in Tids |-> 0] /\ credits = [t \in Tids |-> 0]
    /\ isResponder = [t \in Tids |-> FALSE]
    /\ next = [t \in Tids |-> NoTid] /\ currentq = INIT_TID
    /\ waiting_for_timeout = [t \in Tids |-> FALSE] /\ timeout_thread = NoTid
    /\ current_thread = INIT_TID /\ foreground_thread = INIT_TID
    /\ ds_tid = NoTid
    /\ ts_locked = FALSE /\ sched_locked = FALSE
    /\ pc = "user"

-----------------------------------------------------------------------------
(* Helpers.                                                                 *)

First(S) == CHOOSE t \in S : \A u \in S : t <= u

\* Mutant: the loop stops one thread short of the end of the table.
FollowingBelowLast(S, t) ==
    IF \E u \in S : u > t /\ u < LastTid THEN First({u \in S : u > t}) ELSE NoTid

\* The least element of S above t, or NoTid: how the scheduler links a round.
Following(S, t) ==
    IF \E u \in S : u > t THEN First({u \in S : u > t}) ELSE NoTid

AtMost(n, cap) == IF n > cap THEN cap ELSE n
AtLeast(n, least) == IF n < least THEN least ELSE n

MoreCredits(t) == [credits EXCEPT ![t] = AtMost(@ + 1, 2)]

\* do_thread_ready(): any valid thread becomes READY, whatever its state.
ThreadReady(st, t) ==
    IF t \in Tids /\ used[t] THEN [st EXCEPT ![t] = "READY"] ELSE st

Stop(reason) ==
    /\ pc' = reason
    /\ UNCHANGED <<table, state, saved, wake, requests, share, round, timeout,
                   current_thread, roles, locks>>

-----------------------------------------------------------------------------
(* __scheduler_rr(): build a round.  Its first use of TmpThread (sched.c:318) *)
(* reads it before it is set: stale is what its tid turns out to be, that   *)
(* of any thread or of none.                                                *)

\* The live threads that the loop over threadList[] visits: it starts above the init
\* thread, which heads every round.
Others == {t \in Tids \ {INIT_TID} : used[t]}

\* Mutant: threads are woken one jiffy early.
WokenEarly(st) ==
    [t \in Tids |-> IF t \in Others /\ st[t] = "WAITING" /\ wake[t] <= 1
                    THEN "READY" ELSE st[t]]

\* Mutant: the loop stops one thread short of the end of the table.
WokenBelowLast(st) ==
    [t \in Tids |-> IF t \in Others \ {LastTid} /\ st[t] = "WAITING" /\ wake[t] = 0
                    THEN "READY" ELSE st[t]]

\* WAITING threads whose wake_jiffy has come.
Woken(st) ==
    [t \in Tids |-> IF t \in Others /\ st[t] = "WAITING" /\ wake[t] = 0
                    THEN "READY" ELSE st[t]]

\* ZOMBIE threads lose their structure, threads that asked to exit become ZOMBIE.
Reaped(st) == {t \in Others : st[t] = "ZOMBIE"}

\* Mutant: the exit flag is only looked at if the thread is not READY.
DyingUnlessReady(st) ==
    {t \in Others : st[t] \notin {"ZOMBIE", "READY"} /\ exit_in_progress[t]}

Dying(st)  == {t \in Others : st[t] # "ZOMBIE" /\ exit_in_progress[t]}

\* Mutant: the display server that dies stays registered.
DsKept(reaped) == ds_tid

\* What becomes of the display server when the threads in reaped go.
DsWithout(reaped) == IF ds_tid \in reaped THEN NoTid ELSE ds_tid

SchedulerRR(stale) ==
    LET \* "Wake up init thread."
        st0 == IF wake[INIT_TID] = 0 THEN ThreadReady(state, stale) ELSE state
        st1 == Woken(st0)
        ready == {t \in Others : st1[t] = "READY"}
        rich  == {t \in Others \ Reaped(st1) : credits[t] >= 2}
        ds    == DsWithout(Reaped(st1))
        level(t) == IF isResponder[t] \/ t = ds THEN QUANTUM_SYSTEM_TIME_CRITICAL
                    ELSE IF t = foreground_thread THEN QUANTUM_NORMAL_TIME_CRITICAL
                    ELSE QUANTUM_NORMAL_THRESHOLD
        base(t) == IF t = INIT_TID THEN QUANTUM_NORMAL_THRESHOLD
                   ELSE IF t \in ready THEN level(t) ELSE quantum[t]
    IN  /\ used' = [t \in Tids |-> used[t] /\ t \notin Reaped(st1)]
        /\ state' = [t \in Tids |-> IF t \in Dying(st1) THEN "ZOMBIE" ELSE st1[t]]
        /\ quantum' = [t \in Tids |-> IF t \in rich THEN AtMost(base(t) + 1, QuantumCap)
                                      ELSE base(t)]
        /\ runningCount' = [t \in Tids |-> IF t \in ready THEN 0 ELSE runningCount[t]]
        /\ isResponder' = [t \in Tids |-> isResponder[t] /\ t \notin ready]
        /\ credits' = [t \in Tids |-> IF t \in rich THEN 0 ELSE credits[t]]
        /\ next' = [t \in Tids |-> IF t \in ready \cup {INIT_TID} THEN Following(ready, t)
                                   ELSE next[t]]
        /\ currentq' = INIT_TID
        /\ current_thread' = INIT_TID
        /\ ds_tid' = ds
        /\ foreground_thread' = IF foreground_thread \in Dying(st1) THEN NoTid
                                ELSE foreground_thread
        /\ UNCHANGED <<slots, owner, processes, saved, wake, requests, timeout,
                       locks>>

\* psScheduler(), with the assignment of its result to current_thread in ts.c.
PsScheduler ==
    \/ /\ sched_locked
       /\ current_thread' = NoTid
       /\ UNCHANGED <<table, state, saved, wake, requests, share, round, timeout, roles,
                      locks>>
    \/ /\ ~sched_locked /\ Cardinality(slots) = 1
       /\ currentq' = INIT_TID /\ current_thread' = INIT_TID
       /\ UNCHANGED <<table, state, saved, wake, requests, share, next, timeout, roles,
                      locks>>
    \/ /\ ~sched_locked /\ Cardinality(slots) > 1
       /\ \E stale \in StaleTids : SchedulerRR(stale)

-----------------------------------------------------------------------------
(* The timer interrupt: irq0_TIMER(), tsTaskSwitch(), __task_switch().      *)

\* current_thread and its process pass the validation of __task_switch().
CurrentIsLive ==
    /\ current_thread \in Tids
    /\ used[current_thread]
    /\ owner[current_thread] \in processes

\* jiffies++, seen from the threads that wait for a jiffy.
Elapse == [t \in Tids |-> AtLeast(wake[t] - 1, 0)]

\* Mutant: the context is never marked as saved.
ContextForgotten == saved

\* save_current_context().
SaveContext == [saved EXCEPT ![current_thread] = TRUE]

\* The ticks of this quantum, this one included.
Ticks == AtMost(runningCount[current_thread] + 1, QuantumCap)

TickFails ==
    /\ pc = "user" /\ ~CurrentIsLive
    /\ Stop("ts validation")

\* "Return without saving."
TickLocked ==
    /\ pc = "user" /\ CurrentIsLive /\ ts_locked
    /\ wake' = Elapse
    /\ runningCount' = [runningCount EXCEPT ![current_thread] = Ticks]
    /\ UNCHANGED <<table, state, saved, requests, quantum, credits, isResponder, round,
                   timeout, current_thread, roles, locks, pc>>

\* "Still in quantum": a yield or a sleep that was asked for uses the quantum up,
\* but the thread runs until the next tick.
TickInQuantum ==
    /\ pc = "user" /\ CurrentIsLive /\ ~ts_locked
    /\ Ticks < quantum[current_thread]
    /\ LET running == state[current_thread] = "RUNNING"
           yields  == running /\ yield_in_progress[current_thread]
           sleeps  == running /\ sleep_ms[current_thread] > 0
       IN  /\ runningCount' = [runningCount EXCEPT ![current_thread] =
                                 IF yields \/ sleeps THEN quantum[current_thread] ELSE Ticks]
           /\ yield_in_progress' = [yield_in_progress EXCEPT ![current_thread] = @ /\ ~yields]
           /\ sleep_ms' = [sleep_ms EXCEPT ![current_thread] = IF sleeps THEN 0 ELSE @]
           /\ state' = [state EXCEPT ![current_thread] = IF sleeps THEN "WAITING" ELSE @]
           /\ wake' = [Elapse EXCEPT ![current_thread] =
                         IF sleeps THEN sleep_ms[current_thread] ELSE @]
    /\ saved' = SaveContext
    /\ UNCHANGED <<table, exit_in_progress, quantum, credits, isResponder, round, timeout,
                   current_thread, roles, locks, pc>>

EndOfQuantum ==
    /\ pc = "user" /\ CurrentIsLive /\ ~ts_locked
    /\ Ticks >= quantum[current_thread]

\* Mutant: the thread that used up its quantum stays RUNNING.
NotPreempted == state

Preempted ==
    [state EXCEPT ![current_thread] = IF @ = "RUNNING" THEN "READY" ELSE @]
Standby == {t \in Tids : used[t] /\ Preempted[t] = "STANDBY"}
CanSpawn(t) == t # INIT_TID /\ t # current_thread /\ ~saved[t]

\* "Preempt": no thread is in standby, so the search for another thread begins.
TickPreempts ==
    /\ EndOfQuantum /\ Standby = {}
    /\ wake' = Elapse
    /\ runningCount' = [runningCount EXCEPT ![current_thread] = Ticks]
    /\ saved' = SaveContext
    /\ state' = Preempted
    /\ pc' = "gravity"
    /\ UNCHANGED <<table, requests, quantum, credits, isResponder, round, timeout,
                   current_thread, roles, locks>>

\* schedi_check_for_standby() and __spawn_thread_by_tid_imp(): the first thread in
\* standby runs at once, and currentq does not move.
TickSpawns ==
    /\ EndOfQuantum /\ Standby # {}
    /\ LET t == First(Standby)
       IN  /\ CanSpawn(t)
           /\ wake' = Elapse
           /\ saved' = [SaveContext EXCEPT ![t] = FALSE]
           /\ exit_in_progress' = [exit_in_progress EXCEPT ![t] = FALSE]
           /\ runningCount' = [runningCount EXCEPT ![current_thread] = Ticks, ![t] = 0]
           /\ next' = [next EXCEPT ![t] = INIT_TID]
           /\ state' = [Preempted EXCEPT ![t] = "RUNNING"]
           /\ current_thread' = t
    /\ ts_locked' = FALSE /\ sched_locked' = FALSE
    /\ UNCHANGED <<table, yield_in_progress, sleep_ms, quantum, credits, isResponder,
                   currentq, timeout, roles, pc>>

\* The init thread, and a thread whose context is saved (the current one now is),
\* cannot be spawned.
TickCannotSpawn ==
    /\ EndOfQuantum /\ Standby # {} /\ ~CanSpawn(First(Standby))
    /\ Stop(IF First(Standby) = INIT_TID THEN "standby init" ELSE "spawn")

Tick == TickFails \/ TickLocked \/ TickInQuantum \/ TickPreempts \/ TickSpawns
        \/ TickCannotSpawn

-----------------------------------------------------------------------------
(* ZeroGravity: choose a thread.                                            *)

TimeoutPending == /\ timeout_thread \in Tids
                  /\ used[timeout_thread]
                  /\ waiting_for_timeout[timeout_thread]

PickSingle ==
    /\ pc = "gravity" /\ Cardinality(slots) = 1
    /\ currentq' = INIT_TID
    /\ pc' = "ahead"
    /\ UNCHANGED <<table, state, saved, wake, requests, share, next, timeout,
                   current_thread, roles, locks>>

\* Mutant: the timeout is not taken back.
PickTimeoutSticky ==
    /\ pc = "gravity" /\ Cardinality(slots) > 1 /\ TimeoutPending
    /\ currentq' = timeout_thread
    /\ next' = [next EXCEPT ![timeout_thread] = NoTid]
    /\ pc' = "ahead"
    /\ UNCHANGED <<table, state, saved, wake, requests, share, timeout, current_thread,
                   roles, locks>>

\* "Pick a thread and break the round."
PickTimeout ==
    /\ pc = "gravity" /\ Cardinality(slots) > 1 /\ TimeoutPending
    /\ waiting_for_timeout' = [waiting_for_timeout EXCEPT ![timeout_thread] = FALSE]
    /\ currentq' = timeout_thread
    /\ next' = [next EXCEPT ![timeout_thread] = NoTid]
    /\ pc' = "ahead"
    /\ UNCHANGED <<table, state, saved, wake, requests, share, timeout_thread,
                   current_thread, roles, locks>>

\* "End of round. Rebuild the round."
PickRebuild ==
    /\ pc = "gravity" /\ Cardinality(slots) > 1 /\ ~TimeoutPending
    /\ next[currentq] = NoTid
    /\ PsScheduler
    /\ pc' = "ahead"

\* Mutant: the end of the round is not looked for.
PickNextUnchecked ==
    /\ pc = "gravity" /\ Cardinality(slots) > 1 /\ ~TimeoutPending
    /\ currentq' = next[currentq]
    /\ pc' = "ahead"
    /\ UNCHANGED <<table, state, saved, wake, requests, share, next, timeout,
                   current_thread, roles, locks>>

PickNext ==
    /\ pc = "gravity" /\ Cardinality(slots) > 1 /\ ~TimeoutPending
    /\ next[currentq] # NoTid
    /\ currentq' = next[currentq]
    /\ pc' = "ahead"
    /\ UNCHANGED <<table, state, saved, wake, requests, share, next, timeout,
                   current_thread, roles, locks>>

ZeroGravity == PickSingle \/ PickTimeout \/ PickRebuild \/ PickNext

-----------------------------------------------------------------------------
(* go_ahead: dispatch the chosen thread, or schedule again.                 *)

\* dispatch_current and dispatcher().
Dispatch(t) ==
    /\ state' = [state EXCEPT ![t] = "RUNNING"]
    /\ saved' = [saved EXCEPT ![t] = FALSE]
    /\ runningCount' = [runningCount EXCEPT ![t] = 0]
    /\ current_thread' = t

GoAhead ==
    /\ pc = "ahead" /\ used[currentq] /\ state[currentq] = "READY"
    /\ Dispatch(currentq)
    /\ quantum' = [quantum EXCEPT ![currentq] =
                     AtLeast(AtMost(@, QUANTUM_MAX), QUANTUM_MIN)]
    /\ pc' = IF owner[currentq] \in processes THEN "user" ELSE "ts validation"
    /\ UNCHANGED <<table, wake, requests, credits, isResponder, round, timeout, roles,
                   locks>>

TryAgain ==
    /\ pc = "ahead" /\ ~(used[currentq] /\ state[currentq] = "READY")
    /\ PsScheduler
    /\ pc' = "gravity"

-----------------------------------------------------------------------------
(* System calls of the current thread.                                      *)

Calling(name) ==
    /\ pc = "user" /\ current_thread \in Tids
    /\ name \in Calls[current_thread]

Yield ==
    /\ Calling("yield")
    /\ yield_in_progress' = [yield_in_progress EXCEPT ![current_thread] = TRUE]
    /\ UNCHANGED <<table, state, saved, wake, exit_in_progress, sleep_ms, share, round,
                   timeout, current_thread, roles, locks, pc>>

Sleep(ms) ==
    /\ Calling("sleep")
    /\ sleep_ms' = [sleep_ms EXCEPT ![current_thread] = ms]
    /\ UNCHANGED <<table, state, saved, wake, exit_in_progress, yield_in_progress, share,
                   round, timeout, current_thread, roles, locks, pc>>

BrokenVessels ==
    /\ Calling("nice")
    /\ quantum' = [quantum EXCEPT ![current_thread] = AtMost(@ + 1, QUANTUM_MAX)]
    /\ UNCHANGED <<table, state, saved, wake, requests, runningCount, credits, isResponder,
                   round, timeout, current_thread, roles, locks, pc>>

RequestExit(t) ==
    /\ exit_in_progress' = [exit_in_progress EXCEPT ![t] = @ \/ used[t]]
    /\ UNCHANGED <<table, state, saved, wake, yield_in_progress, sleep_ms, share, round,
                   timeout, current_thread, roles, locks, pc>>

ExitThread(t) ==
    /\ Calling("exit_thread")
    /\ IF t = INIT_TID THEN Stop("exit idle") ELSE RequestExit(t)

\* Mutant: the process structure is destroyed at once.
ExitAtOnce ==
    /\ Calling("exit")
    /\ processes' = processes \ {owner[current_thread]}
    /\ UNCHANGED <<slots, used, owner, state, saved, wake, requests, share, round,
                   timeout, current_thread, roles, locks, pc>>

\* SCI_EXIT marks the control thread of the calling process.
Exit ==
    /\ Calling("exit")
    /\ RequestExit(owner[current_thread])

\* do_waitpid() blocks the control thread of the calling process.
WaitPid ==
    /\ Calling("waitpid")
    /\ owner[current_thread] \in processes
    /\ state' = [state EXCEPT ![owner[current_thread]] = "BLOCKED"]
    /\ UNCHANGED <<table, saved, wake, requests, share, round, timeout, current_thread,
                   roles, locks, pc>>

FreeSlots == Tids \ slots

\* create_thread(): slots are never freed, so the new thread's fields are fresh.
CreateThread ==
    /\ Calling("create")
    /\ IF FreeSlots = {} THEN Stop("no slots")
       ELSE LET t == First(FreeSlots)
            IN  /\ slots' = slots \cup {t}
                /\ used' = [used EXCEPT ![t] = TRUE]
                /\ owner' = [owner EXCEPT ![t] = owner[current_thread]]
                /\ UNCHANGED <<processes, state, saved, wake, requests, share, round,
                               timeout, current_thread, roles, locks, pc>>

\* core_start_thread() and schediSelectForExecution(): the state is not checked.
StartThread(t) ==
    /\ Calling("start")
    /\ used[t] /\ state[t] \in StartStates
    /\ state' = [state EXCEPT ![t] = "STANDBY"]
    /\ UNCHANGED <<table, saved, wake, requests, share, round, timeout, current_thread,
                   roles, locks, pc>>

\* copy_process().  If the image cannot be loaded (clone.c:1057) the child's process
\* and its thread, still BLOCKED, are left behind.
CopyProcess(loaded) ==
    /\ Calling("clone")
    /\ IF current_thread # owner[current_thread] THEN Stop("clone caller")
       ELSE IF FreeSlots = {} THEN Stop("no slots")
       ELSE LET t == First(FreeSlots)
            IN  /\ slots' = slots \cup {t}
                /\ used' = [used EXCEPT ![t] = TRUE]
                /\ owner' = [owner EXCEPT ![t] = t]
                /\ processes' = processes \cup {t}
                /\ state' = [state EXCEPT ![current_thread] = "RUNNING",
                                           ![t] = IF loaded THEN "STANDBY" ELSE "BLOCKED"]
                /\ saved' = [saved EXCEPT ![t] = IF loaded THEN FALSE
                                                  ELSE saved[current_thread]]
                /\ quantum' = IF loaded
                     THEN [quantum EXCEPT ![current_thread] = QUANTUM_SYSTEM_THRESHOLD,
                                          ![t] = QUANTUM_SYSTEM_THRESHOLD]
                     ELSE [quantum EXCEPT ![t] =
                             AtLeast(AtMost(quantum[current_thread], QUANTUM_MAX),
                                     QUANTUM_MIN)]
                /\ UNCHANGED <<wake, requests, runningCount, credits, isResponder, round,
                               timeout, current_thread, roles, locks, pc>>

\* System calls 10011 and 10012.  The first gives do_credits() the tid where a thread is
\* expected, which earns the thread nothing.
Focus(t) ==
    /\ Calling("focus")
    /\ used[t] /\ state[t] \in {"RUNNING", "READY"}
    /\ quantum' = [quantum EXCEPT ![t] = QuantumCap]
    /\ foreground_thread' = t
    /\ UNCHANGED <<table, state, saved, wake, requests, runningCount, credits, isResponder,
                   round, timeout, current_thread, ds_tid, locks, pc>>

LoseFocus(t) ==
    /\ Calling("blur")
    /\ used[t] /\ state[t] \in {"RUNNING", "READY"} /\ t = foreground_thread
    /\ foreground_thread' = NoTid
    /\ UNCHANGED <<table, state, saved, wake, requests, share, round, timeout,
                   current_thread, ds_tid, locks, pc>>

\* network_register_ring3_display_server(): the control thread of the caller.
RegisterDs ==
    /\ Calling("register")
    /\ IF ds_tid # NoTid THEN Stop("second ds")
       ELSE /\ used[owner[current_thread]]
            /\ ds_tid' = owner[current_thread]
            /\ quantum' = [quantum EXCEPT ![owner[current_thread]] = QUANTUM_MAX]
            /\ UNCHANGED <<table, state, saved, wake, requests, runningCount, credits,
                           isResponder, round, timeout, current_thread, foreground_thread,
                           locks, pc>>

\* What ipc_post_message_to_tid() and its variant do to the scheduler; the message
\* itself is the subject of module MessageRing.
NotifyReceiver(t) ==
    /\ timeout_thread' = t
    /\ waiting_for_timeout' = [waiting_for_timeout EXCEPT ![t] = TRUE]
    /\ isResponder' = [isResponder EXCEPT ![t] = TRUE]
    /\ UNCHANGED <<table, state, saved, wake, requests, quantum, runningCount, round,
                   current_thread, roles, locks, pc>>

PostMessage(t) ==
    /\ Calling("post")
    /\ IF used[t] THEN NotifyReceiver(t) /\ UNCHANGED credits ELSE Stop("ipc receiver")

\* Input interrupts: the event is posted to the foreground thread or to the display
\* server, whatever thread runs.  The timer interrupt posts to the display server once
\* a second, before its task switch.
InputForeground ==
    /\ pc = "user" /\ "foreground" \in Events /\ foreground_thread \in Tids
    /\ IF used[foreground_thread]
       THEN NotifyReceiver(foreground_thread) /\ UNCHANGED credits
       ELSE Stop("ipc receiver")

InputDs ==
    /\ pc = "user" /\ "ds" \in Events /\ ds_tid \in Tids
    /\ IF used[ds_tid]
       THEN NotifyReceiver(ds_tid) /\ credits' = MoreCredits(ds_tid)
       ELSE Stop("ipc receiver")

\* __write_imp() on a regular file wakes the thread tid_waiting of the file.  Nothing
\* but the memset() of its structure ever sets it, so that is thread 0.
WriteFile ==
    /\ Calling("write")
    /\ state' = ThreadReady(state, INIT_TID)
    /\ UNCHANGED <<table, saved, wake, requests, share, round, timeout, current_thread,
                   roles, locks, pc>>

\* The calls on sockets earn a credit.  A write that fails also yields.
UseSocket(yields) ==
    /\ Calling("socket")
    /\ credits' = MoreCredits(current_thread)
    /\ yield_in_progress' = [yield_in_progress EXCEPT ![current_thread] = @ \/ yields]
    /\ UNCHANGED <<table, state, saved, wake, exit_in_progress, sleep_ms, quantum,
                   runningCount, isResponder, round, timeout, current_thread, roles, locks,
                   pc>>

\* __read_imp() panics on a socket that may be read and is empty.
ReadEmptySocket == Calling("socket") /\ Stop("socket")

\* Services 640 to 643: only the init thread may lock and unlock.
TaskswitchLock(locked) ==
    /\ Calling("locks") /\ current_thread = INIT_TID
    /\ ts_locked' = locked
    /\ UNCHANGED <<table, state, saved, wake, requests, share, round, timeout,
                   current_thread, roles, sched_locked, pc>>

SchedulerLock(locked) ==
    /\ Calling("locks") /\ current_thread = INIT_TID
    /\ sched_locked' = locked
    /\ UNCHANGED <<table, state, saved, wake, requests, share, round, timeout,
                   current_thread, roles, ts_locked, pc>>

\* x64_all_faults() for a division error, #GP or #PF: the process and the thread that
\* faulted are destroyed and the init thread is dispatched.
Fault ==
    /\ Calling("fault")
    /\ IF owner[current_thread] \in {INIT_TID} \cup (Tids \ processes)
          THEN Stop("faulty init")
       ELSE IF state[INIT_TID] # "READY" THEN Stop("init not ready")
       ELSE /\ processes' = processes \ {owner[current_thread]}
            /\ used' = [used EXCEPT ![current_thread] = FALSE]
            /\ Dispatch(INIT_TID)
            /\ quantum' = [quantum EXCEPT ![INIT_TID] = AtLeast(@, QUANTUM_MIN)]
            /\ UNCHANGED <<slots, owner, wake, requests, credits, isResponder, round,
                           timeout, roles, locks, pc>>

\* panic(), die() and keDie() do not return.
Halted == pc \in Panics /\ UNCHANGED vars

-----------------------------------------------------------------------------

SystemCall ==
    \/ Yield \/ (\E ms \in 1 .. MaxSleep : Sleep(ms)) \/ BrokenVessels
    \/ Exit \/ WaitPid \/ CreateThread \/ RegisterDs
    \/ \E loaded \in BOOLEAN : CopyProcess(loaded)
    \/ \E t \in slots : ExitThread(t) \/ StartThread(t) \/ Focus(t) \/ LoseFocus(t)
                      \/ PostMessage(t)
    \/ WriteFile \/ ReadEmptySocket \/ \E yields \in BOOLEAN : UseSocket(yields)
    \/ \E locked \in BOOLEAN : TaskswitchLock(locked) \/ SchedulerLock(locked)

TaskSwitch == ZeroGravity \/ GoAhead \/ TryAgain

Next == Tick \/ TaskSwitch \/ SystemCall \/ InputForeground \/ InputDs \/ Fault \/ Halted

Spec == Init /\ [][Next]_vars

\* The timer never stops ticking and __task_switch() runs with interrupts disabled.
Fairness == WF_vars(Tick) /\ WF_vars(TaskSwitch)
FairSpec == Spec /\ Fairness

-----------------------------------------------------------------------------
(* Safety.                                                                  *)

\* While a thread runs, no other thread is marked RUNNING; while __task_switch()
\* searches, none is.  The dispatcher, the spawner, the fault handler and
\* copy_process() all mark threads RUNNING.
OnlyCurrentRuns ==
    \A t \in Tids : used[t] /\ state[t] = "RUNNING" => pc \notin {"gravity", "ahead"}
                                                     /\ (pc = "user" => t = current_thread)

\* The checks that __task_switch() makes of the current thread and its process, and
\* of the target's process, never fail (ts.c:269-307 and 700-755).
SwitchIsValid == pc # "ts validation"

\* The thread that receives the keyboard and the display server are live threads, so
\* an input interrupt finds its receiver (ipc.c: ipc_post_message_to_tid panics if it
\* does not).
ReceiversLive ==
    pc = "user" => \A t \in {foreground_thread, ds_tid} \ {NoTid} : used[t]

\* A thread that the dispatcher may restore has a saved context: the thread is READY
\* and does not run.
ReadyIsSaved ==
    \A t \in Tids : /\ used[t] /\ state[t] = "READY"
                    /\ t # current_thread \/ pc \in {"gravity", "ahead"}
                    => saved[t]

\* A thread that sleeps neither runs nor is offered to the dispatcher before the jiffy
\* it asked for.
NoEarlyWake ==
    \A t \in Tids : used[t] /\ wake[t] > 0 => state[t] \notin {"READY", "RUNNING"}

-----------------------------------------------------------------------------
(* Liveness.                                                                *)

Runnable(t) == used[t] /\ state[t] = "READY" /\ ~exit_in_progress[t]

\* __task_switch() runs with interrupts disabled: if some thread can run, its search
\* ends.
SwitchTerminates ==
    (pc = "gravity" /\ \E t \in Tids : Runnable(t)) ~> (pc \notin {"gravity", "ahead"})

\* Once messages no longer break the rounds, a READY thread gets the processor.
NoStarvation ==
    <>[](~TimeoutPending) =>
        \A t \in Tids : Runnable(t) ~> (~Runnable(t) \/ pc \in Panics)

\* exit_thread(): "Let the scheduler put this thread in the ZOMBIE state": a thread
\* that asked to exit is reaped, once messages no longer break the rounds.
ExitReaped ==
    <>[](~TimeoutPending) =>
        \A t \in Tids : exit_in_progress[t] ~> (~used[t] \/ pc \in Panics)

\* sleep(): "__task_switch() will call sleep_until() to put this thread waiting for ms
\* ticks. After that the thread will wake up."
SleeperWakes ==
    <>[](~TimeoutPending) =>
        \A t \in Tids : (used[t] /\ state[t] = "WAITING")
                          ~> (~used[t] \/ state[t] # "WAITING" \/ pc \in Panics)

\* The same comment: the thread that asked for a sleep is put in the WAITING state.
SleepHonoured ==
    \A t \in Tids : (sleep_ms[t] > 0) ~> (state[t] = "WAITING" \/ ~used[t] \/ pc \in Panics)

=============================================================================
