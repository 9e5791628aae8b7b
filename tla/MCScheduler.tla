---------------------------- MODULE MCScheduler ----------------------------
(* Small workloads for Scheduler: which system calls the program of each    *)
(* thread makes.                                                            *)
EXTENDS Scheduler

AllStale == TidOrNone
NoStale == {NoTid}

\* The init thread starts two processes.  One registers as the display server and
\* posts messages, both come and go, and the focus moves.
ServersCalls == [t \in Tids |->
    CASE t = 0 -> {"clone", "focus"}
      [] t = 1 -> {"register", "exit", "post", "blur"}
      [] OTHER -> {"exit", "exit_thread", "nice"}]

\* Threads of one process start, block and kill each other, faults destroy them, and
\* init locks the scheduler.
SiblingsCalls == [t \in Tids |->
    CASE t = 0 -> {"clone", "locks"}
      [] t = 1 -> {"create", "start", "waitpid", "fault"}
      [] OTHER -> {"fault", "start", "register"}]

\* Threads sleep, block and wake, while files and sockets are used.
WaitersCalls == [t \in Tids |->
    CASE t = 0 -> {"clone", "waitpid"}
      [] t = 1 -> {"sleep", "write", "post"}
      [] OTHER -> {"sleep", "socket"}]

\* Two processes post messages, sleep and exit while init clones them.
FairCalls == [t \in Tids |->
    CASE t = 0 -> {"clone"}
      [] t = 1 -> {"post", "sleep"}
      [] OTHER -> {"sleep", "exit", "yield"}]

\* A process sleeps again and again.
SleepLostCalls == [t \in Tids |-> IF t = 0 THEN {"clone"} ELSE {"sleep"}]
=============================================================================
