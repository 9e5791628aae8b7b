# A verification of the temple kernel

Temple (Gramado) is a small x86-64 operating system: a kernel in `kernel/kernel`, boot
loader and kernel modules, a display server (`adam/gram3d`) and client programs. This
project models the parts of it in which several actors meet: threads and the scheduler,
message queues, sockets and the dialogue of display server and clients over them, the
network card with its driver and protocols, keyboard and mouse on their shared
controller, and the FAT16 volume with power losses.

File names below are relative to `src/kernel/kernel/`; `intake/` is `core/ke/intake/`.

## Inventory

| Component | State | Operations | Interacts with | Hard part, and what makes it correct |
|---|---|---|---|---|
| Scheduler (`intake/sched`) | states, quanta, credits of all threads, the round (`next`, `currentq`), a lock | build a round, wake, reap, yield, sleep, waitpid | called by the task switcher, reads roles of display server and foreground | requests of threads are honoured later, by someone else; nobody starves, sleepers wake, exits are reaped |
| Task switcher, dispatcher, spawner (`intake/disp`) | `current_thread`, saved contexts, a lock | tick, choose, dispatch, spawn | timer interrupt | the search is an unbounded loop with interrupts disabled; only the current thread runs, only saved contexts are restored |
| Thread table, processes (`intake/thread.c`, `clone.c`, `process.c`) | `threadList[]`, `processList[]` | create, clone, start, exit | system calls, faults | structures die at different moments; a live thread has a live process |
| Message queues (`intake/ipc.c`) | ring of 64 messages, head and tail for each thread | post, get, get at an index | input interrupts, programs, the scheduler (`timeout_thread`) | nobody looks at the other side's index; delivered at most once, lost only when lapped |
| System calls (`core/kmain/sci`) | none | services on all of the above | programs | requests from any thread at any moment |
| Faults (`core/ke/hal/x86_64/x64fault.c`) | none | destroy the thread and process that faulted | scheduler state | partial clean-up |
| Sockets and their files (`kres/net/socket.c`, `sockint.c`, `kres/fs/fslib.c`) | socket states, backlog, one file per connection with a one-packet buffer, flags and an action | socket, listen, connect, accept, read, write, sync requests, shutdown, close | display server and clients | both ends share one buffer and poll it; no packet is overwritten, no read panics |
| Display server and client library (`adam/gram3d/demo00/main.c`, `apps/osshell/api/libs/libx/gws.c`) | loop of the server, calls of the clients | accept, dispatch; one request and its answer per call | sockets | connect() redirects the server's descriptor at any moment; every call gets its own answer and returns |
| Network card (`kres/dev/netdev/e1000`) | two descriptor rings, head and tail, interrupt causes | interrupt, receive loop, send | the card, protocols | driver and card work on the rings at the same time; order kept, no buffer shared |
| Network stack (`kres/net/prot`, `network.c`) | lock, DHCP state | handlers of Ethernet, ARP, IPv4, UDP, DHCP, `g:` | card, system calls | frames are lost, repeated, reordered; the address is the host's own |
| Keyboard and mouse (`kres/dev/chardev/i8042`, `gramk/user/input.c`) | prefix, modifiers, bytes of a packet, buttons, position | two interrupt handlers | one output buffer for both devices | a packet arrives in pieces between bytes of the other device; nothing gets out of step |
| FAT16 volume (`kres/fs`) | table and root directory on disk and in memory, a flag | save, create, load, write the table, reboot | disk | the power fails between any two sectors; what was saved stays |
| Heap, pages (`kres/mm`) | a moving pointer, page tables | allocate | everything | not modelled |
| TTY, console, pipes (`kres/dev/chardev`, `kres/fs/pipe.c`) | buffers | read, write | files | not modelled |
| Disk driver, PCI, APIC, boot, libraries, applications | | | | not modelled |

`PROJECT.json` gives the status of every component and the hazards, line by line.

## Plan

Done: `Scheduler`; `MessageRing` refining `Mailbox`; `Socket`, and `DisplayServer` composed
on it; `E1000` refining `FrameQueue`, and `Network` composed on it; `Input`; `Fat`; the
proofs listed below, which cover every safety property of the runs. Left:

1. `Scheduler` composed with `MessageRing`: an event loop that polls while its thread is
   scheduled; end-to-end delivery of an input event.
2. The safety half of the other liveness arguments, as `RoundsAscend` and
   `RoundsSkipNobody` are for `NoStarvation`.

## Modules

| Module | What it is |
|---|---|
| `Scheduler`, `MCScheduler`, `Scheduler_proofs` | the scheduler, the switcher and the calls that act on them; workloads for TLC; proofs |
| `Mailbox` | what a message queue promises |
| `MessageRing`, `MCMessageRing`, `MessageRing_proofs` | the ring of one thread; instances; proofs, with the refinement of `Mailbox` |
| `Socket`, `Socket_proofs` | sockets on one machine and their files under any sequence of calls; proofs |
| `DisplayServer`, `MCDisplayServer`, `DisplayServer_proofs` | server and clients on `Socket`; instances; proofs, with the refinement of `Socket` |
| `FrameQueue` | what the receive ring of the card promises |
| `E1000`, `E1000_proofs` | card and driver under any protocol handlers; proofs, with the refinement of `FrameQueue` |
| `Network`, `MCNetwork`, `Network_proofs` | protocols and the network around the host, on `E1000`; an instance; proofs, with the refinement of `E1000` |
| `Input`, `MCInput`, `Input_proofs` | keyboard, mouse and their handlers; an instance; proofs |
| `Fat`, `Fat_proofs` | the FAT16 volume; proofs |

Operators that are marked "Mutant" are plausible mistakes in the definition below them;
`PROJECT.json` says which property each of them breaks. They are used by no specification.

### Scheduler

One processor runs threads, and all gates of the IDT disable interrupts
(`arch/x86_64/entry/sw/sw1.asm:37`), so a system call, an input interrupt and a fault are
each one action. The timer interrupt is several: `__task_switch()` saves and preempts
(`Tick...`), then chooses at `ZeroGravity` (`Pick...`) and tests at `go_ahead` (`GoAhead`,
`TryAgain`) as often as it needs. `pc` tells where it is, or which check stopped the
machine: `panic()` and `die()` are states the model stays in (`Halted`), so a property can
say that one of them is not reached.

* `used[t]` is `used == TRUE && magic == 1234`; nothing sets the two apart. Slots of
  `threadList[]` are never set back to NULL, so `slots` only grows and a tid is never
  reused. A process is named by the tid of its control thread.
* `wake[t]` counts the ticks that are left to `wake_jiffy`; `jiffies++` of the timer
  decreases it. `sleep_ms[t]` joins `sleep_in_progress` and `desired_sleep_ms`.
* `credits` saturates at 2, the only value that is asked for. `runningCount` and `quantum`
  stop at `QUANTUM_MAX + 88`, the most a thread is ever given (`sci.c:2423`); the code
  lets both grow, but a count beyond the quantum acts like the quantum, and the task
  switcher cuts a quantum to `QUANTUM_MAX` at each dispatch.
* `__scheduler_rr()` is one action, `SchedulerRR(stale)`. Each thread is treated in one
  pass: woken, reaped, linked into the round, made a ZOMBIE, given credits. `stale` is
  what the uninitialised `TmpThread` of `sched.c:318` refers to: any thread, or none. After
  reaping, the code sets `TmpThread` to NULL and goes on reading through it; address 0 is
  mapped in the kernel and holds no 1234, so the rest of the pass does nothing.
* A system call that fails a check and returns leaves everything as it was, and is a
  stuttering step.
* Posting (`NotifyReceiver`) does to the scheduler what `ipc_post_message_to_tid()` and
  `..._tid2()` do: the receiver becomes the timeout thread and a responder. The message
  itself is the subject of `MessageRing`.
* Writes to regular files act on the scheduler: `do_thread_ready(fp->tid_waiting)`, where
  `tid_waiting` is 0 in every regular file. Reads and writes of sockets earn credits and
  may yield; which socket operation succeeds is left open here (`UseSocket`,
  `ReadEmptySocket`): `Socket` models it.
* The callback into the display server (service 44000) and the statistics are left out.

### MessageRing and Mailbox

A message is the number of its post. `Post` and `PostZero` cover the two variants of
`ipc_post_message_to_tid()`: a code of 0, which only a program can send, is stored but
looks like an empty entry. `GetMessage` and `GetMessage2` move the head whether or not they
found something, and `GetMessage2` moves it on from any index the program passes. `posts`,
`delivered` and `ordered` are history variables: `ordered` is false from a restart that leaves
messages behind until the queue is empty again. `Mailbox` keeps a set of pending messages: a
post makes the one `Capacity` posts earlier unavailable, or, while the queue is not `ordered`,
any one; and any pending message can be delivered, once.

### Socket and DisplayServer

A connection has one file, that of the client; client and server read and write its one
buffer. `file[c]` keeps the flags `__SRD` and `__SWR`, whether the buffer is full, the
action that the sync requests set, and the packet. The server has no descriptor of its own:
`Objects[31]` of its process (`slot31`) is pointed at a client by `sys_connect()` and by
`sys_accept()`. Clients open AF_INET sockets (`gws.c:4287`), so the calls are those of
`socket_inet()` and `__connect_inet()`; their local counterparts do the same to the files.
`KernelNext` lets every program make every call at any moment.

`DisplayServer` makes each system call of the server's loop and of the client library one
action, since the scheduler may switch between any two. `spc` and `pc[c]` are the next calls.
`Library` holds what the functions of `gws.c` differ in: the request, how often it is sent,
which actions end the polling, the packet type that is expected. `disturbed` records that a
client connected between two calls of a dispatch. It is a premise of `AnswerIsMine`,
`CallsAreClean` and `CallReturns`; `MCLateClient` shows what happens without it. `CallReturns`
names two more ways in which a call polls for ever, both of which happen in its run: the
caller's entry of the backlog was overwritten by a later `connect()`, so that `accept()` never
finds it (`Overwritten`), or the server, which does not know `GWS_SetText`, answered
`gws_set_text()`, which does not read an answer (`UnexpectedReply`). Windows, drawing and events are data here.

### E1000, FrameQueue and Network

The driver runs with interrupts disabled and has one program counter (`at`); the card
(external) takes its steps between any two of the driver's. `missed` records that a receive
cause was dropped: the handler looks at one cause of several, and clears the register a
second time when new causes may have come. `NicNext` allows every answer a handler could
give and every frame a program could send. The abstract `FrameQueue` sees the frames between
`rx_cur` and the head.

`Network` gives the answers: the handlers of the protocols are operators from a frame to the
frame they send. A frame is its kind, a host and an address; headers and checksums are data.
The DHCP server and the other hosts are external; `acked` holds the addresses that the server
acknowledged to this host, `overheard` those whose acknowledgement to another host it saw. The
code repeats no message, so
`DhcpCompletes` has the premises that no frame is lost and no cause missed.

### Input

The 8042 (external) loads the next byte of either device when its output buffer is empty and
the device's port is enabled, and raises that device's interrupt. The handlers disable the
other port, read, and enable it, so the controller may load a byte between any two reads.
Bytes of the keyboard carry the prefix and the modifiers that the user meant, as history.
`doubled` records that both keys of a modifier were held, or control and pause: the code
keeps one flag for both, and the bytes of pause contain those of control.
`swallowed` and `late` record what one packet cannot report at once: the handler posts a
button or a movement, and drops packets that overflow.

A packet carries movements of nine bits, and overflow bits. `hand` is where the user moved the
mouse to, an unbounded number; the code keeps a delta in a `char` and masks the sum to ten
bits. `far` records a movement that a `char` cannot hold. `Init` leaves an answer (ACK or
RESEND) in the mouse or not, as the comment at `ps2mouse.c:482` says happens, and `stray`
records it: the answer has bit 3 set and is taken for the first byte of a packet.

### Fat

`fsSaveFile()` is an action for its checks and the entry in memory, one per cluster, and one
per sector of the root directory; the write of the table is one action per sector. A
power loss may come between any two, and boot reads everything again. An entry remembers
its clusters and the save it comes from, and a cluster which save wrote it, so that "the file
is whole" means its own chain and its own data. `durable` records the files that the last
complete write of the table covered; `lost` that power failed when a file on the disk had
clusters that the table on the disk omitted. A sector that fails to be written is not
modelled: the code ignores the error.

## Runs

All with `tlc -workers 2`; each passes, or finds its violation, within four minutes: nine
pass, three find what a comment of the code denies.

| Run | Question | Result |
|---|---|---|
| `MCServers` | processes start, register, take the focus, exit; input arrives | `SwitchIsValid` and `ReceiversLive` hold |
| `MCSiblings` | threads of one process start and block each other, fault; init locks | `TypeOK` and `OnlyCurrentRuns` hold |
| `MCWaiters` | threads sleep, wait for children, write files, use sockets, post | `NoEarlyWake` and `ReadyIsSaved` hold |
| `MCFair` | as long as the timer ticks | `SwitchTerminates`, `NoStarvation`, `ExitReaped`, `SleeperWakes` hold |
| `MCRing` | posts lap the reader, programs poll at any index and restart the queue; an event loop polls for ever | no message is delivered twice, the ring implements `Mailbox`, and `Received` holds |
| `MCDisplay` | three clients and a backlog of two: they use every kind of library function, connect and close at any moment | no read panics, answers reach their calls, connections stay clean, calls return except in the cases that `CallReturns` names |
| `MCNetwork` | DHCP, ARP and `g:` inside the interrupt, on a network that loses, repeats and reorders | the ring is a queue, buffers are not shared, no frame is forgotten, the address is one that was acknowledged, frames are handled, DHCP completes |
| `MCInput` | keys and mouse packets arrive in pieces and in every order, perhaps behind an unread answer of the mouse | a handler in step stays in step, keys come as typed, buttons and pointer follow, everything is read in the end |
| `MCFat` | files are saved, the table is written, the power fails | saved files last, files are whole, chains ascend |
| `MCSleepLost` | does a thread that asks to sleep, sleep? | violated: with a quantum of 1 the request is never looked at |
| `MCLateClient` | does a response reach the client that asked? | violated: a client that connects during a dispatch gets it |
| `MCOtherClient` | is the host's address one that was acknowledged to it? | violated: an acknowledgement for another client is taken |

### Known limits of the code

Seen while modelling, and present in the models; no run claims the opposite:

* `sched.c:318` uses `TmpThread` before it is set; if it holds a valid thread, a sleeping
  init thread may not be woken.
* The spawner clears a pending exit request of a thread that has not run yet.
* A fault destroys the control thread and the process; its other threads go on without a
  process, and a display server that faulted stays registered.
* A write to a regular file makes thread 0 READY, whatever it waits for: `tid_waiting` is 0.
* `copy_process()` marks the parent RUNNING (`clone.c:694`; the comment at 689 asks to leave
  it alone), so a thread that was put to sleep and clones before it is switched out goes on.
  `MCWaiters` therefore lets no sleeping thread clone.
* The idle thread, which is the init thread, heads every round (`sched.c:320`), and is
  dispatched whether or not the system is idle.
* Once the writer laps the reader, messages can be received out of the order of posting: a
  poll that finds an empty entry moves the head on (`ipc.c:566`) and a post does not look at
  the head. `Mailbox` promises no order.
* Both keys of a modifier share one flag, and the bytes of pause (`E1 1D 45 E1 9D C5`) set and
  clear that of control: releasing one shift while the other is held, or striking pause with
  control held, clears the flag early.
* Print screen sends `E0 2A`, a shift key behind a prefix, and `input.c:1551` ignores the prefix
  of modifiers: the shift flag is set while the key is held. Print screen is not in `AllKeys`.
* Mouse movements of 128 to 255, or of -129 to -256, set no overflow bit and are followed the
  wrong way (`ps2mouse.c:279-308`); the position wraps at 1024 before it is limited to the screen.
* An answer that the mouse's initialisation leaves unread passes for a first byte, since the code
  that would have dropped it is commented out (`ps2mouse.c:535-554`). Packets are then read
  shifted, until the handler meets a byte without bit 3 where a first one should be.
* A DHCP acknowledgement for another client is accepted: the client address is printed
  (`kres/net/prot/dhcp.c:438`) and not compared, and the transaction number is a constant
  (`MCOtherClient`).
* A `connect()` to a full backlog overwrites the entry of a client that still waits, though the
  comment at `socket.c:1393` speaks of a refusal; the client's calls then poll for ever. A
  `listen()` below the default of 4 also strands clients that connected before it.
* The calls of `gws_set_text()` poll for ever when the server answers them, which depends on
  the request before (`NoReply`).
* While the init thread holds the lock of the scheduler no round is built, and the switcher
  retries the conductor until it is READY. No program of the repository takes the lock. Slots
  of `threadList[]` are never freed; when they run out, `create_thread()` stops the machine.
* After service 10008 has written the table, `do_reboot()` refuses to reboot until a file is
  saved, and a second service 10008 panics.
* `fsSaveFile()` does not look for a file of the same name, and loads find the oldest. A file
  that `open()` creates in `DE/` is entered in memory only; the root directory is written
  instead, and after the next boot its clusters belong to nobody. The search needs one free
  cluster more than the file. A size of 0 is not handled. `close()` never saves: `_tmpfname`
  is NULL. After a power loss that the cache did not survive, a load may panic.

### Bounds

* `Scheduler`: tids 0..2. The init thread and two others are enough for a
  round with a middle and an end, for a post that breaks it, and for two processes or two
  threads of one process. The real tids are 0 and 100 to 1023; only their order matters.
  One thread more than the bound meets the check of `thread.c:1614`, as the 1024th thread
  does in the code. Quanta 1, 1, 2, 2, 2, 2 and a boost of 1, instead of 1, 1, 3, 4, 6, 6
  and 88: a quantum of 1 and a longer one are the two cases of `__task_switch()`. Sleeps of 1
  or 2 ticks: one that is over at the next round, and one that is not. `Calls` gives each
  thread the system calls that its program makes, at any moment and in any order.
* `MessageRing`: 3 entries instead of 64, with up to 7 posts: the tail laps the head twice.
  Every index from -1 to one past the end, with and without restart. 26,175 states.
* `DisplayServer`: three clients and a backlog of 2 in a table of 3, instead of 4 in 32: the
  index wraps, `accept()` looks one entry past the end, and the third client to connect before
  the server accepts overwrites the first. The server passes to `listen()` the default of the
  kernel, 4 and 4 in the code, 2 and 2 here. Two clients call one function of each kind of the
  library (the others differ in the number of a request that the server treats alike), the third
  connects and closes. 571,606 states.
* `Network`: rings of 3 descriptors, the least in which head, tail and current descriptor
  differ; one frame in flight, which may be delivered again and again; one address, which the
  server may acknowledge to this host and, again and again, to another. What the host answers to
  ARP and `g:` requests of others is in `MCOtherClient` and in the proofs. 680,868 states.
* `Input`: a shift, an extended modifier, an extended key and a function key, two of them
  held at a time; two mouse packets of three bytes, one with both buttons and a delta that could be
  a first byte, one with a movement of 200; an ACK left in the mouse, or not: its bits are those of
  a first byte with both overflow bits; room for two and three bytes in the devices; 1024
  positions on a screen of 4, so that the pointer wraps below 0. 545,380 states.
* `Fat`: 6 clusters in sectors of 2 entries, so that a write of the table can be torn in two
  places; 3 root entries and one of `DE/`; files of 1 or 2 sectors; 4 saves and 3 losses, so
  that directory and table fill up and a file is saved, torn and saved again. Deadlock is not
  checked: a panic stops the machine. 1,055,605 states.

### Fairness

* `MCFair` and `MCSleepLost` assume weak fairness of `Tick` (the timer never stops
  and interrupts are enabled while a thread runs) and of `TaskSwitch` (a kernel that runs with
  interrupts disabled goes on). Nothing is assumed about programs, input or faults.
  `NoStarvation`, `ExitReaped` and `SleeperWakes` have the premise that from some moment no
  post is waiting to break a round: a program that posts for ever does starve others, as the
  comment at `ipc.c:70` fears. `MCFair` takes the uninitialised pointer to hold no valid
  thread, the outcome that does no harm, and no program locks the scheduler: while it is
  locked no round is built.
* `MCRing` assumes that the program keeps polling with `sys_get_message()`, which is what an event
  loop does; `Received` has the premise that from some moment it polls with nothing else.
* `MCDisplay`: the server's loop goes on, and a client that is inside a library call goes on;
  that is what `NoStarvation` shows of the scheduler. Whether a client calls at all is left open.
* `MCNetwork`: strong fairness of the interrupt, because system calls that send disable it
  again and again, and a pending interrupt is taken as soon as it is enabled; weak fairness of
  the driver's own code, of the card that sends and of the network that delivers the DHCP
  server's frames (loss is a step of its own and not excluded).
* `MCInput`: strong fairness of the two interrupts and of the controller's loading, because
  each handler disables the other port for a while, over and over; weak fairness of the
  handlers. The user may stop at any moment.

## Proofs

`tlapm` on the eight `_proofs` modules. All theorems are for every value of the
constants; the assumptions are the ASSUMEs of the modules, which TLC evaluates in the runs.

**Scheduler** (every table size, workload, quantum and value of the uninitialised pointer,
unless a hypothesis is named).

* `TypeCorrect`: `TypeOK` is inductive by itself. The lemma `FirstIn` (a set of tids has a
  least element, from the well-foundedness of the natural numbers) is what the choices of
  the first free slot, of the first thread in standby and of the next of the round rest on.
* `OneThreadRuns`: `OnlyCurrentRuns` needs `RunInv`: a free slot is not RUNNING, since
  `create_thread()` makes it live, and the current thread has a slot, since
  `copy_process()` marks it RUNNING. It holds with faults and locks too.
* `SwitchAlwaysValid` and `ReceiversAlwaysLive`: under `NoFaults`, from `LiveInv`: the
  process of a live thread is live, the thread that runs is live, the foreground thread is
  live and not a ZOMBIE, the display server is live. The third part is the argument: a
  thread is reaped only if it was a ZOMBIE when the round began, and the round that made it
  one took the focus from it. The assumption is needed: a fault leaves the threads of a
  process without it, and the display server registered.
* `ReadyAlwaysSaved`: under `StaleIsInit` (the uninitialised pointer holds the init thread,
  which the comment at `sched.c:316` wants to wake, or none), from `SavedInv`: not only READY
  but WAITING threads are saved, since a round makes them READY, the init thread is saved in
  any state, since a write to a file and the pointer make it READY, and a slot that is still
  free is in neither state. With another pointer it fails: `do_thread_ready()` then makes a
  thread READY that never ran.
* `SleepersSleep`: under `SleepersLeftAlone`, from `WakeInv`: a thread whose jiffy has not come is
  WAITING, BLOCKED or a ZOMBIE, a free slot has no jiffy, and a program that never calls
  sleep has neither a request nor a jiffy. Each part of the hypothesis excludes a call
  that looks at no state: `copy_process()` marks a caller RUNNING that was just put to sleep,
  `core_start_thread()` takes any thread, a write makes thread 0 READY, and so does the
  pointer with any thread. The workload of `MCWaiters` satisfies both hypotheses.
* `RoundsAscend` and `RoundsSkipNobody` are the safety half of `NoStarvation`: a link that the
  conductor follows leads to a higher tid, so a round ends, and a round just built passes over
  no READY thread. The first needs `RoundInv`: there is a set of threads, closed under the
  links and linked upwards, that holds the init thread and the conductor, and whose threads
  have all run. The last part is why the spawner, which links its thread back to the init
  thread, does not make the round a circle; hence the hypothesis `OnlyNewStarted`. If a program
  starts a READY thread, TLC finds a state in which `RoundInv` fails.

**MessageRing** (every queue size, all programs). `AgeOrder` (`EntriesInAgeOrder`) is what makes
the refinement `RingIsMailbox` work: while the queue is `ordered` it names, for each entry, the
one post that it can hold, so the entry a post overwrites is the one the mailbox forgets.

**Socket** (any programs). `KernelTypeCorrect` and `FullNeverWritable`: a full file may be read
and not written, which every call keeps. So the wake-up of a waiting reader in
`__write_imp()` (`fslib.c:1222`) is dead code.

**DisplayServer** (any number of clients, any use of the library). `DialogueUsesSockets` maps
every step to a step of `Socket` or to none. `NeverPanics` and `DialogueTypeCorrect` rest on
`Basic`: `Places` relates the program counters to the states of the sockets, and `FilesOK`
says that a file is readable exactly when it is full. `RepliesReadable` needs `ReplyInv`: the
action is ACTION_REPLY only when the server's answer is still in the file. It holds with
clients that connect in the middle of a dispatch. `AnswersReachTheirCalls` and
`ConnectionsStayClean` need that no client does: then `TurnInv` says, for each place of a client
in its call and each stage of the server's dispatch, what the client's file holds.

**E1000** (rings of any length, any protocol handler). `FrameIsStable` from `RxTail`: the tail is
the descriptor before the driver's, and is the one whose frame is being handled; the card
stops at the tail. `SendBufferFree` from `OneInFlight`: the busy wait keeps at most one frame in
the ring, and the card is at it, or at the blank one before the first. `NoFrameForgotten` needs
that the copy of the causes lives only inside the interrupt. `RingImplementsQueue` needs
`FullBetween`: exactly the descriptors between the driver and the head are full; the rest is
arithmetic of positions modulo the length (`HeadFacts`, `CurFacts`).

**Network** (any addresses, frames in flight, other hosts). `StackUsesCard`: every handler answers
a frame of the protocol or none, so each step is one of `E1000`, and the theorems above hold of
the stack. `AddressAlwaysAcknowledged` rests on `AcksAreMine`: each acknowledgement on the wire and
in the ring carries an address that is in `acked`, if it is for this host, or in `overheard`. It
also covers the address that ARP and `g:` answers carry (`AnswersAcknowledged`).

**Fat** (volumes, sectors and directories of any size, power lost at any sector).
`LoadsEnd` and `SavedFlagIsRight` from `Tables`: the clusters a save has yet to link
are free and ascending, and the sectors of the table that are written agree with the cache.
`SavedFilesLast` from `Disk`: the directory in memory has every entry of the one on the disk,
and a lasting file is linked in both tables, so a torn table keeps it and a save, which takes
free clusters, cannot touch it. `FilesAlwaysWhole` from `Volume`, which also follows the file
that is being saved.

**Input** (every set of keys and packets, packets of three and four bytes, queues of any length).
All seven theorems follow from `InputInv`. What waits in the devices and in the output buffer is a
sequence that the handlers have yet to read, so the invariant must say where reading it leads;
that would be an induction over the sequence. Instead the intermediate values are claimed to
exist, as functions on its positions:

* `Leads`, for `KeysReadAsTyped` and `KeysDoAsIntended`: there are flags and prefixes, one pair per
  position of the unread bytes, each obtained from the one before by the byte between them, which
  start with the driver's and end with those of the keys the user holds, and which fit the byte at
  every position. A key adds bytes at the end, a read takes the first one away.
* `Following`, for `InStepWithoutAnswer`, `ButtonsAlwaysTold` and `PointerAlwaysFollows`, unless an
  answer was left in the mouse (`stray`): the bytes in the driver's buffer and the unread ones are
  a number of whole packets (`Feeds`), with positions and buttons after each, which lead from the
  driver's position to the user's hand, modulo `POSITIONS` and unless a movement was `far`, and
  from the last buttons to those that are pressed. What was told differs from either end only in
  `swallowed` buttons.
* `Marked`, for `PacketsAlwaysWhole`, with or without an answer: counted from the end of the unread
  bytes, where a packet starts there is a byte with bit 3 set. So a handler in step never drops
  the byte it takes for a first one.

The prefix theorem needs nothing of the interrupts' order, only that the driver's state belongs to
one device and changes with its bytes alone. The assumptions are at least one byte of room in the
keyboard, for its first acknowledgement, and a screen narrower than two times `POSITIONS` (the boot
loader's modes are at most 1280 wide, `POSITIONS` is 1024), so that the first position, half the
width, is one of the positions.

Only model-checked: the liveness properties (`SwitchTerminates`, `NoStarvation`, `ExitReaped`,
`SleeperWakes`, `Received`, `CallReturns`, the two of `MCNetwork` and `Settles`), because the prover
has no rules for fairness, and the three violations, which are single behaviours.

## Not modelled

* The kernel heap and page allocators: almost nothing is freed, they move a pointer. Address
  spaces and page tables.
* Terminal lines, console, pipes: their buffers are files like those of `Socket`, without a
  protocol; the line discipline is not implemented in the code.
* The disk driver, PCI, the reset of the card, programming of the timer: polled port I/O.
* TCP and ICMP, which print what they receive; connections to other machines, which
  `__connect_inet()` leaves as a `#todo`; ext2 and vfs, tables without operations.
* Register contents, signals, priorities, statistics, the boot sequence (`Init` is its
  result), multiprocessor start-up (the other processors run no threads), the embedded shell.
* Window manager, drawing, C libraries, commands and applications: sequential programs, of
  which most of the repository's lines consist, often in several copies of the same library.
  They appear as the system calls they make.
