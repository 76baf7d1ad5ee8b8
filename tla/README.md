# TinyONE in TLA+

TinyONE is a DHCP and SNTP server for a private network, running on a
BeagleBone Black.  It is C without an operating system underneath: a cooperative
task scheduler of its own (TCTS), lwIP on top of it, and services and a web
server on top of lwIP.  This directory holds TLA+ models of the parts that carry
the device's own logic, the TLC configurations that check them on small
instances, and proofs that TLAPS checks.

Paths below are relative to `src/source/common/library/` unless they start with
`src/`.

## 1. Inventory

| Component | Source | State it keeps | Operations | What makes it correct |
|---|---|---|---|---|
| TCTS scheduler | `tcts/src/tcts.c`, `tcts_arm.c` | ReadyList, WaitList, RunningTask, a FIFO per object, the TCBs | create, yield, exit, delay, wakeup, change priority, tick | every task is in one place; priority order, FIFO among equals; finite waits end |
| Semaphores, mutexes, events | `tcts/src/tcts.c` | counter; owner and depth; bit pattern | wait, signal, signal from an interrupt, reset, delete, set, clear | no lost wakeup, no token lost or doubled when a timeout races a signal, no barging, no lost bit |
| TCTS mailboxes, queues, groups | `tcts/src/tcts.c` | ring on two semaphores, a group that collects queues | post, post from an interrupt, wait, join, leave | the counters of the semaphores agree with the ring; the count of the group agrees with its queues |
| lwIP port | `lwip_port/os/sys_arch_tcts.c` | ring, wCount, two semaphores | new, free, post, trypost, fetch, tryfetch | a bounded FIFO; polling does not block |
| Ethernet interface | `lwip_port/dev/ethernetif.c` | receive and transmit descriptors, mailbox and event of the receive task, link state | receive task, both interrupts, DMA, send, link check | frames keep their order, none is lost but by overwriting or for want of a pbuf, none waits for ever |
| DHCP server | `ipapi/src/ip_dhcpserver.c` | lease table, pool, settings | discover, request, lease expiry, start | one entry per client, exclusive leases, renewals kept |
| SNTP client and server | `ipapi/src/ip_sntp.c`, `ip_sntpserver.c` | servers, retry state, time | request, timeout, answer | no time is served before it is known |
| Other IP services | `ipapi/src/*` | little | DHCP client, DNS, mDNS, TNP, syslog | formats |
| Web sessions and users | `ipweb/src/web_sid.c`, `web_user.c`, `web_login.c` | 8 session slots, login error counter, user list | create, login, check, time out | a slot serves one address, a blocked login opens again |
| Web server | `uhttp/`, `ipweb/` | client tasks, streams | accept, serve, TLS | text processing and I/O |
| Serial driver | `tal_b3/core/src/talcom.c`, `tal_b3/cpu/ti/am335x/src/talcpu_com.c` | receive and transmit ring, count semaphore, overflow flag | send a block, receive with and without wait, test, clear, interrupt | bytes keep their order, blocks are not mixed, the semaphore does not promise bytes that are not there, the transmitter does not stop with bytes left |
| Files, settings, certificates | `fsapi/`, `src/source/common/src/{nvm,fs,etc,cert}.c` | open files, settings | open, read, write | settings survive a power failure |
| ELCA client, application, bootloader | `src/source/common/src/elca_client.c`, `src/source/src/`, `src/bootloader/` | little | sequential | - |

How they interact: every call of the kernel runs with interrupts disabled and
ends in a possible task switch; an interrupt may signal an object but never
switches tasks, so between two kernel calls a task is interrupted by interrupts
only.  Hence interleaving happens at kernel calls, and shared data of tasks is
protected by nothing else.  lwIP reaches the kernel through the mailboxes and
semaphores of `sys_arch_tcts.c`; the DHCP server blocks in `recvfrom` and
`sendto` on those mailboxes.

Two drivers share data with interrupts directly: the serial port, whose rings
disable interrupts for each single operation, and the Ethernet interface, whose
descriptors are shared with the DMA as well.

The behaviours that are hard to test: interrupts between any two kernel calls,
or any two operations of a ring; the DMA that completes or reuses a buffer at
any moment;
a timeout, a signal and a wakeup for the same task in the same tick; a task
switched between claiming a slot and using it; requests that are lost, repeated
and reordered; leases counted with two clocks.  `PROJECT.json` lists the hazards
line by line with the properties that cover them.

## 2. Modules

| Module | Models | Extends |
|---|---|---|
| `TctsSched` | lists, scheduler, task operations, tick | |
| `TctsSema` | `OS_Sema*` | `TctsSched` |
| `TctsMutex` | `OS_Mutex*` | `TctsSched` |
| `TctsEvent` | `OS_Event*` | `TctsSched` |
| `TctsKernel` | composition: the three kinds of objects share TCBs, lists and tick | the three |
| `SemaService`, `MutexService` | what semaphores and mutexes promise, without lists or scheduler | |
| `SysMbox` | lwIP mailboxes on two TCTS semaphores | `TctsSema` |
| `BoundedFifo` | what a mailbox promises | |
| `TalCom` | a serial port: rings, UART interrupt, sending and receiving calls | uses `SemaService` |
| `EthernetIf` | the Ethernet interface: descriptors, DMA, interrupts, receive task with its TCTS mailbox, transmission | |
| `DhcpServer` | the DHCP task, its lease table, the clients and the network | |
| `TctsSchedProofs` | lemmas about the lists, and that every scheduler action keeps the list discipline and the order of the lists | `TctsSched` |
| `TctsSemaProofs`, `TctsMutexProofs` | theorems about semaphores (with the scheduler) and mutexes | their module, `TctsSchedProofs` |
| `TctsKernelProofs` | theorems about event groups, and about the composed kernel | `TctsKernel`, the two above |
| `SysMboxProofs` | theorems about the lwIP mailboxes | `SysMbox`, `TctsSemaProofs` |
| `TalComProofs`, `EthernetIfProofs`, `DhcpServerProofs` | theorems about the serial port, the Ethernet interface, the DHCP server | the module they are about |
| `MC*` | instances for TLC | |

**Scheduler.**  A call is one action, because interrupts are disabled from
`EnterCritical` to the context switch.  The doubly linked lists are sequences
whose head is served next: `pOut` of the ReadyList and the FIFOs, `pIn` of the
WaitList.  `TCBFifoAddPrio` is the insertion of the code: behind the last task
that is at least as urgent.  `HandleWaitList` walks the whole WaitList in one
action, since it runs in the tick interrupt.  The three wait pointers of a TCB,
of which at most one is set, are one field `waitOn`.  `OS_WAIT_INFINITE` is the
one value above `MaxTimeout`.  Delays are in ticks.  The idle task is in `TCB`
but not in `Task`: it yields for ever and never blocks.  A call names any object
and any timeout; nothing is assumed of what tasks do.

**Semaphores, mutexes, events.**  Each operation is an action for a task, and
the `FromInt` form another one that moves tasks to the ReadyList without a
switch.  A timeout of 0 polls.  `OS_SemaReset` reschedules, the delete
operations do not, as in the code.  `OS_EventClr` is the one unprotected
operation and is two actions, load and store; in between only interrupts run.

**Mailboxes.**  A mailbox call is a step up to and including each kernel call:
the claim (`OS_SemaWait`), and the use of the ring with the release
(`OS_SemaSignal`).  `call[t]` is the program counter of the task.  Outside its
calls a task yields.

**Serial port.**  `TalCom` stands on the abstract semaphores: its three
semaphores (`Sema`, `TxSema`, `RxRdySema`) are an instance of `SemaService`, and
every kernel call of the driver is one of the service's steps.  That
`TctsSema` implements the service is proved, so the driver is checked against
what the kernel is proved to give, without its lists.  A step is one ring
operation or one kernel call, since each of them disables interrupts and nothing
else does; `pc[t]` says where a task is.  The model switches tasks between ring
operations too, where the cooperative scheduler does not, and it lets a wait time
out at any moment: it has every behaviour of the code and some more.  Received
bytes are numbered when they enter the ring and a byte to send knows its block
and its place in it, so that the model can tell order, repetition and mixing.
One task reads (the terminal), each sends.  The reader may make any call of the
driver, also those the terminal does not make.  `cpu_COMTxIsRunning` before
`cpu_COMStartTx` is left out of `Restart`: the latter makes the same test.

**Ethernet interface.**  The receive side is the DMA (`FrameArrives`), the
interrupt handler, one action because it is not interrupted and a frame that
completes while it loops is one that completed before, and the task, whose
polling `OS_MboxWait` is three steps: the look at `wCount`, the semaphore, the
critical section.  A handler and `OS_MboxPostFromInt` are one action with the
number of mails that find space.  `CopyFrame` fails when there is no pbuf.  The
transmit side is `low_level_output` in two steps, filling the descriptor and
starting it with the transmit interrupt disabled, the DMA (`FrameSent`) and the
handler, which halts on a descriptor that was not sent: then no step of it is
enabled.  Frames are numbered in the order of arrival; `lapped` notes that one
overwrote a frame that waited to be read, until the task has caught up with
everything, and `starved` that the task stopped for want of a pbuf.

**DHCP server.**  `ReceiveRequest` is `recvfrom`, the handler with
`BuildResponseMsg` and `FindFreeIP`, up to `sendto`; `SendtoReturns` is the
check of the leases that follows; `ReceiveNothing` is a timeout or a frame that
is not answered, with the same check.  Only the low byte of an address and
whether a requested address is in the subnet matter.  `granted` is what the
clients believe: a lease runs from the moment the acknowledged request was
*sent* (RFC 2131), in ticks, while the server counts whole seconds from its
answer.  The table index stands for the address, as in the code.

## 3. Runs

| Run | Instance | Shows |
|---|---|---|
| `sema` | 3 tasks, 2 priorities, timeouts 1, 2 and infinite, a semaphore of 2 tokens | lists, order, scheduling; the semaphore implements `SemaService` |
| `sema_live` | 2 tasks, 1 priority, a semaphore of 1 token | round robin; waits end |
| `mutex` | 3 tasks, 2 priorities, recursion 2 | hand-over; the mutex implements `MutexService` |
| `event` | 2 tasks and interrupts, 2 bits, both modes | no waiter sleeps on set bits, no bit is lost |
| `kernel` | 2 tasks, one object of each kind | nobody sleeps in vain when the kinds are mixed |
| `mbox` | 3 tasks, 2 slots, 2 messages | the mailbox implements `BoundedFifo`; its count agrees with its semaphores |
| `mbox_poll` | 3 tasks, 1 slot | **violated**: a polling call can block |
| `dhcp` | 2 clients, pools of 0, 1 and 2 addresses at the end of the subnet, leases of 2 s at 2 ticks a second, 4 ticks, 2 requests in the network | the leases |
| `dhcp_live` | the same with leases of 1 s and 1 request | overdue entries are freed under load |
| `dhcp_pool` | pools that end at .252 to .254 | **violated**: one address too many |
| `com` | 2 tasks that send, one of them receives; rings of 2 bytes, blocks of 2 and 3 bytes | order of bytes, the receive semaphore, the transmitter; sending ends |
| `nic` | 3 descriptors in each direction | order of frames; none is left lying about |

Why the bounds are enough.  Three tasks are a running task and two that wait in
one FIFO, or a ready one and a waiting one: the smallest instance in which
order and hand-over matter.  Two priorities give one preferred and one tied
pair.  A timeout of 1 expires at once and one of 2 survives a tick.  Two tokens
and a semaphore maximum of two reach both ends of the counter.  For the DHCP
server, two clients on a pool of one compete, on a pool of two they do not; two
requests in the network suffice for duplication and reordering of one client's
messages and for competition; four ticks let one lease of four ticks run out
and every phase of the second clock occur.  In `com` a block of two bytes fits into an empty ring and not
into one that holds a byte, one of three never fits, so both ways of
`tal_COMSendBlock` occur from every fill of the ring, and the rings are full,
empty and wrap.  In `nic` three descriptors have a first, a middle and a last
one, so that handlers find one, several or all of them complete and the mailbox
wraps at another place than the descriptors.  The two directions share no
variable; the constraint `OneDirection` of `MCEthernetIf` therefore explores
each of them while the other has not begun, instead of their product.  The
proofs need no bound.
`MaxRecursion`, `MaxTime` and `MaxInFlight` bound counters and are named as
bounds where they are declared.

Symmetry is declared for tasks, messages, bits and clients in runs that check
no liveness.

Fairness.  `SemaFairSpec`: the tick interrupt keeps coming (hardware), a signal
keeps being given (the assumption of the property), and a task that has the CPU
gives it up, which is the contract of a cooperative scheduler.  With more than
one priority `ReadyTaskRuns` would be false, and should be.  `DhcpFairSpec`:
`recvfrom` has a timeout of one second (`SOCKET_RCVTIMEO_MS`), so it returns
with a message or without one, and `sendto` returns.  `ComFairSpec`: a task that
is sending and not blocked goes on (its delays end with the next tick and it
gets the CPU), and the UART sends its register and interrupts when it is empty.
Nothing is assumed of the receiver, of what is received, or of anybody
starting to send; `SendEnds` also holds when the other task sends again and
again, because the lock is handed to the waiter.

## 4. Disagreements between code and documentation

* `mbox_poll`: `sys_mbox_trypost` and `sys_arch_mbox_tryfetch` test `wCount` and
  then wait for a semaphore without a timeout.  `wCount` and the semaphore
  disagree while a token has been handed to a task that has not run yet, and
  the call blocks although its comment promises a poll.
* `dhcp_pool`: the test against 254 in `IP_DHCP_ServerStart` and the size it
  computes are off by one against each other: `.252` with a pool of 2 becomes a
  pool of 3.

Met while modelling, without a run of its own: `talcpu_com.c:104` records a
receive overflow, under the comment "Ups, overflow", as
`bRxOverflow = TAL_OK`.  `TAL_OK` is 0 (`taltypes.h:51`), which is `TAL_FALSE`,
so the flag never becomes true: `GetRxData` never returns an overflow error and
the call of `tal_COMClearOverflow` in `terminal.c:163` is never reached.
`talcpu_can.c:386` has the same line.  `TalCom` contains this (`TAL_OK ==
FALSE`); the run `com` shows that the dropped bytes do no further harm.

## 5. Proofs

Every safety property of the passing runs, that is every invariant, action
property and refinement, is proved for every value of the constants: any number
of tasks, priorities, objects, bits, slots, descriptors and clients, any
timeout, ring size, lease time, tick rate and pool.  The proofs use the named
assumptions of the modules only:

* kernel: the idle task and `NULL` are none of the application's tasks and
  objects, application priorities are more urgent than the idle one, the largest
  timeout, count and recursion depth are positive; semaphores, mutexes and event
  groups are objects, and in the composed kernel no object is two of them;
* mailboxes (`MboxAssumption`): the two semaphores are different, their largest
  count is the number of slots, `NULL` is no message;
* serial port: the reader is a task, rings and blocks are not empty, `NULL` is no
  byte (`NullAssumption`);
* Ethernet interface (`DescAssumption`): there are descriptors, `NULL` is no index;
* DHCP server: the ranges of the settings (`ConfigAssumption`), a positive tick
  rate and lease time (`TimeAssumption`) and a "no entry" index outside the table
  (`NoEntryAssumption`).

Each inductive invariant was first checked with TLC as an invariant of a run of
the component's instance, and then proved by one lemma per action.

**The scheduler (`TctsSchedProofs`).**  First lemmas about lists, that is
sequences without repetition: `TCBFifoAddPrio`, `RemoveFirst`, `Append` and
`Tail` keep a list a list and add or remove exactly one task.  Then the
operators of the kernel: `WaitToReady` moves one task, and `WaitToReadyAll`
exactly the tasks it is told to (`Moved`).  The latter is a loop; the lemma about
it first shows that its recursive function exists and then argues by the least
step at which the claim could fail, since the induction theorems of the library
are out of this prover's reach.

The inductive invariant `SchedInv` is stated of *any* three lists, not only of
the variables: `Placed` says that a task in use has the CPU or is on one of the
two lists, and `Queued` that FIFOs, wait pointers, timeouts and the WaitList
agree.  This form is needed because a call passes through lists on which
everybody is and nobody has the CPU (`TaskSchedulePlaces`, `ReschedulePlaces`),
and moves several tasks at once (`MovedPlaces`).  `TaskInOnePlace` alone is not
inductive: a tick that unlinks a task from the FIFO its wait pointer names needs
`Queued`, and `OS_Start` needs that nobody runs before it.

**The order of the lists (`TctsSchedProofs`, second part).**  `OrderInv` says
that the ReadyList and every FIFO are sorted by priority, and that waiters of
equal priority are on their FIFO in the order in which they are on the WaitList.
The second half is what `ExpireInWaitOrder` needs: a tick walks the WaitList,
but a reset, a delete and an event set walk the FIFO.  It is what the comment in
`AddTaskToWaitList` argues from the direction of the two walks.  The lemmas say
for each list operation who is ahead of whom after it (`InsertAtOrder`,
`RemoveFirstOrder`, `AppendOrder`, `TCBFifoAddPrioOrder`), and `PassOrder` the
same for a walk, again by the least step at which it could fail.  `OrderStep` is
what they give for a whole action: tasks on a list keep their priority, the
lists keep their order (`Orderly`), and whoever gets the CPU is at least as
urgent as those that stay ready.  One lemma per action proves it, and
`NoOvertaking`, `ExpireInWaitOrder`, `MostUrgentRuns` and `GrantInOrder` follow
from it (`NobodyOvertakes`, `WaitsEndInOrder`, `UrgentTasksRunFirst`,
`TokensGoInOrder` of `TctsSemaProofs`).  The priority of a task that is on a list
does not change because `OS_TaskChangePriority` changes only the caller's.

**Semaphores (`TctsSemaProofs`).**  `SemaInv` adds the range of the counters and
`TokenInv`: nobody's wait pointer names a semaphore with a token.  Since the
invariant makes the FIFO of an object the set of tasks whose wait pointer names
it, each action is judged by what it does to wait pointers and counters.
Theorems: `SemaTypeCorrect`, `TasksStayInOnePlace`, `WaitersStayOnBothLists`,
`NoWaitGoesStale`, `NoLostWakeup`, and `SemaRefinement`: `SemaSpec` implements
`SemaService` under the mapping that the run `sema` checks.  A step of the
scheduler, the tick included, maps to `Expire` of the waits it ended.

**Mutexes (`TctsMutexProofs`).**  `MutexInv` adds `HeldInv`: owner and depth
agree, and whoever waits for a mutex waits for one that another task owns.
Theorems: `MutexTypeCorrect`, `MutexesAreConsistent`, `NobodyBarges`, and
`MutexRefinement` to `MutexService`.

**Event groups (`TctsKernelProofs`).**  `NoSatisfiedWaiter` is not inductive,
because of `OS_EventClr`: its store writes a value it computed before interrupts
set more bits.  `EventInv` adds `UnsatisfiedInv`: nobody who waits for a group is
satisfied by its bits, nor by the value that a clear between its load and its
store is about to write.  Both follow from one observation, that who is not
satisfied by some bits is not satisfied by fewer (`MoreBitsSatisfy`).  Theorems:
`EventTypeCorrect`, `NoWaiterSatisfied`, `EventsAreNotLost`,
`ReleaseMeansSatisfied`.

**The composed kernel (`TctsKernelProofs`).**  `KernelInv` is the conjunction of
the three invariants.  Each survives the steps on the other kinds because a step
on one kind begins waits for that kind only (`WaitsOnlyFor`) and ends waits for
that kind only (`WakesOnly`), and the kinds are disjoint.  `KernelStepIs` is the
composition in one sentence: a step of the kernel is, for each kind, a step of
that kind's own specification or one that leaves its data and its waits
untouched.  So what holds of semaphores, mutexes and event groups alone holds of
them when tasks use all three: `NobodySleepsForNothing`, the refinements
`KernelSemaRefinement` and `KernelMutexRefinement`, and the action properties
(`KernelTokensGoInOrder`, `KernelNobodyBarges`, `KernelEventsAreNotLost`,
`KernelReleaseMeansSatisfied`).  The order of the lists is not composed but
proved action by action (`KernelListsStaySorted`, with `KernelNobodyOvertakes`,
`KernelWaitsEndInOrder`, `KernelUrgentTasksRunFirst`), since the ReadyList is
shared by all.

**lwIP mailboxes (`SysMboxProofs`).**  A step of a mailbox call is a step of the
semaphores, so `SemaInv` holds.  `MboxInv` adds `CallsInv` (who waits for which
semaphore is in a call that waits for it, and only a fetch has a timeout),
`RingInv` (`wInIndex` is `wCount` slots behind `wOutIndex`), `MessagesInv`, and
`AccountInv`: the tokens of a semaphore, the tasks that hold one without having
used it, and the slots add up.  The sums are cardinalities of the sets of claims,
which change by one task per step.  Theorems: `MboxTypeCorrect`,
`SlotsStayAccountedFor`, and `MboxRefinement` to `BoundedFifo`.
`MboxUsesSemaphores` says that `MboxSpec` implements `SemaSpec`, so everything
proved of the semaphores holds under a mailbox, the order of service included
(`MboxServesInOrder`, `MboxNobodyOvertakes`).

**Serial port (`TalComProofs`).**  `ComInv` has eight parts.  `PlacesInv` says
where a task that waits for a semaphore is, `LockInv` that one task at most holds
the transmit lock, `BlockInv` how far a sender is with its block and that a block
that was found to fit still fits.  `UartInv` gives `TxNeverStalls`: with bytes in
the ring the UART runs or the sender is about to start it.  `ChainInv` and
`NextInv` say that the bytes on their way out are an unbroken chain which the
holder of the lock continues; with `ReceivedInv` for the other direction they
give `BytesInOrder`.  `PromiseInv` says by the reader's place how many bytes the
count semaphore may promise, and gives `RxSignalTruthful`.  Theorems:
`ComTypeCorrect`, `TransmitterNeverStalls`, `SignalsAreTruthful`,
`BytesStayInOrder`.

**Ethernet interface (`EthernetIfProofs`).**  The two directions share no
variable, so `NicInv` is `RxInv /\ TxInv`.  `TxInv`: some number n of descriptors
from `tx_read_index` on are at the DMA, the next one may be in the hands of the
task, the others are free, and the frames in them are an unbroken numbered line
that continues what was sent.  `RxInv`: the indices and semaphores of the mailbox
fit the place of the receive task, the completed descriptors begin at
`next_rx_index`, and, unless the DMA overran the task, the frame in the task's
hand, those behind the mails and those completed since are such a line.
Theorems: `NicTypeCorrect`, `FramesStayInOrder`, `NothingStaysBehind`.

**DHCP server (`DhcpServerProofs`).**  The invariant `DhcpInv` is the types, the
pool of the settings, `OneEntryPerClient` and `LeaseInv`: a promised lease that
runs is in the table under its client, and `EntryOutlasts` it: by the server's
clock of whole seconds the entry does not become overdue before the lease, less
one second of rounding, has run out.  That is what keeps `CheckLeaseTime` from
freeing it, and what makes exclusiveness inductive.  Theorems:
`DhcpTypeCorrect`, `PoolStaysInHostRange`, `AtMostOneEntry`,
`LeasesAreRemembered`, `LeasesAreExclusive`, `RenewalsKeepTheirAddress`.

## 6. What is only model-checked, and what is not modelled

Liveness stays with TLC: `SemaWaitEnds`, `FiniteWaitEnds` and `ReadyTaskRuns`
(`sema_live`), `ExpiredLeasesAreFreed` (`dhcp_live`) and `SendEnds` (`com`).
Fairness means `ENABLED`, which TLAPS does not handle.  The two runs that find a
violation are TLC's as well.  Nothing in the modules that hold theorems is a recursive
operator; the loops of the code are recursive functions, and what the proofs need
of them is shown by the least step at which it could fail, since the library's
induction theorems cannot be instantiated by the provers used.

Not modelled: see the component list of `PROJECT.json`, each with its reason.
Of the modelled drivers: opening, closing and I/O control of a serial port, its
virtual ports and time stamps; the link state, the PHY, the address filter and
the register set-up of the Ethernet interface.  Of the kernel: the message
queues and queue groups, `OS_TimeDlyUntil`, `OS_TimeWait` and the user timer,
which this application never calls.  The larger part of the repository by far is
vendored (lwIP, mbedTLS, FatFs, zlib, StarterWare) and is left alone.
Crash recovery is absent because the modelled parts persist nothing; a change
of the settings reboots the device and clears the lease table.

## 7. Plan

Done: models of the kernel and its composition, the lwIP mailboxes, the DHCP
server, the serial port and the Ethernet interface; proofs of all their safety
properties, and of those of semaphores, mutexes and event groups in the composed
kernel.  Next:

1. Proofs: facts about the abstract specifications themselves (`SemaService`,
   `MutexService`, `BoundedFifo`), which every refinement then inherits; safety
   facts that the liveness properties rest on.
2. Later candidates for models: the web sessions with the blocked login, the
   SNTP client, the link state, and the message queues should the application
   come to use them.
