------------------------------ MODULE TctsSched ------------------------------
(***************************************************************************)
(* The "Cooperative Task Scheduler" of source/common/library/tcts: the     *)
(* task control blocks, the ReadyList, the WaitList, the FIFO of every     *)
(* kernel object, the scheduler and the system tick.                       *)
(*                                                                         *)
(* Every OS function runs with interrupts disabled from EnterCritical to   *)
(* the context switch, so a call is ONE action.  An interrupt never        *)
(* switches tasks: it only moves tasks to the ReadyList, and the running   *)
(* task keeps the CPU until its next OS call.                              *)
(*                                                                         *)
(* A list is a sequence whose head is the task served next: pOut for the   *)
(* ReadyList and the FIFOs (pIn is the tail), pIn for the WaitList.        *)
(* The pointers pSemaWait, pMutexWait and pEventWait, of which at most one *)
(* is set, are the single field waitOn.                                    *)
(***************************************************************************)
EXTENDS Integers, Sequences, FiniteSets, SequencesExt

CONSTANTS
  Task,         \* the task control blocks of the application
  TCBIdle,      \* the control block of the idle task
  Object,       \* the kernel objects that own a FIFO of waiting tasks
  NULL,         \* the null pointer
  Priority,     \* the priorities of application tasks, 0 is the most urgent
  IdlePriority, \* IDLE_TASK_PRIO
  MaxTimeout    \* the largest finite timeout, in ticks

ASSUME IdleAssumption == TCBIdle \notin Task
ASSUME NullAssumption == NULL \notin Task \cup {TCBIdle} \cup Object
ASSUME PriorityAssumption ==
  /\ Priority \subseteq Nat
  /\ Priority # {}
  /\ IdlePriority \in Nat
  /\ \A p \in Priority : p < IdlePriority
ASSUME TimeoutAssumption == MaxTimeout \in Nat \ {0}

VARIABLES
  bIsSchedLocked, \* TRUE until OS_Start
  RunningTask,    \* the task that has the CPU, NULL before OS_Start
  ReadyList,      \* tasks that may run, in the order they will
  WaitList,       \* tasks with a timeout or waiting for an object
  Fifo,           \* Fifo[o]: the tasks that wait for object o
  State,          \* per task: the state the statistics show
  nPrio,          \* per task: its priority
  dTimeoutTicks,  \* per task: ticks left on the WaitList
  waitOn,         \* per task: the object it waits for, or NULL
  nReturnCode     \* per task: what its last blocking wait returns

schedVars == <<bIsSchedLocked, RunningTask, ReadyList, WaitList, Fifo, State,
               nPrio, dTimeoutTicks, waitOn, nReturnCode>>

TCB == Task \cup {TCBIdle}
OS_WAIT_INFINITE == MaxTimeout + 1     \* the one value above every finite timeout
Timeout == 0..OS_WAIT_INFINITE
TaskState == {"NOT_IN_USE", "CREATED", "READY", "WAITING", "RUNNING"}
ReturnCode == {"OK", "ERROR", "TIMEOUT", "DELETED", "RESETED"}

(***************************************************************************)
(* The lists, as one value that the loops of the kernel transform.         *)
(***************************************************************************)
Lists == [ready |-> ReadyList, wait |-> WaitList, fifo |-> Fifo]

\* Mutations of TCBFifoAddPrio: ahead of tasks of the same priority (> for >=);
\* and at the tail whatever the priority.
AddAheadOfEquals(fifo, t, prio) ==
  InsertAt(fifo, 1 + SelectLastInSeq(fifo, LAMBDA x : prio[x] < prio[t]), t)
AddAtTail(fifo, t, prio) == Append(fifo, t)

\* Walk from pIn: t goes right behind the first task that is at least as urgent.
TCBFifoAddPrio(fifo, t, prio) ==
  InsertAt(fifo, 1 + SelectLastInSeq(fifo, LAMBDA x : prio[x] <= prio[t]), t)

TCBFifoRemoveMiddle(fifo, t) == RemoveFirst(fifo, t)

\* The WaitList is linked by pointers of its own and not sorted.
AddTaskToWaitList(wait, t) == Append(wait, t)
WaitListRemove(wait, t) == RemoveFirst(wait, t)

AddTaskToReadyList(lists, t) ==
  [lists EXCEPT !.ready = TCBFifoAddPrio(@, t, nPrio)]

\* Mutations of WaitToReady: t stays on the WaitList; t stays on the FIFO.
WaitToReadyStillWaiting(lists, t) == AddTaskToReadyList(lists, t)
WaitToReadyStillQueued(lists, t) ==
  AddTaskToReadyList([lists EXCEPT !.wait = WaitListRemove(@, t)], t)

\* Take t off the WaitList and off the FIFO of the object it waits for, if
\* any, and append it to the ReadyList.
WaitToReady(lists, t) ==
  AddTaskToReadyList(
    [ready |-> lists.ready,
     wait  |-> WaitListRemove(lists.wait, t),
     fifo  |-> [o \in Object |-> IF o = waitOn[t] THEN TCBFifoRemoveMiddle(lists.fifo[o], t)
                                 ELSE lists.fifo[o]]], t)

\* One pass over the sequence walk that makes its tasks in set `go' ready.
WaitToReadyAll(lists, walk, go) ==
  LET after[i \in 0..Len(walk)] ==
        IF i = 0 THEN lists
        ELSE IF walk[i] \in go THEN WaitToReady(after[i - 1], walk[i])
        ELSE after[i - 1]
  IN  after[Len(walk)]

\* Mutation of ClearWait: the timeout is not cleared.
ClearWaitKeepTimeout(go, code) ==
  /\ waitOn' = [t \in TCB |-> IF t \in go THEN NULL ELSE waitOn[t]]
  /\ nReturnCode' = [t \in TCB |-> IF t \in go THEN code[t] ELSE nReturnCode[t]]
  /\ UNCHANGED dTimeoutTicks

\* The TCB fields of the tasks that a pass made ready; code[t] is the result
\* their wait call will return.
StateAfterWait(go) == [t \in TCB |-> IF t \in go THEN "READY" ELSE State[t]]
ClearWait(go, code) ==
  /\ waitOn' = [t \in TCB |-> IF t \in go THEN NULL ELSE waitOn[t]]
  /\ dTimeoutTicks' = [t \in TCB |-> IF t \in go THEN 0 ELSE dTimeoutTicks[t]]
  /\ nReturnCode' = [t \in TCB |-> IF t \in go THEN code[t] ELSE nReturnCode[t]]

SetLists(lists) ==
  /\ ReadyList' = lists.ready
  /\ WaitList' = lists.wait
  /\ Fifo' = lists.fifo

(***************************************************************************)
(* The scheduler.                                                          *)
(***************************************************************************)
\* An empty ReadyList is TAL_FAILED in the code and a NULL task here.
GetReadyTask(ready) == IF ready = <<>> THEN NULL ELSE Head(ready)

\* State becomes RUNNING only in ContextSwitch, which is skipped when the
\* running task is chosen again.
TaskSchedule(lists, state) ==
  LET new == GetReadyTask(lists.ready)
  IN  /\ RunningTask' = new
      /\ State' = IF new \in TCB /\ new # RunningTask
                  THEN [state EXCEPT ![new] = "RUNNING"] ELSE state
      /\ SetLists([lists EXCEPT !.ready = IF @ = <<>> THEN @ ELSE Tail(@)])

\* The running task goes to the ReadyList and the next task is chosen.
Reschedule(lists, state) ==
  TaskSchedule(AddTaskToReadyList(lists, RunningTask),
               [state EXCEPT ![RunningTask] = "READY"])

\* The caller of an OS function: the application task that has the CPU.
Caller(t) == t \in Task /\ t = RunningTask

\* Mutation of BlockLists: t is put in front of the WaitList.
BlockListsInFront(t, o) ==
  [ready |-> ReadyList,
   wait  |-> <<t>> \o WaitList,
   fifo  |-> IF o = NULL THEN Fifo
             ELSE [Fifo EXCEPT ![o] = TCBFifoAddPrio(@, t, nPrio)]]

\* The running task t blocks, on the FIFO of o unless o is NULL.
BlockLists(t, o) ==
  [ready |-> ReadyList,
   wait  |-> AddTaskToWaitList(WaitList, t),
   fifo  |-> IF o = NULL THEN Fifo
             ELSE [Fifo EXCEPT ![o] = TCBFifoAddPrio(@, t, nPrio)]]

WaitForObject(t, o, ticks) ==
  /\ dTimeoutTicks' = [dTimeoutTicks EXCEPT ![t] = ticks]
  /\ waitOn' = [waitOn EXCEPT ![t] = o]
  /\ nReturnCode' = [nReturnCode EXCEPT ![t] = "ERROR"]
  /\ TaskSchedule(BlockLists(t, o), [State EXCEPT ![t] = "WAITING"])
  /\ UNCHANGED <<bIsSchedLocked, nPrio>>

\* The first waiter, or every waiter, of object o is made ready with code c.
WakeFirst(o, c) ==
  LET t == Head(Fifo[o]) IN ClearWait({t}, [x \in {t} |-> c])
WakeAll(o, c) ==
  LET go == ToSet(Fifo[o]) IN ClearWait(go, [x \in go |-> c])

(***************************************************************************)
(* Tasks.                                                                  *)
(***************************************************************************)
\* memset of the TCB, then the ReadyList; the creator yields once started.
OS_TaskCreate(t, prio) ==
  /\ State[t] = "NOT_IN_USE"
  /\ bIsSchedLocked \/ Caller(RunningTask)
  /\ nPrio' = [nPrio EXCEPT ![t] = prio]
  /\ dTimeoutTicks' = [dTimeoutTicks EXCEPT ![t] = 0]
  /\ waitOn' = [waitOn EXCEPT ![t] = NULL]
  /\ nReturnCode' = [nReturnCode EXCEPT ![t] = "OK"]
  /\ LET withNew == [Lists EXCEPT !.ready = TCBFifoAddPrio(@, t, nPrio')]
         state   == [State EXCEPT ![t] = "READY"]
     IN  IF bIsSchedLocked
         THEN SetLists(withNew) /\ State' = state /\ UNCHANGED RunningTask
         ELSE TaskSchedule(
                [withNew EXCEPT !.ready = TCBFifoAddPrio(@, RunningTask, nPrio')],
                [state EXCEPT ![RunningTask] = "READY"])
  /\ UNCHANGED bIsSchedLocked

OS_Start ==
  /\ bIsSchedLocked
  /\ bIsSchedLocked' = FALSE
  /\ TaskSchedule(Lists, State)
  /\ UNCHANGED <<nPrio, dTimeoutTicks, waitOn, nReturnCode>>

\* Mutation of OS_TaskYield: the running task is not added to the ReadyList.
YieldWithoutAdd(t) ==
  /\ t \in TCB /\ t = RunningTask
  /\ TaskSchedule(Lists, State)
  /\ UNCHANGED <<bIsSchedLocked, nPrio, dTimeoutTicks, waitOn, nReturnCode>>

OS_TaskYield(t) ==
  /\ t \in TCB /\ t = RunningTask
  /\ Reschedule(Lists, State)
  /\ UNCHANGED <<bIsSchedLocked, nPrio, dTimeoutTicks, waitOn, nReturnCode>>

OS_TaskExit(t) ==
  /\ Caller(t)
  /\ TaskSchedule(Lists, [State EXCEPT ![t] = "NOT_IN_USE"])
  /\ UNCHANGED <<bIsSchedLocked, nPrio, dTimeoutTicks, waitOn, nReturnCode>>

OS_TaskChangePriority(t, prio) ==
  /\ Caller(t)
  /\ nPrio' = [nPrio EXCEPT ![t] = prio]
  /\ UNCHANGED <<bIsSchedLocked, RunningTask, ReadyList, WaitList, Fifo, State,
                 dTimeoutTicks, waitOn, nReturnCode>>

\* Any task may be named, whatever it waits for; the next tick acts on it.
OS_TaskWakeup(t, target) ==
  /\ Caller(t)
  /\ dTimeoutTicks' = [dTimeoutTicks EXCEPT ![target] = 0]
  /\ UNCHANGED <<bIsSchedLocked, RunningTask, ReadyList, WaitList, Fifo, State,
                 nPrio, waitOn, nReturnCode>>

\* A delay of 0 is OS_TaskYield.
OS_TimeDly(t, ticks) ==
  /\ Caller(t)
  /\ ticks > 0
  /\ dTimeoutTicks' = [dTimeoutTicks EXCEPT ![t] = ticks]
  /\ TaskSchedule(BlockLists(t, NULL), [State EXCEPT ![t] = "WAITING"])
  /\ UNCHANGED <<bIsSchedLocked, nPrio, waitOn, nReturnCode>>

(***************************************************************************)
(* The system tick interrupt: HandleWaitList.                              *)
(***************************************************************************)
\* Mutation of TicksAfter: the last tick is not counted (> 1 for > 0).
TicksAfterStopsAtOne(t) ==
  IF dTimeoutTicks[t] \in 2..MaxTimeout THEN dTimeoutTicks[t] - 1
  ELSE dTimeoutTicks[t]

TicksAfter(t) ==
  IF dTimeoutTicks[t] \in 1..MaxTimeout THEN dTimeoutTicks[t] - 1
  ELSE dTimeoutTicks[t]

Expired == {t \in ToSet(WaitList) : TicksAfter(t) = 0}

HandleWaitList ==
  /\ SetLists(WaitToReadyAll(Lists, WaitList, Expired))
  /\ State' = StateAfterWait(Expired)
  /\ waitOn' = [t \in TCB |-> IF t \in Expired THEN NULL ELSE waitOn[t]]
  /\ dTimeoutTicks' = [t \in TCB |-> IF t \in ToSet(WaitList)
                                     THEN TicksAfter(t) ELSE dTimeoutTicks[t]]
  /\ nReturnCode' = [t \in TCB |-> IF t \in Expired /\ waitOn[t] # NULL
                                   THEN "TIMEOUT" ELSE nReturnCode[t]]
  /\ UNCHANGED <<bIsSchedLocked, RunningTask, nPrio>>

-----------------------------------------------------------------------------
\* OS_TCTS_Init has run: only the idle task exists.
SchedInit ==
  /\ bIsSchedLocked = TRUE
  /\ RunningTask = NULL
  /\ ReadyList = <<TCBIdle>>
  /\ WaitList = <<>>
  /\ Fifo = [o \in Object |-> <<>>]
  /\ State = [t \in TCB |-> IF t = TCBIdle THEN "READY" ELSE "NOT_IN_USE"]
  /\ nPrio = [t \in TCB |-> IF t = TCBIdle THEN IdlePriority ELSE 0]
  /\ dTimeoutTicks = [t \in TCB |-> 0]
  /\ waitOn = [t \in TCB |-> NULL]
  /\ nReturnCode = [t \in TCB |-> "OK"]

SchedTaskNext ==
  \/ OS_Start
  \/ OS_TaskYield(RunningTask)
  \/ OS_TaskExit(RunningTask)
  \/ \E t \in Task, p \in Priority : OS_TaskCreate(t, p)
  \/ \E p \in Priority : OS_TaskChangePriority(RunningTask, p)
  \/ \E t \in Task : OS_TaskWakeup(RunningTask, t)
  \/ \E ticks \in Timeout : OS_TimeDly(RunningTask, ticks)

SchedNext == SchedTaskNext \/ HandleWaitList

SchedSpec == SchedInit /\ [][SchedNext]_schedVars

-----------------------------------------------------------------------------
IsListOf(s, S) == s \in Seq(S) /\ \A i, j \in DOMAIN s : s[i] = s[j] => i = j

TypeOK ==
  /\ bIsSchedLocked \in BOOLEAN
  /\ RunningTask \in TCB \cup {NULL}
  /\ IsListOf(ReadyList, TCB)
  /\ IsListOf(WaitList, Task)
  /\ Fifo \in [Object -> Seq(Task)]
  /\ \A o \in Object : IsListOf(Fifo[o], Task)
  /\ State \in [TCB -> TaskState]
  /\ nPrio \in [TCB -> Nat]
  /\ dTimeoutTicks \in [TCB -> Timeout]
  /\ waitOn \in [TCB -> Object \cup {NULL}]
  /\ nReturnCode \in [TCB -> ReturnCode]

(***************************************************************************)
(* Safety.                                                                 *)
(***************************************************************************)
\* A task that is in use is in exactly one place: it has the CPU, or is on the
\* ReadyList, or is on the WaitList.  pPrev/pNext of a TCB serve the ReadyList
\* and the FIFOs, so a task on two of them would corrupt both.  The idle task
\* is never on the WaitList, so the scheduler always finds a task (TAL_FAILED
\* in TCBFifoRemove if not).
Places(t) == {l \in {"cpu", "ready", "wait"} :
                \/ l = "cpu" /\ RunningTask = t
                \/ l = "ready" /\ t \in ToSet(ReadyList)
                \/ l = "wait" /\ t \in ToSet(WaitList)}
TaskInOnePlace ==
  \A t \in TCB : IF State[t] = "NOT_IN_USE" THEN Places(t) = {}
                 ELSE \E l \in {"cpu", "ready", "wait"} : Places(t) = {l}

\* A task is on the FIFO of an object exactly while its wait pointer names it
\* and it is on the WaitList: a signal and a timeout that race take it off both.
WaiterOnBothLists ==
  \A t \in TCB, o \in Object :
    t \in ToSet(Fifo[o]) <=> (waitOn[t] = o /\ t \in ToSet(WaitList))

\* No wait pointer and no timeout survive the wait they were set for, so no
\* later tick takes a task off a FIFO it has already left.
NoStaleWait ==
  \A t \in TCB : t \notin ToSet(WaitList) => waitOn[t] = NULL /\ dTimeoutTicks[t] = 0

(***************************************************************************)
(* Action properties.                                                      *)
(***************************************************************************)
Ahead(s, a, b) == \E i, j \in DOMAIN s : i < j /\ s[i] = a /\ s[j] = b

\* FIFO among tasks of equal priority, on the ReadyList (NULL) and on every FIFO:
\* a task stays ahead of every task that is added later without being more
\* urgent, until it is taken off.
Queue(o) == IF o = NULL THEN ReadyList ELSE Fifo[o]
NoOvertaking ==
  [][\A o \in Object \cup {NULL} :
       \A a \in ToSet(Queue(o)) \cap ToSet(Queue(o)'), b \in ToSet(Queue(o)') :
         (Ahead(Queue(o), a, b) \/ (b \notin ToSet(Queue(o)) /\ nPrio'[a] <= nPrio'[b]))
           => Ahead(Queue(o)', a, b)]_schedVars

\* Tasks whose waits end together, by a tick or a reset, become ready in the order
\* in which they started to wait, as far as their priorities are equal: the
\* comment in AddTaskToWaitList argues so from the direction of two list walks.
ExpireInWaitOrder ==
  [][\A a, b \in ToSet(WaitList) \cap ToSet(ReadyList') :
       Ahead(WaitList, a, b) /\ nPrio[a] = nPrio[b] => Ahead(ReadyList', a, b)]_schedVars

\* Whoever gets the CPU is no less urgent than every task that stays ready, also
\* when interrupts made tasks ready while the previous task ran.
MostUrgentRuns ==
  [][RunningTask' # RunningTask =>
       \A t \in ToSet(ReadyList') : nPrio'[RunningTask'] <= nPrio'[t]]_schedVars

(***************************************************************************)
(* Liveness.                                                               *)
(***************************************************************************)
\* A wait with a finite timeout ends, whatever else happens: signalled, woken or
\* timed out, and also when it was infinite and OS_TaskWakeup set it to 0.
FiniteWaitEnds ==
  \A t \in Task :
    (t \in ToSet(WaitList) /\ dTimeoutTicks[t] # OS_WAIT_INFINITE)
      ~> t \notin ToSet(WaitList)

\* With equal priorities the scheduler is round robin: a ready task gets the CPU.
ReadyTaskRuns ==
  \A t \in Task : t \in ToSet(ReadyList) ~> RunningTask = t
=============================================================================
