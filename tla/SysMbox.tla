------------------------------- MODULE SysMbox -------------------------------
(***************************************************************************)
(* A lwIP mailbox on TCTS (lwip_port/os/sys_arch_tcts.c): a ring buffer    *)
(* with a count, and two semaphores that count its used and free slots.    *)
(* Nothing protects the ring but the scheduler: a task that is not in an   *)
(* OS call is never interrupted by another task.  So a mailbox call is one *)
(* step up to and including each OS call it makes, and other tasks run     *)
(* between those steps.                                                    *)
(***************************************************************************)
EXTENDS TctsSema

CONSTANTS
  UsedCntSema, FreeCntSema, \* the semaphores of the mailbox
  MBOX_SIZE_MAX,            \* its number of slots
  Message                   \* the messages that are posted

ASSUME MboxAssumption ==
  /\ Sema = {UsedCntSema, FreeCntSema} /\ UsedCntSema # FreeCntSema
  /\ MBOX_SIZE_MAX = SemaMax
  /\ NULL \notin Message

VARIABLES
  wCount, wInIndex, wOutIndex, \* as in the code
  Buffer,                      \* the slots, numbered from 0
  call,                        \* per task: the mailbox call it is in
  posting,                     \* per task: the message it posts
  fetched                      \* per task: the message it fetched last

ringVars == <<wCount, wInIndex, wOutIndex, Buffer>>
userVars == <<call, posting, fetched>>
mboxVars == <<semaVars, ringVars, userVars>>

Slot == 0..MBOX_SIZE_MAX - 1
Call == {"none", "post", "trypost", "fetch", "fetchWait", "tryfetch"}

\* sys_mbox_new, before the tasks are created.
MboxInit ==
  /\ SchedInit
  /\ semaCounter = [s \in Sema |-> IF s = FreeCntSema THEN MBOX_SIZE_MAX ELSE 0]
  /\ wCount = 0 /\ wInIndex = 0 /\ wOutIndex = 0
  /\ Buffer = [i \in Slot |-> NULL]
  /\ call = [t \in Task |-> "none"]
  /\ posting = [t \in Task |-> NULL]
  /\ fetched = [t \in Task |-> NULL]

-----------------------------------------------------------------------------
\* Mutation of NextSlot: the index is compared before it is incremented.
NextSlotLate(i) == IF i = MBOX_SIZE_MAX THEN 0 ELSE i + 1

NextSlot(i) == IF i + 1 = MBOX_SIZE_MAX THEN 0 ELSE i + 1

Enter(t, c) ==
  /\ t \in Task
  /\ call[t] = "none"
  /\ call' = [call EXCEPT ![t] = c]

\* Mutation of sys_mbox_post: the slot is not claimed.
PostWithoutClaim(t, m) ==
  /\ Enter(t, "post")
  /\ posting' = [posting EXCEPT ![t] = m]
  /\ Caller(t)
  /\ UNCHANGED <<semaVars, ringVars, fetched>>

\* Post: claim a free slot, for ever if need be.
sys_mbox_post(t, m) ==
  /\ Enter(t, "post")
  /\ posting' = [posting EXCEPT ![t] = m]
  /\ OS_SemaWait(t, FreeCntSema, OS_WAIT_INFINITE)
  /\ UNCHANGED <<ringVars, fetched>>

\* The poll looks at wCount and not at the semaphore; then it waits like a post.
sys_mbox_trypost(t, m) ==
  /\ wCount # MBOX_SIZE_MAX
  /\ Enter(t, "trypost")
  /\ posting' = [posting EXCEPT ![t] = m]
  /\ OS_SemaWait(t, FreeCntSema, OS_WAIT_INFINITE)
  /\ UNCHANGED <<ringVars, fetched>>

\* The claim returned: store the message and count it as used.
PostStore(t) ==
  /\ t \in Task
  /\ call[t] \in {"post", "trypost"}
  /\ call' = [call EXCEPT ![t] = "none"]
  /\ wCount' = wCount + 1
  /\ Buffer' = [Buffer EXCEPT ![wInIndex] = posting[t]]
  /\ posting' = [posting EXCEPT ![t] = NULL]
  /\ wInIndex' = NextSlot(wInIndex)
  /\ OS_SemaSignal(t, UsedCntSema)
  /\ UNCHANGED <<wOutIndex, fetched>>

\* Fetch with a timeout.  The call goes on at once if a message was there.
sys_arch_mbox_fetch(t, ticks) ==
  /\ Enter(t, IF semaCounter[UsedCntSema] > 0 THEN "fetch" ELSE "fetchWait")
  /\ ticks # 0
  /\ OS_SemaWait(t, UsedCntSema, ticks)
  /\ UNCHANGED <<ringVars, posting, fetched>>

sys_arch_mbox_tryfetch(t) ==
  /\ wCount # 0
  /\ Enter(t, "tryfetch")
  /\ OS_SemaWait(t, UsedCntSema, OS_WAIT_INFINITE)
  /\ UNCHANGED <<ringVars, posting, fetched>>

\* Mutation of FetchGranted: a wait that timed out is taken for a success.
FetchAfterTimeout(t) == call[t] \in {"fetch", "fetchWait", "tryfetch"}

\* OS_SemaWait returned anything but OS_RC_TIMEOUT.
FetchGranted(t) ==
  \/ call[t] \in {"fetch", "tryfetch"}
  \/ call[t] = "fetchWait" /\ nReturnCode[t] # "TIMEOUT"

FetchTake(t) ==
  /\ t \in Task
  /\ FetchGranted(t)
  /\ call' = [call EXCEPT ![t] = "none"]
  /\ wCount' = wCount - 1
  /\ fetched' = [fetched EXCEPT ![t] = Buffer[wOutIndex]]
  /\ wOutIndex' = NextSlot(wOutIndex)
  /\ OS_SemaSignal(t, FreeCntSema)
  /\ UNCHANGED <<wInIndex, Buffer, posting>>

\* SYS_ARCH_TIMEOUT
FetchTimeout(t) ==
  /\ Caller(t)
  /\ call[t] = "fetchWait" /\ ~FetchGranted(t)
  /\ call' = [call EXCEPT ![t] = "none"]
  /\ UNCHANGED <<semaVars, ringVars, posting, fetched>>

\* Outside its mailbox calls a task gives up the CPU.
Idle(t) ==
  /\ t \in TCB
  /\ t \in Task => call[t] = "none"
  /\ OS_TaskYield(t)
  /\ UNCHANGED <<semaCounter, ringVars, userVars>>

Boot ==
  /\ bIsSchedLocked
  /\ OS_Start \/ \E t \in Task, p \in Priority : OS_TaskCreate(t, p)
  /\ UNCHANGED <<semaCounter, ringVars, userVars>>

MboxTick == HandleWaitList /\ UNCHANGED <<semaCounter, ringVars, userVars>>

MboxNext ==
  \/ \E m \in Message : sys_mbox_post(RunningTask, m) \/ sys_mbox_trypost(RunningTask, m)
  \/ \E ticks \in Timeout : sys_arch_mbox_fetch(RunningTask, ticks)
  \/ sys_arch_mbox_tryfetch(RunningTask)
  \/ PostStore(RunningTask)
  \/ FetchTake(RunningTask)
  \/ FetchTimeout(RunningTask)
  \/ Idle(RunningTask)
  \/ Boot
  \/ MboxTick

MboxSpec == MboxInit /\ [][MboxNext]_mboxVars

-----------------------------------------------------------------------------
MboxTypeOK ==
  /\ SemaTypeOK
  /\ wCount \in 0..MBOX_SIZE_MAX
  /\ wInIndex \in Slot /\ wOutIndex \in Slot
  /\ Buffer \in [Slot -> Message \cup {NULL}]
  /\ call \in [Task -> Call]
  /\ posting \in [Task -> Message \cup {NULL}]
  /\ fetched \in [Task -> Message \cup {NULL}]

\* Tasks that own a token of the semaphore but have not acted on it yet: the call
\* returned or will return success, wherever the scheduler has put the task.
ClaimedSlots ==
  {t \in Task : call[t] \in {"post", "trypost"} /\ waitOn[t] = NULL}
ClaimedMessages ==
  {t \in Task : FetchGranted(t) /\ waitOn[t] = NULL}

\* The count of the ring and the two semaphores agree at every moment: each slot
\* is counted by a semaphore, holds a message or is claimed by exactly one task.
SlotsAccountedFor ==
  /\ semaCounter[FreeCntSema] + Cardinality(ClaimedSlots) = MBOX_SIZE_MAX - wCount
  /\ semaCounter[UsedCntSema] + Cardinality(ClaimedMessages) = wCount

\* The mailbox is a bounded FIFO: no message is lost, overwritten, duplicated or
\* overtaken, although its users are switched between claiming and storing.
Ring == INSTANCE BoundedFifo WITH
  Client <- Task, Size <- MBOX_SIZE_MAX, Nothing <- NULL,
  queue <- [i \in 1..wCount |-> Buffer[(wOutIndex + i - 1) % MBOX_SIZE_MAX]]

ImplementsBoundedFifo == Ring!FifoSpec

\* sys_mbox_trypost and sys_arch_mbox_tryfetch never block: they poll, as their
\* comments say.
PollingNeverBlocks ==
  \A t \in Task : call[t] \in {"trypost", "tryfetch"} => waitOn[t] = NULL
=============================================================================
