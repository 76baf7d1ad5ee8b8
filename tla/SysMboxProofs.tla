---------------------------- MODULE SysMboxProofs ----------------------------
(***************************************************************************)
(* Proofs about the lwIP mailbox on the semaphores of TCTS, for any tasks, *)
(* priorities, messages, timeouts and number of slots.                     *)
(***************************************************************************)
EXTENDS SysMbox, TctsSemaProofs, FiniteSetTheorems

-----------------------------------------------------------------------------
(* The inductive invariant.                                                  *)

Posting == {"post", "trypost"}

\* Who waits is in a call that waits, for the semaphore of that call.  Only a fetch
\* may time out.
WaitsForItsCall(t) ==
  /\ waitOn[t] = FreeCntSema =>
       call[t] \in Posting /\ dTimeoutTicks[t] = OS_WAIT_INFINITE
  /\ waitOn[t] = UsedCntSema =>
       \/ call[t] = "fetchWait"
       \/ call[t] = "tryfetch" /\ dTimeoutTicks[t] = OS_WAIT_INFINITE

CallsInv ==
  /\ call \in [Task -> Call]
  /\ bIsSchedLocked => \A t \in Task : call[t] = "none"
  /\ \A t \in TCB : waitOn[t] \in Sema \cup {NULL}
  /\ \A t \in Task : WaitsForItsCall(t)

\* The slots from wOutIndex on are used, and posting ends at wInIndex.
RingInv ==
  /\ wCount \in 0..MBOX_SIZE_MAX
  /\ wOutIndex \in Slot
  /\ wInIndex = (wOutIndex + wCount) % MBOX_SIZE_MAX
  /\ Buffer \in [Slot -> Message \cup {NULL}]

MessagesInv ==
  /\ posting \in [Task -> Message \cup {NULL}]
  /\ fetched \in [Task -> Message \cup {NULL}]
  /\ \A t \in Task : call[t] \in Posting => posting[t] \in Message

AccountInv ==
  /\ IsFiniteSet(ClaimedSlots) /\ IsFiniteSet(ClaimedMessages)
  /\ SlotsAccountedFor

MboxInv == SemaInv /\ CallsInv /\ RingInv /\ MessagesInv /\ AccountInv

-----------------------------------------------------------------------------
(* Indices of the ring.                                                      *)

LEMMA SizeFacts ==
  /\ MBOX_SIZE_MAX \in Nat \ {0} /\ SemaMax = MBOX_SIZE_MAX
  /\ FreeCntSema \in Sema /\ UsedCntSema \in Sema /\ FreeCntSema # UsedCntSema
  /\ Sema = {UsedCntSema, FreeCntSema}
  /\ NULL \notin Sema /\ NULL \notin TCB /\ Task \subseteq TCB
  BY MboxAssumption, SemaMaxAssumption, SemaAssumption, NullAssumption DEF TCB

\* What the remainder does to an index that has wrapped once at most.
LEMMA Wrap ==
  ASSUME NEW n \in Nat \ {0}, NEW x \in Nat, x < 2 * n
  PROVE  x % n = IF x < n THEN x ELSE x - n
<1>1. CASE x < n
  BY <1>1
<1>2. CASE n <= x
  BY <1>2
<1> QED
  BY <1>1, <1>2

\* A message is stored behind the others.
LEMMA InIndexMoves ==
  ASSUME NEW out \in Slot, NEW count \in 0..MBOX_SIZE_MAX - 1, NEW in,
         in = (out + count) % MBOX_SIZE_MAX
  PROVE  in \in Slot /\ NextSlot(in) = (out + (count + 1)) % MBOX_SIZE_MAX
<1> DEFINE n == MBOX_SIZE_MAX
           x == out + count
           y == out + (count + 1)
           next == NextSlot(in)
<1>1. /\ n \in Nat \ {0} /\ x \in Nat /\ x < 2 * n - 1 /\ y = x + 1 /\ Slot = 0..n - 1
      /\ in = x % n /\ next = IF in + 1 = n THEN 0 ELSE in + 1
  BY SizeFacts DEF Slot, NextSlot
<1> HIDE DEF n, x, y, next
<1>2. x < 2 * n
  BY <1>1
<1>3. in = IF x < n THEN x ELSE x - n
  BY <1>1, <1>2, Wrap
<1>4. y \in Nat /\ y < 2 * n
  BY <1>1
<1>5. y % n = IF y < n THEN y ELSE y - n
  BY <1>1, <1>4, Wrap
<1>6. in \in 0..n - 1
  BY <1>1, <1>3
<1>7. next = IF y < n THEN y ELSE y - n
  BY <1>1, <1>3
<1>8. in \in Slot /\ next = y % n
  BY <1>1, <1>5, <1>6, <1>7
<1> QED
  BY <1>8 DEF n, y, next

\* The first message is taken.
LEMMA OutIndexMoves ==
  ASSUME NEW out \in Slot, NEW count \in 1..MBOX_SIZE_MAX
  PROVE  /\ NextSlot(out) \in Slot
         /\ (NextSlot(out) + (count - 1)) % MBOX_SIZE_MAX = (out + count) % MBOX_SIZE_MAX
<1> DEFINE n == MBOX_SIZE_MAX
           next == NextSlot(out)
           x == out + count
           y == next + (count - 1)
<1>1. /\ n \in Nat \ {0} /\ x \in Nat /\ x < 2 * n /\ x >= out + 1
      /\ next = IF out + 1 = n THEN 0 ELSE out + 1
      /\ y = IF out + 1 = n THEN x - n ELSE x
      /\ out \in 0..n - 1 /\ Slot = 0..n - 1
  BY SizeFacts DEF Slot, NextSlot
<1> HIDE DEF n, next, x, y
<1>2. y \in Nat /\ y < 2 * n
  BY <1>1
<1>3. x % n = IF x < n THEN x ELSE x - n
  BY <1>1, Wrap
<1>4. y % n = IF y < n THEN y ELSE y - n
  BY <1>1, <1>2, Wrap
<1>5. next \in 0..n - 1
  BY <1>1
<1>6. (IF y < n THEN y ELSE y - n) = IF x < n THEN x ELSE x - n
  BY <1>1
<1>7. next \in Slot /\ y % n = x % n
  BY <1>1, <1>3, <1>4, <1>5, <1>6
<1> QED
  BY <1>7 DEF n, next, x, y

-----------------------------------------------------------------------------
(* What the kernel calls do to the caller and to the waiters.                *)

\* A mailbox step is a step of the semaphores.
LEMMA MboxStepIsSemaStep == MboxNext => [SemaNext]_semaVars
<1> SUFFICES ASSUME MboxNext PROVE [SemaNext]_semaVars
  OBVIOUS
<1>1. CASE \E s \in Sema, ticks \in Timeout : OS_SemaWait(RunningTask, s, ticks)
  BY <1>1 DEF SemaNext, SemaTaskNext
<1>2. CASE \E s \in Sema : OS_SemaSignal(RunningTask, s)
  BY <1>2 DEF SemaNext, SemaTaskNext
<1>3. CASE SchedNext /\ UNCHANGED semaCounter
  BY <1>3 DEF SemaNext
<1>4. OS_WAIT_INFINITE \in Timeout
  BY TimeoutAssumption DEF Timeout, OS_WAIT_INFINITE
<1> QED
  BY <1>1, <1>2, <1>3, <1>4, SizeFacts
     DEF MboxNext, sys_mbox_post, sys_mbox_trypost, PostStore, sys_arch_mbox_fetch,
         sys_arch_mbox_tryfetch, FetchTake, FetchTimeout, Idle, Boot, MboxTick, SchedNext,
         SchedTaskNext, semaVars

\* The running task waits for nothing.
LEMMA CallerIsAwake ==
  ASSUME SchedInv, NEW t \in Task, Caller(t)
  PROVE  t \in TCB /\ waitOn[t] = NULL /\ ~bIsSchedLocked /\ t \notin ToSet(WaitList)
<1>1. t \in TCB /\ t = RunningTask /\ ~bIsSchedLocked
  BY CallerRuns
<1>2. t \notin ToSet(WaitList)
  BY <1>1, ListsFields DEF SchedInv, Placed
<1> QED
  BY <1>1, <1>2, ListsFields DEF SchedInv, Queued

\* OS_SemaWait takes a token, or the caller waits.
Takes(s) ==
  /\ semaCounter[s] > 0
  /\ semaCounter' = [semaCounter EXCEPT ![s] = @ - 1]
  /\ UNCHANGED <<bIsSchedLocked, waitOn, dTimeoutTicks, nReturnCode>>
Blocks(t, s, ticks) ==
  /\ semaCounter[s] = 0
  /\ waitOn' = [waitOn EXCEPT ![t] = s]
  /\ dTimeoutTicks' = [dTimeoutTicks EXCEPT ![t] = ticks]
  /\ nReturnCode' = [nReturnCode EXCEPT ![t] = "ERROR"]
  /\ UNCHANGED <<bIsSchedLocked, semaCounter>>

LEMMA WaitSteps ==
  ASSUME NEW t, NEW s, NEW ticks, ticks # 0, OS_SemaWait(t, s, ticks)
  PROVE  Takes(s) \/ Blocks(t, s, ticks)
<1>1. CASE SemaTake(s)
  BY <1>1 DEF SemaTake, Takes, schedVars
<1>2. CASE semaCounter[s] = 0 /\ WaitForObject(t, s, ticks) /\ UNCHANGED semaCounter
  BY <1>2 DEF WaitForObject, Blocks
<1> QED
  BY <1>1, <1>2 DEF OS_SemaWait

\* OS_SemaSignal counts the token, or hands it to a waiter that is not the caller.
Counts(s) ==
  /\ semaCounter' = IF semaCounter[s] < SemaMax
                    THEN [semaCounter EXCEPT ![s] = @ + 1] ELSE semaCounter
  /\ UNCHANGED <<bIsSchedLocked, waitOn, dTimeoutTicks, nReturnCode>>
HandsTo(h, s) ==
  /\ waitOn[h] = s
  /\ waitOn' = [x \in TCB |-> IF x = h THEN NULL ELSE waitOn[x]]
  /\ dTimeoutTicks' = [x \in TCB |-> IF x = h THEN 0 ELSE dTimeoutTicks[x]]
  /\ nReturnCode' = [x \in TCB |-> IF x = h THEN "OK" ELSE nReturnCode[x]]
  /\ UNCHANGED <<bIsSchedLocked, semaCounter>>

LEMMA SignalSteps ==
  ASSUME SemaInv, NEW t \in Task, NEW s \in Sema, OS_SemaSignal(t, s)
  PROVE  Counts(s) \/ \E h \in Task \ {t} : HandsTo(h, s)
<1>1. CASE SemaCountUp(s)
  BY <1>1 DEF SemaCountUp, Counts, schedVars
<1>2. CASE SemaHandOver(s)
  <2> DEFINE h == Head(Fifo[s])
  <2>1. h \in Task /\ waitOn[h] = s
    BY <1>2, SemaWaiters, HeadTailList DEF SemaInv, SemaHandOver
  <2>2. h # t
    BY <2>1, CallerIsAwake, SizeFacts DEF SemaInv, OS_SemaSignal
  <2>3. /\ ClearWait({h}, [x \in {h} |-> "OK"])
        /\ UNCHANGED <<bIsSchedLocked, semaCounter>>
    BY <1>2 DEF SemaHandOver, WakeFirst
  <2> HIDE DEF h
  <2>4. HandsTo(h, s)
    BY <2>1, <2>3 DEF ClearWait, HandsTo
  <2> QED
    BY <2>1, <2>2, <2>4
<1> QED
  BY <1>1, <1>2 DEF OS_SemaSignal

-----------------------------------------------------------------------------
(* Every action of the mailbox preserves the invariant.                      *)

LEMMA MboxInitInv == MboxInit => MboxInv
<1> SUFFICES ASSUME MboxInit PROVE MboxInv
  OBVIOUS
<1>1. SemaInv
  <2>1. SemaInit
    BY SizeFacts DEF MboxInit, SemaInit
  <2> QED
    BY <2>1, SemaInitInv
<1>2. /\ call = [t \in Task |-> "none"] /\ waitOn = [t \in TCB |-> NULL]
      /\ wCount = 0 /\ wInIndex = 0 /\ wOutIndex = 0
      /\ semaCounter[FreeCntSema] = MBOX_SIZE_MAX /\ semaCounter[UsedCntSema] = 0
  BY SizeFacts DEF MboxInit, SchedInit
<1>3. CallsInv
  BY <1>2, SizeFacts DEF CallsInv, Call, WaitsForItsCall
<1>4. RingInv
  BY <1>2, SizeFacts, Wrap DEF RingInv, Slot, MboxInit
<1>5. MessagesInv
  BY <1>2 DEF MessagesInv, MboxInit, Posting
<1>6. ClaimedSlots = {} /\ ClaimedMessages = {}
  BY <1>2 DEF ClaimedSlots, ClaimedMessages, FetchGranted
<1>7. AccountInv
  BY <1>2, <1>6, FS_EmptySet, SizeFacts DEF AccountInv, SlotsAccountedFor
<1> QED
  BY <1>1, <1>3, <1>4, <1>5, <1>7 DEF MboxInv

\* All counts are numbers.
LEMMA ClaimsCount ==
  ASSUME MboxInv
  PROVE  /\ Cardinality(ClaimedSlots) \in Nat /\ Cardinality(ClaimedMessages) \in Nat
         /\ semaCounter[FreeCntSema] \in Nat /\ semaCounter[UsedCntSema] \in Nat
         /\ wCount \in Nat /\ wCount <= MBOX_SIZE_MAX /\ MBOX_SIZE_MAX \in Nat
  BY FS_CardinalityType, SizeFacts DEF MboxInv, AccountInv, SemaInv, RingInv

\* What decides whether a task owns a slot or a message.
HasSlot(t) == call[t] \in Posting /\ waitOn[t] = NULL
HasMessage(t) == FetchGranted(t) /\ waitOn[t] = NULL

LEMMA ClaimsAre ==
  /\ ClaimedSlots = {t \in Task : HasSlot(t)}
  /\ ClaimedMessages = {t \in Task : HasMessage(t)}
  /\ ClaimedSlots' = {t \in Task : HasSlot(t)'}
  /\ ClaimedMessages' = {t \in Task : HasMessage(t)'}
  BY DEF ClaimedSlots, ClaimedMessages, HasSlot, HasMessage, Posting

\* The fields of task t that the invariant is about do not change.
SameTask(t) ==
  /\ call'[t] = call[t] /\ waitOn'[t] = waitOn[t]
  /\ dTimeoutTicks'[t] = dTimeoutTicks[t] /\ nReturnCode'[t] = nReturnCode[t]

LEMMA SameClaims ==
  ASSUME NEW t, SameTask(t)
  PROVE  /\ HasSlot(t)' <=> HasSlot(t)
         /\ HasMessage(t)' <=> HasMessage(t)
         /\ WaitsForItsCall(t)' <=> WaitsForItsCall(t)
  BY DEF SameTask, HasSlot, HasMessage, FetchGranted, WaitsForItsCall

LEMMA CallsKept ==
  ASSUME CallsInv, NEW t \in Task, NEW c \in Call, call' = [call EXCEPT ![t] = c],
         ~bIsSchedLocked',
         \A x \in TCB : waitOn'[x] \in Sema \cup {NULL},
         \A x \in Task : WaitsForItsCall(x)'
  PROVE  CallsInv'
  BY DEF CallsInv

\* The set of claims of one kind gains a task, loses one, or does not change.
LEMMA ClaimGained ==
  ASSUME NEW S, NEW T, IsFiniteSet(S), NEW t \in T, t \notin S,
         \A x : x # t => (x \in T <=> x \in S)
  PROVE  IsFiniteSet(T) /\ Cardinality(T) = Cardinality(S) + 1
<1>1. T = S \cup {t}
  OBVIOUS
<1> QED
  BY <1>1, FS_AddElement

LEMMA ClaimGivenUp ==
  ASSUME NEW S, NEW T, IsFiniteSet(S), NEW t \in S, t \notin T,
         \A x : x # t => (x \in T <=> x \in S)
  PROVE  IsFiniteSet(T) /\ Cardinality(T) = Cardinality(S) - 1 /\ Cardinality(S) >= 1
<1>1. T = S \ {t}
  OBVIOUS
<1>2. S = T \cup {t} /\ IsFiniteSet(T)
  BY <1>1, FS_RemoveElement
<1> QED
  BY <1>2, FS_AddElement, FS_CardinalityType

\* A call waits for the semaphore s, on behalf of a post or a fetch: the caller is
\* the only task that changes.
LEMMA EnterFrame ==
  ASSUME MboxInv, SemaInv', NEW t \in Task, NEW c \in Call, Enter(t, c),
         NEW s \in Sema, NEW ticks, ticks # 0, OS_SemaWait(t, s, ticks)
  PROVE  /\ \A x \in Task \ {t} : SameTask(x)
         /\ ~HasSlot(t) /\ ~HasMessage(t)
         /\ call'[t] = c
         /\ waitOn[t] = NULL
         /\ \/ /\ waitOn'[t] = NULL
               /\ nReturnCode'[t] = nReturnCode[t]
               /\ semaCounter[s] > 0
               /\ semaCounter' = [semaCounter EXCEPT ![s] = @ - 1]
            \/ /\ waitOn'[t] = s /\ dTimeoutTicks'[t] = ticks
               /\ semaCounter[s] = 0 /\ semaCounter' = semaCounter
         /\ WaitsForItsCall(t)' => CallsInv'
<1>1. /\ t \in TCB /\ waitOn[t] = NULL /\ ~bIsSchedLocked
      /\ call[t] = "none" /\ call' = [call EXCEPT ![t] = c]
  BY CallerIsAwake DEF MboxInv, SemaInv, Enter, OS_SemaWait
<1>2. /\ call'[t] = c /\ \A x \in Task \ {t} : call'[x] = call[x]
  BY <1>1 DEF MboxInv, CallsInv
<1>3. ~HasSlot(t) /\ ~HasMessage(t)
  BY <1>1 DEF HasSlot, HasMessage, FetchGranted, Posting
<1>4. /\ waitOn \in [TCB -> Object \cup {NULL}] /\ DOMAIN dTimeoutTicks = TCB
      /\ DOMAIN nReturnCode = TCB
  BY DEF MboxInv, SemaInv, SchedInv, Queued
<1>5. Takes(s) \/ Blocks(t, s, ticks)
  BY WaitSteps
<1>6. /\ \A x \in TCB \ {t} : /\ waitOn'[x] = waitOn[x]
                              /\ dTimeoutTicks'[x] = dTimeoutTicks[x]
                              /\ nReturnCode'[x] = nReturnCode[x]
      /\ bIsSchedLocked' = bIsSchedLocked
  BY <1>1, <1>4, <1>5 DEF Takes, Blocks
<1>7. \/ /\ waitOn'[t] = NULL
         /\ nReturnCode'[t] = nReturnCode[t]
         /\ semaCounter[s] > 0
         /\ semaCounter' = [semaCounter EXCEPT ![s] = @ - 1]
      \/ /\ waitOn'[t] = s /\ dTimeoutTicks'[t] = ticks
         /\ semaCounter[s] = 0 /\ semaCounter' = semaCounter
  BY <1>1, <1>4, <1>5 DEF Takes, Blocks
<1>8. \A x \in Task \ {t} : SameTask(x)
  BY <1>2, <1>6, SizeFacts DEF SameTask
<1>9. ASSUME WaitsForItsCall(t)' PROVE CallsInv'
  <2>1. \A x \in Task : WaitsForItsCall(x)'
    <3> SUFFICES ASSUME NEW x \in Task, x # t PROVE WaitsForItsCall(x)'
      BY <1>9
    <3>1. WaitsForItsCall(x)
      BY DEF MboxInv, CallsInv
    <3> QED
      BY <1>8, <3>1, SameClaims
  <2>2. \A x \in TCB : waitOn'[x] \in Sema \cup {NULL}
    BY <1>6, <1>7 DEF MboxInv, CallsInv
  <2> QED
    BY <1>1, <1>6, <2>1, <2>2, CallsKept DEF MboxInv
<1> QED
  BY <1>1, <1>2, <1>3, <1>7, <1>8, <1>9

LEMMA PostEnters ==
  ASSUME MboxInv, SemaInv', NEW t \in Task, NEW c \in Posting, NEW m \in Message,
         Enter(t, c), posting' = [posting EXCEPT ![t] = m],
         OS_SemaWait(t, FreeCntSema, OS_WAIT_INFINITE),
         UNCHANGED <<ringVars, fetched>>
  PROVE  MboxInv'
<1>1. /\ c \in Call /\ FreeCntSema \in Sema /\ OS_WAIT_INFINITE # 0
      /\ c \notin {"fetch", "fetchWait", "tryfetch"}
  BY SizeFacts, TimeoutAssumption DEF OS_WAIT_INFINITE, Posting, Call
<1>2. /\ \A x \in Task \ {t} : SameTask(x)
      /\ ~HasSlot(t) /\ ~HasMessage(t) /\ call'[t] = c /\ waitOn[t] = NULL
      /\ \/ /\ waitOn'[t] = NULL
            /\ semaCounter' = [semaCounter EXCEPT ![FreeCntSema] = @ - 1]
            /\ semaCounter[FreeCntSema] > 0
         \/ /\ waitOn'[t] = FreeCntSema /\ dTimeoutTicks'[t] = OS_WAIT_INFINITE
            /\ semaCounter' = semaCounter
      /\ WaitsForItsCall(t)' => CallsInv'
  BY <1>1, EnterFrame
<1>3. UNCHANGED <<wCount, wInIndex, wOutIndex, Buffer, fetched>>
  BY DEF ringVars
<1>4. CallsInv'
  BY <1>2, SizeFacts DEF WaitsForItsCall
<1>5. RingInv'
  BY <1>3 DEF MboxInv, RingInv
<1>6. MessagesInv'
  <2>1. /\ posting'[t] = m /\ \A x \in Task \ {t} : posting'[x] = posting[x]
        /\ posting' \in [Task -> Message \cup {NULL}]
    BY DEF MboxInv, MessagesInv
  <2> QED
    BY <1>2, <1>3, <2>1 DEF MboxInv, MessagesInv, SameTask
<1>7. ~HasMessage(t)' /\ (HasSlot(t)' <=> waitOn'[t] = NULL)
  BY <1>1, <1>2 DEF HasMessage, FetchGranted, HasSlot
<1>8. /\ ClaimedMessages' = ClaimedMessages
      /\ \A x : x # t => (x \in ClaimedSlots' <=> x \in ClaimedSlots)
      /\ t \notin ClaimedSlots /\ (t \in ClaimedSlots' <=> waitOn'[t] = NULL)
  BY <1>2, <1>7, ClaimsAre, SameClaims
<1>9. AccountInv'
  <2>1. CASE waitOn'[t] = NULL
    <3>1. IsFiniteSet(ClaimedSlots') /\ Cardinality(ClaimedSlots') = Cardinality(ClaimedSlots) + 1
      BY <1>8, <2>1, ClaimGained DEF MboxInv, AccountInv
    <3>2. /\ semaCounter'[FreeCntSema] = semaCounter[FreeCntSema] - 1
          /\ semaCounter'[UsedCntSema] = semaCounter[UsedCntSema]
      BY <1>2, <2>1, SizeFacts DEF MboxInv, SemaInv
    <3> QED
      BY <1>3, <1>8, <3>1, <3>2, ClaimsCount, SizeFacts DEF MboxInv, AccountInv, SlotsAccountedFor
  <2>2. CASE waitOn'[t] # NULL
    <3>1. ClaimedSlots' = ClaimedSlots /\ semaCounter' = semaCounter
      BY <1>2, <1>8, <2>2
    <3> QED
      BY <1>3, <1>8, <3>1 DEF MboxInv, AccountInv, SlotsAccountedFor
  <2> QED
    BY <2>1, <2>2
<1> QED
  BY <1>4, <1>5, <1>6, <1>9 DEF MboxInv

LEMMA FetchEnters ==
  ASSUME MboxInv, SemaInv', NEW t \in Task, NEW c, NEW ticks, ticks # 0,
         \/ c = IF semaCounter[UsedCntSema] > 0 THEN "fetch" ELSE "fetchWait"
         \/ c = "tryfetch" /\ ticks = OS_WAIT_INFINITE,
         Enter(t, c), OS_SemaWait(t, UsedCntSema, ticks),
         UNCHANGED <<ringVars, posting, fetched>>
  PROVE  MboxInv'
<1>1. /\ c \in Call /\ UsedCntSema \in Sema /\ c \notin Posting
      /\ c \in {"fetch", "fetchWait", "tryfetch"}
  BY SizeFacts DEF Posting, Call
<1>2. /\ \A x \in Task \ {t} : SameTask(x)
      /\ ~HasSlot(t) /\ ~HasMessage(t) /\ call'[t] = c /\ waitOn[t] = NULL
      /\ \/ /\ waitOn'[t] = NULL
            /\ semaCounter' = [semaCounter EXCEPT ![UsedCntSema] = @ - 1]
            /\ semaCounter[UsedCntSema] > 0
         \/ /\ waitOn'[t] = UsedCntSema /\ dTimeoutTicks'[t] = ticks
            /\ semaCounter[UsedCntSema] = 0 /\ semaCounter' = semaCounter
      /\ WaitsForItsCall(t)' => CallsInv'
  BY <1>1, EnterFrame
<1>3. UNCHANGED <<wCount, wInIndex, wOutIndex, Buffer, posting, fetched>>
  BY DEF ringVars
<1>4. CallsInv'
  <2>1. waitOn'[t] = UsedCntSema => c \in {"fetchWait", "tryfetch"}
    BY <1>1, <1>2, SizeFacts
  <2> QED
    BY <1>2, <2>1, SizeFacts DEF WaitsForItsCall
<1>5. RingInv'
  BY <1>3 DEF MboxInv, RingInv
<1>6. MessagesInv'
  BY <1>1, <1>2, <1>3 DEF MboxInv, MessagesInv, SameTask
<1>7. ~HasSlot(t)' /\ (HasMessage(t)' <=> waitOn'[t] = NULL)
  <2>1. waitOn'[t] = NULL => c \in {"fetch", "tryfetch"}
    BY <1>2, SizeFacts
  <2> QED
    BY <1>1, <1>2, <2>1 DEF HasMessage, FetchGranted, HasSlot
<1>8. /\ ClaimedSlots' = ClaimedSlots
      /\ \A x : x # t => (x \in ClaimedMessages' <=> x \in ClaimedMessages)
      /\ t \notin ClaimedMessages /\ (t \in ClaimedMessages' <=> waitOn'[t] = NULL)
  BY <1>2, <1>7, ClaimsAre, SameClaims
<1>9. AccountInv'
  <2>1. CASE waitOn'[t] = NULL
    <3>1. /\ IsFiniteSet(ClaimedMessages')
          /\ Cardinality(ClaimedMessages') = Cardinality(ClaimedMessages) + 1
      BY <1>8, <2>1, ClaimGained DEF MboxInv, AccountInv
    <3>2. /\ semaCounter'[UsedCntSema] = semaCounter[UsedCntSema] - 1
          /\ semaCounter'[FreeCntSema] = semaCounter[FreeCntSema]
      BY <1>2, <2>1, SizeFacts DEF MboxInv, SemaInv
    <3>3. Cardinality(ClaimedSlots') = Cardinality(ClaimedSlots) /\ IsFiniteSet(ClaimedSlots')
      BY <1>8 DEF MboxInv, AccountInv
    <3>4. SlotsAccountedFor
      BY DEF MboxInv, AccountInv
    <3>5. SlotsAccountedFor'
      BY <1>3, <3>1, <3>2, <3>3, <3>4, ClaimsCount DEF SlotsAccountedFor
    <3> QED
      BY <3>1, <3>3, <3>5 DEF AccountInv
  <2>2. CASE waitOn'[t] # NULL
    <3>1. ClaimedMessages' = ClaimedMessages /\ semaCounter' = semaCounter
      BY <1>2, <1>8, <2>2
    <3> QED
      BY <1>3, <1>8, <3>1 DEF MboxInv, AccountInv, SlotsAccountedFor
  <2> QED
    BY <2>1, <2>2
<1> QED
  BY <1>4, <1>5, <1>6, <1>9 DEF MboxInv

\* A call ends with a signal to the semaphore s.  If a task waited for it, that task
\* now owns what the signal stood for, and nothing was counted.
LEMMA LeaveFrame ==
  ASSUME MboxInv, SemaInv', NEW t \in Task, call' = [call EXCEPT ![t] = "none"],
         NEW s \in Sema, OS_SemaSignal(t, s)
  PROVE  /\ CallsInv'
         /\ waitOn[t] = NULL /\ ~HasSlot(t)' /\ ~HasMessage(t)' /\ call'[t] = "none"
         /\ \A x \in Task \ {t} : call'[x] = call[x]
         /\ \/ /\ \A x \in Task \ {t} : SameTask(x)
               /\ semaCounter' = IF semaCounter[s] < SemaMax
                                 THEN [semaCounter EXCEPT ![s] = @ + 1] ELSE semaCounter
            \/ \E h \in Task \ {t} :
                 /\ \A x \in Task \ {t, h} : SameTask(x)
                 /\ waitOn[h] = s /\ waitOn'[h] = NULL /\ nReturnCode'[h] = "OK"
                 /\ semaCounter' = semaCounter
<1>1. t \in TCB /\ waitOn[t] = NULL /\ ~bIsSchedLocked
  BY CallerIsAwake DEF MboxInv, SemaInv, OS_SemaSignal
<1>2. call'[t] = "none" /\ \A x \in Task \ {t} : call'[x] = call[x]
  BY DEF MboxInv, CallsInv
<1>3. ~HasSlot(t)' /\ ~HasMessage(t)'
  BY <1>2 DEF HasSlot, HasMessage, FetchGranted, Posting
<1>4. PICK h \in Task : Counts(s) \/ (h # t /\ HandsTo(h, s))
  BY SignalSteps DEF MboxInv
<1>5. /\ bIsSchedLocked' = bIsSchedLocked
      /\ \A x \in TCB : waitOn'[x] = waitOn[x] \/ (x = h /\ h # t /\ waitOn'[x] = NULL)
      /\ \A x \in TCB : x # h \/ Counts(s) =>
           dTimeoutTicks'[x] = dTimeoutTicks[x] /\ nReturnCode'[x] = nReturnCode[x]
      /\ \A x \in TCB : x # h \/ Counts(s) => waitOn'[x] = waitOn[x]
  BY <1>4 DEF Counts, HandsTo
<1>6. \A x \in Task \ {t} : x # h \/ Counts(s) => SameTask(x)
  BY <1>2, <1>5, SizeFacts DEF SameTask
<1>7. HandsTo(h, s) => /\ waitOn[h] = s /\ waitOn'[h] = NULL /\ nReturnCode'[h] = "OK"
                       /\ semaCounter' = semaCounter
  BY SizeFacts DEF HandsTo
<1>8. CallsInv'
  <2>1. \A x \in Task : WaitsForItsCall(x)'
    <3> SUFFICES ASSUME NEW x \in Task PROVE WaitsForItsCall(x)'
      OBVIOUS
    <3>1. CASE waitOn'[x] = NULL
      BY <3>1, SizeFacts DEF WaitsForItsCall
    <3>2. CASE waitOn'[x] # NULL
      <4>1. x # t /\ SameTask(x)
        BY <1>1, <1>4, <1>5, <1>6, <1>7, <3>2, SizeFacts
      <4> QED
        BY <4>1, SameClaims DEF MboxInv, CallsInv
    <3> QED
      BY <3>1, <3>2
  <2>2. \A x \in TCB : waitOn'[x] \in Sema \cup {NULL}
    BY <1>5 DEF MboxInv, CallsInv
  <2> QED
    BY <1>1, <1>5, <2>1, <2>2, CallsKept DEF MboxInv, Call
<1>9. CASE Counts(s)
  BY <1>1, <1>2, <1>3, <1>6, <1>8, <1>9 DEF Counts
<1>10. CASE h # t /\ HandsTo(h, s)
  BY <1>1, <1>2, <1>3, <1>6, <1>7, <1>8, <1>10
<1> QED
  BY <1>4, <1>9, <1>10

\* Whoever stores finds a free slot, and whoever takes finds a message.
LEMMA RoomAndMessages ==
  ASSUME MboxInv
  PROVE  /\ ClaimedSlots # {} => wCount < MBOX_SIZE_MAX /\ semaCounter[UsedCntSema] < MBOX_SIZE_MAX
         /\ ClaimedMessages # {} => wCount > 0 /\ semaCounter[FreeCntSema] < MBOX_SIZE_MAX
<1>1. /\ ClaimedSlots # {} => Cardinality(ClaimedSlots) # 0
      /\ ClaimedMessages # {} => Cardinality(ClaimedMessages) # 0
  BY FS_EmptySet DEF MboxInv, AccountInv
<1>2. SlotsAccountedFor
  BY DEF MboxInv, AccountInv
<1> QED
  BY <1>1, <1>2, ClaimsCount DEF SlotsAccountedFor

LEMMA PostStoreInv ==
  ASSUME MboxInv, SemaInv', NEW t \in Task, PostStore(t)
  PROVE  MboxInv'
<1>1. /\ CallsInv'
      /\ waitOn[t] = NULL /\ ~HasSlot(t)' /\ ~HasMessage(t)' /\ call'[t] = "none"
      /\ \A x \in Task \ {t} : call'[x] = call[x]
      /\ \/ /\ \A x \in Task \ {t} : SameTask(x)
            /\ semaCounter' = IF semaCounter[UsedCntSema] < SemaMax
                              THEN [semaCounter EXCEPT ![UsedCntSema] = @ + 1] ELSE semaCounter
         \/ \E h \in Task \ {t} :
              /\ \A x \in Task \ {t, h} : SameTask(x)
              /\ waitOn[h] = UsedCntSema /\ waitOn'[h] = NULL /\ nReturnCode'[h] = "OK"
              /\ semaCounter' = semaCounter
  BY LeaveFrame, SizeFacts DEF PostStore
<1>2. HasSlot(t) /\ ~HasMessage(t)
  BY <1>1 DEF PostStore, HasSlot, HasMessage, FetchGranted, Posting
<1>3. t \in ClaimedSlots /\ t \notin ClaimedSlots' /\ t \notin ClaimedMessages
      /\ t \notin ClaimedMessages'
  BY <1>1, <1>2, ClaimsAre
<1>4. wCount < MBOX_SIZE_MAX /\ semaCounter[UsedCntSema] < MBOX_SIZE_MAX
  BY <1>3, RoomAndMessages
<1>5. /\ posting[t] \in Message /\ posting' = [posting EXCEPT ![t] = NULL]
      /\ wCount' = wCount + 1 /\ Buffer' = [Buffer EXCEPT ![wInIndex] = posting[t]]
      /\ wInIndex' = NextSlot(wInIndex) /\ wOutIndex' = wOutIndex /\ fetched' = fetched
  BY DEF PostStore, MboxInv, MessagesInv, Posting
<1>6. RingInv'
  <2>1. wCount \in 0..MBOX_SIZE_MAX - 1 /\ wCount' \in 0..MBOX_SIZE_MAX
    BY <1>4, <1>5, ClaimsCount, SizeFacts
  <2>2. wInIndex \in Slot /\ wInIndex' = (wOutIndex + (wCount + 1)) % MBOX_SIZE_MAX
    BY <1>5, <2>1, InIndexMoves DEF MboxInv, RingInv
  <2>3. wInIndex' = (wOutIndex' + wCount') % MBOX_SIZE_MAX
    BY <1>5, <2>2
  <2>4. Buffer' \in [Slot -> Message \cup {NULL}]
    BY <1>5, <2>2 DEF MboxInv, RingInv
  <2> QED
    BY <1>5, <2>1, <2>3, <2>4 DEF MboxInv, RingInv
<1>7. MessagesInv'
  BY <1>1, <1>5 DEF MboxInv, MessagesInv, Posting
<1>8. SlotsAccountedFor
  BY DEF MboxInv, AccountInv
<1>9. CASE /\ \A x \in Task \ {t} : SameTask(x)
           /\ semaCounter' = IF semaCounter[UsedCntSema] < SemaMax
                             THEN [semaCounter EXCEPT ![UsedCntSema] = @ + 1] ELSE semaCounter
  <2>1. /\ semaCounter'[UsedCntSema] = semaCounter[UsedCntSema] + 1
        /\ semaCounter'[FreeCntSema] = semaCounter[FreeCntSema]
    BY <1>4, <1>9, SizeFacts DEF MboxInv, SemaInv
  <2>2. /\ \A x : x # t => (x \in ClaimedSlots' <=> x \in ClaimedSlots)
        /\ ClaimedMessages' = ClaimedMessages
    BY <1>3, <1>9, ClaimsAre, SameClaims
  <2>3. /\ IsFiniteSet(ClaimedSlots')
        /\ Cardinality(ClaimedSlots') = Cardinality(ClaimedSlots) - 1
    BY <1>3, <2>2, ClaimGivenUp DEF MboxInv, AccountInv
  <2>4. IsFiniteSet(ClaimedMessages') /\ Cardinality(ClaimedMessages') = Cardinality(ClaimedMessages)
    BY <2>2 DEF MboxInv, AccountInv
  <2>5. SlotsAccountedFor'
    BY <1>5, <1>8, <2>1, <2>3, <2>4, ClaimsCount DEF SlotsAccountedFor
  <2> QED
    BY <1>1, <1>6, <1>7, <2>3, <2>4, <2>5 DEF MboxInv, AccountInv
<1>10. CASE \E h \in Task \ {t} :
              /\ \A x \in Task \ {t, h} : SameTask(x)
              /\ waitOn[h] = UsedCntSema /\ waitOn'[h] = NULL /\ nReturnCode'[h] = "OK"
              /\ semaCounter' = semaCounter
  <2>1. PICK h \in Task \ {t} :
              /\ \A x \in Task \ {t, h} : SameTask(x)
              /\ waitOn[h] = UsedCntSema /\ waitOn'[h] = NULL /\ nReturnCode'[h] = "OK"
              /\ semaCounter' = semaCounter
    BY <1>10
  <2>2. call'[h] = call[h] /\ call[h] \in {"fetchWait", "tryfetch"}
    BY <1>1, <2>1 DEF MboxInv, CallsInv, WaitsForItsCall
  <2>3. HasMessage(h)' /\ ~HasMessage(h) /\ ~HasSlot(h) /\ ~HasSlot(h)'
    BY <2>1, <2>2, SizeFacts DEF HasMessage, HasSlot, FetchGranted, Posting
  <2>4. /\ h \in ClaimedMessages' /\ h \notin ClaimedMessages
        /\ \A x : x # h => (x \in ClaimedMessages' <=> x \in ClaimedMessages)
        /\ \A x : x # t => (x \in ClaimedSlots' <=> x \in ClaimedSlots)
    BY <1>3, <2>1, <2>3, ClaimsAre, SameClaims
  <2>5. /\ IsFiniteSet(ClaimedSlots')
        /\ Cardinality(ClaimedSlots') = Cardinality(ClaimedSlots) - 1
    BY <1>3, <2>4, ClaimGivenUp DEF MboxInv, AccountInv
  <2>6. /\ IsFiniteSet(ClaimedMessages')
        /\ Cardinality(ClaimedMessages') = Cardinality(ClaimedMessages) + 1
    BY <2>4, ClaimGained DEF MboxInv, AccountInv
  <2>7. SlotsAccountedFor'
    BY <1>5, <1>8, <2>1, <2>5, <2>6, ClaimsCount DEF SlotsAccountedFor
  <2> QED
    BY <1>1, <1>6, <1>7, <2>5, <2>6, <2>7 DEF MboxInv, AccountInv
<1> QED
  BY <1>1, <1>9, <1>10 DEF MboxInv

LEMMA FetchTakeInv ==
  ASSUME MboxInv, SemaInv', NEW t \in Task, FetchTake(t)
  PROVE  MboxInv'
<1>1. /\ CallsInv'
      /\ waitOn[t] = NULL /\ ~HasSlot(t)' /\ ~HasMessage(t)' /\ call'[t] = "none"
      /\ \A x \in Task \ {t} : call'[x] = call[x]
      /\ \/ /\ \A x \in Task \ {t} : SameTask(x)
            /\ semaCounter' = IF semaCounter[FreeCntSema] < SemaMax
                              THEN [semaCounter EXCEPT ![FreeCntSema] = @ + 1] ELSE semaCounter
         \/ \E h \in Task \ {t} :
              /\ \A x \in Task \ {t, h} : SameTask(x)
              /\ waitOn[h] = FreeCntSema /\ waitOn'[h] = NULL /\ nReturnCode'[h] = "OK"
              /\ semaCounter' = semaCounter
  BY LeaveFrame, SizeFacts DEF FetchTake
<1>2. HasMessage(t) /\ ~HasSlot(t)
  BY <1>1 DEF FetchTake, HasSlot, HasMessage, FetchGranted, Posting
<1>3. t \in ClaimedMessages /\ t \notin ClaimedMessages' /\ t \notin ClaimedSlots
      /\ t \notin ClaimedSlots'
  BY <1>1, <1>2, ClaimsAre
<1>4. wCount > 0 /\ semaCounter[FreeCntSema] < MBOX_SIZE_MAX
  BY <1>3, RoomAndMessages
<1>5. /\ fetched' = [fetched EXCEPT ![t] = Buffer[wOutIndex]]
      /\ wCount' = wCount - 1 /\ Buffer' = Buffer
      /\ wInIndex' = wInIndex /\ wOutIndex' = NextSlot(wOutIndex) /\ posting' = posting
  BY DEF FetchTake
<1>6. RingInv'
  <2>1. wOutIndex \in Slot /\ wCount \in 1..MBOX_SIZE_MAX /\ wCount' \in 0..MBOX_SIZE_MAX
    BY <1>4, <1>5, ClaimsCount DEF MboxInv, RingInv
  <2>2. /\ wOutIndex' \in Slot
        /\ (wOutIndex' + (wCount - 1)) % MBOX_SIZE_MAX = (wOutIndex + wCount) % MBOX_SIZE_MAX
    BY <1>5, <2>1, OutIndexMoves
  <2>3. wInIndex' = (wOutIndex' + wCount') % MBOX_SIZE_MAX
    BY <1>5, <2>2 DEF MboxInv, RingInv
  <2> QED
    BY <1>5, <2>1, <2>2, <2>3 DEF MboxInv, RingInv
<1>7. MessagesInv'
  <2>1. Buffer[wOutIndex] \in Message \cup {NULL}
    BY DEF MboxInv, RingInv
  <2> QED
    BY <1>1, <1>5, <2>1 DEF MboxInv, MessagesInv, Posting
<1>8. SlotsAccountedFor
  BY DEF MboxInv, AccountInv
<1>9. CASE /\ \A x \in Task \ {t} : SameTask(x)
           /\ semaCounter' = IF semaCounter[FreeCntSema] < SemaMax
                             THEN [semaCounter EXCEPT ![FreeCntSema] = @ + 1] ELSE semaCounter
  <2>1. /\ semaCounter'[FreeCntSema] = semaCounter[FreeCntSema] + 1
        /\ semaCounter'[UsedCntSema] = semaCounter[UsedCntSema]
    BY <1>4, <1>9, SizeFacts DEF MboxInv, SemaInv
  <2>2. /\ \A x : x # t => (x \in ClaimedMessages' <=> x \in ClaimedMessages)
        /\ ClaimedSlots' = ClaimedSlots
    BY <1>3, <1>9, ClaimsAre, SameClaims
  <2>3. /\ IsFiniteSet(ClaimedMessages')
        /\ Cardinality(ClaimedMessages') = Cardinality(ClaimedMessages) - 1
    BY <1>3, <2>2, ClaimGivenUp DEF MboxInv, AccountInv
  <2>4. IsFiniteSet(ClaimedSlots') /\ Cardinality(ClaimedSlots') = Cardinality(ClaimedSlots)
    BY <2>2 DEF MboxInv, AccountInv
  <2>5. SlotsAccountedFor'
    BY <1>5, <1>8, <2>1, <2>3, <2>4, ClaimsCount DEF SlotsAccountedFor
  <2> QED
    BY <1>1, <1>6, <1>7, <2>3, <2>4, <2>5 DEF MboxInv, AccountInv
<1>10. CASE \E h \in Task \ {t} :
              /\ \A x \in Task \ {t, h} : SameTask(x)
              /\ waitOn[h] = FreeCntSema /\ waitOn'[h] = NULL /\ nReturnCode'[h] = "OK"
              /\ semaCounter' = semaCounter
  <2>1. PICK h \in Task \ {t} :
              /\ \A x \in Task \ {t, h} : SameTask(x)
              /\ waitOn[h] = FreeCntSema /\ waitOn'[h] = NULL /\ nReturnCode'[h] = "OK"
              /\ semaCounter' = semaCounter
    BY <1>10
  <2>2. call'[h] = call[h] /\ call[h] \in Posting
    BY <1>1, <2>1 DEF MboxInv, CallsInv, WaitsForItsCall
  <2>3. HasSlot(h)' /\ ~HasSlot(h) /\ ~HasMessage(h) /\ ~HasMessage(h)'
    BY <2>1, <2>2, SizeFacts DEF HasMessage, HasSlot, FetchGranted, Posting
  <2>4. /\ h \in ClaimedSlots' /\ h \notin ClaimedSlots
        /\ \A x : x # h => (x \in ClaimedSlots' <=> x \in ClaimedSlots)
        /\ \A x : x # t => (x \in ClaimedMessages' <=> x \in ClaimedMessages)
    BY <1>3, <2>1, <2>3, ClaimsAre, SameClaims
  <2>5. /\ IsFiniteSet(ClaimedMessages')
        /\ Cardinality(ClaimedMessages') = Cardinality(ClaimedMessages) - 1
    BY <1>3, <2>4, ClaimGivenUp DEF MboxInv, AccountInv
  <2>6. /\ IsFiniteSet(ClaimedSlots')
        /\ Cardinality(ClaimedSlots') = Cardinality(ClaimedSlots) + 1
    BY <2>4, ClaimGained DEF MboxInv, AccountInv
  <2>7. SlotsAccountedFor'
    BY <1>5, <1>8, <2>1, <2>5, <2>6, ClaimsCount DEF SlotsAccountedFor
  <2> QED
    BY <1>1, <1>6, <1>7, <2>5, <2>6, <2>7 DEF MboxInv, AccountInv
<1> QED
  BY <1>1, <1>9, <1>10 DEF MboxInv

\* No claim is gained or lost, and the ring and the semaphores do not change.
LEMMA NothingClaimed ==
  ASSUME MboxInv, SemaInv', CallsInv',
         UNCHANGED <<semaCounter, ringVars, posting, fetched>>,
         \A x \in Task : /\ call'[x] \in Posting => call[x] \in Posting
                         /\ HasSlot(x)' <=> HasSlot(x)
                         /\ HasMessage(x)' <=> HasMessage(x)
  PROVE  MboxInv'
<1>1. ClaimedSlots' = ClaimedSlots /\ ClaimedMessages' = ClaimedMessages
  BY ClaimsAre
<1>2. UNCHANGED <<wCount, wInIndex, wOutIndex, Buffer, semaCounter, posting, fetched>>
  BY DEF ringVars
<1>3. AccountInv'
  BY <1>1, <1>2 DEF MboxInv, AccountInv, SlotsAccountedFor
<1>4. RingInv' /\ MessagesInv'
  BY <1>2 DEF MboxInv, RingInv, MessagesInv
<1> QED
  BY <1>3, <1>4 DEF MboxInv

LEMMA FetchTimeoutInv ==
  ASSUME MboxInv, SemaInv', NEW t \in Task, FetchTimeout(t)
  PROVE  MboxInv'
<1>1. /\ waitOn[t] = NULL /\ t \in TCB /\ ~bIsSchedLocked
      /\ UNCHANGED <<bIsSchedLocked, waitOn, dTimeoutTicks, nReturnCode, semaCounter>>
  BY CallerIsAwake DEF MboxInv, SemaInv, FetchTimeout, semaVars, schedVars
<1>2. /\ call' = [call EXCEPT ![t] = "none"] /\ call'[t] = "none" /\ call[t] = "fetchWait"
      /\ ~FetchGranted(t)
      /\ \A x \in Task \ {t} : call'[x] = call[x]
  BY DEF MboxInv, CallsInv, FetchTimeout
<1>3. \A x \in Task \ {t} : SameTask(x)
  BY <1>1, <1>2 DEF SameTask
<1>4. ~HasSlot(t) /\ ~HasMessage(t) /\ ~HasSlot(t)' /\ ~HasMessage(t)'
  BY <1>2 DEF HasSlot, HasMessage, Posting, FetchGranted
<1>5. WaitsForItsCall(t)'
  BY <1>1, SizeFacts DEF WaitsForItsCall
<1>6. \A x \in Task : WaitsForItsCall(x)'
  BY <1>3, <1>5, SameClaims DEF MboxInv, CallsInv
<1>7. CallsInv'
  BY <1>1, <1>2, <1>6, CallsKept DEF MboxInv, CallsInv, Call
<1>8. \A x \in Task : /\ call'[x] \in Posting => call[x] \in Posting
                      /\ HasSlot(x)' <=> HasSlot(x)
                      /\ HasMessage(x)' <=> HasMessage(x)
  BY <1>2, <1>3, <1>4, SameClaims DEF Posting
<1> QED
  BY <1>7, <1>8, NothingClaimed DEF FetchTimeout, semaVars

LEMMA IdleInv ==
  ASSUME MboxInv, SemaInv', NEW t, Idle(t)
  PROVE  MboxInv'
<1>1. UNCHANGED <<bIsSchedLocked, waitOn, dTimeoutTicks, nReturnCode, call>>
  BY DEF Idle, OS_TaskYield, userVars
<1>2. \A x \in Task : SameTask(x)
  BY <1>1 DEF SameTask
<1>3. CallsInv'
  BY <1>1 DEF MboxInv, CallsInv, WaitsForItsCall
<1> QED
  BY <1>1, <1>2, <1>3, SameClaims, NothingClaimed DEF Idle, userVars

LEMMA BootInv ==
  ASSUME MboxInv, SemaInv', Boot
  PROVE  MboxInv'
<1>1. call' = call /\ \A x \in Task : call[x] = "none"
  BY DEF Boot, MboxInv, CallsInv, userVars
<1>2. \A x \in TCB : waitOn'[x] = waitOn[x] \/ waitOn'[x] = NULL
  <2>1. DOMAIN waitOn = TCB
    BY DEF MboxInv, SemaInv, SchedInv, Queued
  <2>2. waitOn' = waitOn \/ \E t \in Task : waitOn' = [waitOn EXCEPT ![t] = NULL]
    BY DEF Boot, OS_Start, OS_TaskCreate
  <2> QED
    BY <2>1, <2>2
<1>3. \A x \in Task : /\ ~HasSlot(x) /\ ~HasMessage(x) /\ ~HasSlot(x)' /\ ~HasMessage(x)'
  BY <1>1 DEF HasSlot, HasMessage, Posting, FetchGranted
<1>4. \A x \in Task : waitOn[x] \notin Sema
  BY <1>1, SizeFacts DEF MboxInv, CallsInv, WaitsForItsCall, Posting
<1>5. \A x \in Task : WaitsForItsCall(x)'
  BY <1>2, <1>4, SizeFacts DEF WaitsForItsCall
<1>6. CallsInv'
  BY <1>1, <1>2, <1>5 DEF MboxInv, CallsInv
<1> QED
  BY <1>1, <1>3, <1>6, NothingClaimed DEF Boot, userVars

\* The tick ends only waits of a fetch with a timeout, and those got no message.
LEMMA MboxTickInv ==
  ASSUME MboxInv, SemaInv', MboxTick
  PROVE  MboxInv'
<1>1. /\ waitOn' = [t \in TCB |-> IF t \in Expired THEN NULL ELSE waitOn[t]]
      /\ dTimeoutTicks' = [t \in TCB |-> IF t \in ToSet(WaitList)
                                         THEN TicksAfter(t) ELSE dTimeoutTicks[t]]
      /\ nReturnCode' = [t \in TCB |-> IF t \in Expired /\ waitOn[t] # NULL
                                       THEN "TIMEOUT" ELSE nReturnCode[t]]
      /\ bIsSchedLocked' = bIsSchedLocked /\ call' = call
  BY DEF MboxTick, HandleWaitList, userVars
<1>2. \A x \in TCB : dTimeoutTicks[x] = OS_WAIT_INFINITE =>
        x \notin Expired /\ dTimeoutTicks'[x] = OS_WAIT_INFINITE
  BY <1>1, TimeoutAssumption DEF Expired, TicksAfter, OS_WAIT_INFINITE
<1>3. ASSUME NEW x \in Task
      PROVE  /\ HasSlot(x)' <=> HasSlot(x)
             /\ HasMessage(x)' <=> HasMessage(x)
             /\ WaitsForItsCall(x)'
  <2>1. WaitsForItsCall(x) /\ x \in TCB /\ waitOn[x] \in Sema \cup {NULL}
    BY SizeFacts DEF MboxInv, CallsInv
  <2>2. CASE x \in Expired /\ waitOn[x] # NULL
    <3>1. call[x] = "fetchWait"
      BY <1>2, <2>1, <2>2, SizeFacts DEF WaitsForItsCall
    <3>2. waitOn'[x] = NULL /\ nReturnCode'[x] = "TIMEOUT"
      BY <1>1, <2>1, <2>2
    <3> QED
      BY <1>1, <2>2, <3>1, <3>2, SizeFacts
         DEF HasSlot, HasMessage, FetchGranted, Posting, WaitsForItsCall
  <2>3. CASE ~(x \in Expired /\ waitOn[x] # NULL)
    <3>1. waitOn'[x] = waitOn[x] /\ nReturnCode'[x] = nReturnCode[x]
      BY <1>1, <2>1, <2>3
    <3>2. HasSlot(x)' <=> HasSlot(x)
      BY <1>1, <3>1 DEF HasSlot
    <3>3. HasMessage(x)' <=> HasMessage(x)
      BY <1>1, <3>1 DEF HasMessage, FetchGranted
    <3>4. WaitsForItsCall(x)'
      BY <1>1, <1>2, <2>1, <3>1 DEF WaitsForItsCall
    <3> QED
      BY <3>2, <3>3, <3>4
  <2> QED
    BY <2>2, <2>3
<1>4. CallsInv'
  <2>1. \A x \in TCB : waitOn'[x] \in Sema \cup {NULL}
    BY <1>1 DEF MboxInv, CallsInv
  <2> QED
    BY <1>1, <1>3, <2>1 DEF MboxInv, CallsInv
<1> QED
  BY <1>1, <1>3, <1>4, NothingClaimed DEF MboxTick, userVars

LEMMA MboxNextInv == MboxInv /\ [MboxNext]_mboxVars => MboxInv'
<1> SUFFICES ASSUME MboxInv, [MboxNext]_mboxVars PROVE MboxInv'
  OBVIOUS
<1>1. SemaInv'
  <2>1. [SemaNext]_semaVars
    BY MboxStepIsSemaStep DEF mboxVars
  <2> QED
    BY <2>1, SemaNextInv DEF MboxInv
<1>2. CASE \E m \in Message : sys_mbox_post(RunningTask, m) \/ sys_mbox_trypost(RunningTask, m)
  <2>1. PICK m \in Message : sys_mbox_post(RunningTask, m) \/ sys_mbox_trypost(RunningTask, m)
    BY <1>2
  <2> QED
    BY <1>1, <2>1, PostEnters DEF sys_mbox_post, sys_mbox_trypost, Enter, Posting
<1>3. CASE \E ticks \in Timeout : sys_arch_mbox_fetch(RunningTask, ticks)
  BY <1>1, <1>3, FetchEnters DEF sys_arch_mbox_fetch, Enter
<1>4. CASE sys_arch_mbox_tryfetch(RunningTask)
  <2>1. OS_WAIT_INFINITE # 0
    BY TimeoutAssumption DEF OS_WAIT_INFINITE
  <2> QED
    BY <1>1, <1>4, <2>1, FetchEnters DEF sys_arch_mbox_tryfetch, Enter
<1>5. CASE PostStore(RunningTask)
  BY <1>1, <1>5, PostStoreInv DEF PostStore
<1>6. CASE FetchTake(RunningTask)
  BY <1>1, <1>6, FetchTakeInv DEF FetchTake
<1>7. CASE FetchTimeout(RunningTask)
  BY <1>1, <1>7, FetchTimeoutInv DEF FetchTimeout, Caller
<1>8. CASE Idle(RunningTask)
  BY <1>1, <1>8, IdleInv
<1>9. CASE Boot
  BY <1>1, <1>9, BootInv
<1>10. CASE MboxTick
  BY <1>1, <1>10, MboxTickInv
<1>11. CASE UNCHANGED mboxVars
  <2>1. /\ UNCHANGED <<bIsSchedLocked, waitOn, dTimeoutTicks, nReturnCode, call>>
        /\ UNCHANGED <<semaCounter, ringVars, posting, fetched>>
    BY <1>11 DEF mboxVars, semaVars, schedVars, userVars
  <2>2. \A x \in Task : SameTask(x)
    BY <2>1 DEF SameTask
  <2>3. CallsInv'
    BY <2>1 DEF MboxInv, CallsInv, WaitsForItsCall
  <2> QED
    BY <1>1, <2>1, <2>2, <2>3, SameClaims, NothingClaimed
<1> QED
  BY <1>2, <1>3, <1>4, <1>5, <1>6, <1>7, <1>8, <1>9, <1>10, <1>11 DEF MboxNext

\* The inductive invariant holds in every state of the mailbox and its kernel.
THEOREM MboxInvariant == MboxSpec => []MboxInv
  BY MboxInitInv, MboxNextInv, PTL DEF MboxSpec

\* The semaphores, the ring, its indices and the calls always have their types.
THEOREM MboxTypeCorrect == MboxSpec => []MboxTypeOK
<1>1. MboxInv => MboxTypeOK
  <2> SUFFICES ASSUME MboxInv PROVE MboxTypeOK
    OBVIOUS
  <2>1. SemaTypeOK
    BY SchedInvMeans DEF MboxInv, SemaInv, SemaTypeOK
  <2>2. wInIndex \in Slot
    <3> DEFINE n == MBOX_SIZE_MAX
               x == wOutIndex + wCount
    <3>1. n \in Nat \ {0} /\ x \in Nat /\ wInIndex = x % n /\ Slot = 0..n - 1
      BY SizeFacts DEF MboxInv, RingInv, Slot
    <3> HIDE DEF n, x
    <3> QED
      BY <3>1
  <2> QED
    BY <2>1, <2>2 DEF MboxInv, CallsInv, RingInv, MessagesInv, MboxTypeOK
<1> QED
  BY <1>1, MboxInvariant, PTL

\* Each slot of the ring is at every moment counted by exactly one of: the semaphore
\* of free slots, a task that claimed it and has not stored yet, the semaphore of
\* used slots, a task that claimed its message and has not taken it yet; whatever
\* the scheduler, the timeouts and the other tasks do between a claim and its use.
THEOREM SlotsStayAccountedFor == MboxSpec => []SlotsAccountedFor
<1>1. MboxInv => SlotsAccountedFor
  BY DEF MboxInv, AccountInv
<1> QED
  BY <1>1, MboxInvariant, PTL

-----------------------------------------------------------------------------
(* The mailbox implements the bounded FIFO.                                  *)

\* The queue that the ring stands for: its n messages from index out on.
QueueOf(n, out, buffer) == [i \in 1..n |-> buffer[(out + i - 1) % MBOX_SIZE_MAX]]

\* Two places of the ring that are less than a round apart are different slots.
LEMMA SlotsDiffer ==
  ASSUME NEW out \in Slot, NEW a \in Nat, NEW b \in Nat, a < b, b < MBOX_SIZE_MAX
  PROVE  /\ (out + a) % MBOX_SIZE_MAX # (out + b) % MBOX_SIZE_MAX
         /\ (out + a) % MBOX_SIZE_MAX \in Slot
<1> DEFINE n == MBOX_SIZE_MAX
           x == out + a
           y == out + b
<1>1. /\ n \in Nat \ {0} /\ x \in Nat /\ y \in Nat /\ x < y /\ y < x + n /\ y < 2 * n
      /\ x < 2 * n /\ Slot = 0..n - 1
  BY SizeFacts DEF Slot
<1> HIDE DEF n, x, y
<1>2. /\ x % n = IF x < n THEN x ELSE x - n
      /\ y % n = IF y < n THEN y ELSE y - n
  BY <1>1, Wrap
<1>3. x % n # y % n /\ x % n \in Slot
  BY <1>1, <1>2
<1> QED
  BY <1>3 DEF n, x, y

\* Every place of the ring is a slot.
LEMMA IndexInRing ==
  ASSUME NEW out \in Slot, NEW a \in Nat
  PROVE  (out + a) % MBOX_SIZE_MAX \in Slot
<1> DEFINE x == out + a
<1>1. x \in Nat /\ MBOX_SIZE_MAX \in Nat \ {0} /\ Slot = 0..MBOX_SIZE_MAX - 1
  BY SizeFacts DEF Slot
<1> HIDE DEF x
<1>2. x % MBOX_SIZE_MAX \in Slot
  BY <1>1
<1> QED
  BY <1>2 DEF x

\* The queue is a sequence of what is in the slots.
LEMMA QueueIsSequence ==
  ASSUME NEW out \in Slot, NEW n \in 0..MBOX_SIZE_MAX,
         NEW buffer \in [Slot -> Message \cup {NULL}]
  PROVE  /\ QueueOf(n, out, buffer) \in Seq(Message \cup {NULL})
         /\ Len(QueueOf(n, out, buffer)) = n
         /\ \A i \in 1..n : /\ (out + i - 1) % MBOX_SIZE_MAX \in Slot
                            /\ QueueOf(n, out, buffer)[i]
                                 = buffer[(out + i - 1) % MBOX_SIZE_MAX]
<1> DEFINE q == QueueOf(n, out, buffer)
           at(i) == (out + i - 1) % MBOX_SIZE_MAX
           S == Message \cup {NULL}
<1>1. \A i \in 1..n : at(i) \in Slot
  <2> SUFFICES ASSUME NEW i \in 1..n PROVE at(i) \in Slot
    OBVIOUS
  <2>1. i - 1 \in Nat /\ out + i - 1 = out + (i - 1)
    BY SizeFacts DEF Slot
  <2> QED
    BY <2>1, IndexInRing
<1> HIDE DEF at, S
<1>2. \A i \in 1..n : buffer[at(i)] \in S
  BY <1>1 DEF S
<1>3. q = [i \in 1..n |-> buffer[at(i)]] /\ n \in Nat
  BY SizeFacts DEF QueueOf, at
<1> HIDE DEF q
<1>4. q \in [1..n -> S]
  BY <1>2, <1>3
<1>5. q \in Seq(S) /\ Len(q) = n
  BY <1>3, <1>4
<1>6. \A i \in 1..n : at(i) \in Slot /\ q[i] = buffer[at(i)]
  BY <1>1, <1>3
<1> QED
  BY <1>5, <1>6 DEF q, at, S

\* Message m is stored behind n messages, and what that does to the queue.
Stores(out, n, m, buffer, after) ==
  /\ out \in Slot /\ n \in Nat /\ n < MBOX_SIZE_MAX /\ m \in Message
  /\ buffer \in [Slot -> Message \cup {NULL}]
  /\ after = [buffer EXCEPT ![(out + n) % MBOX_SIZE_MAX] = m]
Appends(out, n, m, buffer, after) ==
  /\ QueueOf(n + 1, out, after) = Append(QueueOf(n, out, buffer), m)
  /\ Len(QueueOf(n, out, buffer)) = n

\* Storing behind the last message appends it.
LEMMA StoreAppends ==
  ASSUME NEW out, NEW n, NEW m, NEW buffer, NEW after, Stores(out, n, m, buffer, after)
  PROVE  Appends(out, n, m, buffer, after)
<1> DEFINE q == QueueOf(n, out, buffer)
           r == QueueOf(n + 1, out, after)
           at(i) == (out + i - 1) % MBOX_SIZE_MAX
           S == Message \cup {NULL}
           in == (out + n) % MBOX_SIZE_MAX
<1>1. /\ n \in Nat /\ n < MBOX_SIZE_MAX /\ MBOX_SIZE_MAX \in Nat \ {0}
      /\ out \in Slot /\ out \in Nat /\ buffer \in [Slot -> S]
      /\ n \in 0..MBOX_SIZE_MAX /\ n + 1 \in 0..MBOX_SIZE_MAX /\ m \in S
      /\ after = [buffer EXCEPT ![in] = m]
  BY SizeFacts DEF Slot, Stores
<1>2. \A i \in 1..n + 1 : out + i - 1 = out + (i - 1)
  BY <1>1
<1>3. at(n + 1) = in
  BY <1>1, <1>2
<1>4. /\ in \in Slot /\ after \in [Slot -> S] /\ after[in] = m
      /\ \A j \in Slot \ {in} : after[j] = buffer[j]
  <2>1. in \in Slot
    BY <1>1, IndexInRing
  <2> HIDE DEF in
  <2> QED
    BY <1>1, <2>1
<1>5. \A i \in 1..n : at(i) \in Slot /\ at(i) # in
  <2> SUFFICES ASSUME NEW i \in 1..n PROVE at(i) \in Slot /\ at(i) # in
    OBVIOUS
  <2>1. i - 1 \in Nat /\ i - 1 < n /\ at(i) = (out + (i - 1)) % MBOX_SIZE_MAX
    BY <1>1, <1>2
  <2> QED
    BY <1>1, <2>1, SlotsDiffer
<1>6. /\ q \in Seq(S) /\ Len(q) = n /\ \A i \in 1..n : q[i] = buffer[at(i)]
      /\ r \in Seq(S) /\ Len(r) = n + 1 /\ \A i \in 1..n + 1 : r[i] = after[at(i)]
  <2>1. q \in Seq(S) /\ Len(q) = n /\ \A i \in 1..n : q[i] = buffer[at(i)]
    BY <1>1, QueueIsSequence
  <2>2. r \in Seq(S) /\ Len(r) = n + 1 /\ \A i \in 1..n + 1 : r[i] = after[at(i)]
    <3> DEFINE k == n + 1
    <3> HIDE DEF k
    <3>1. k \in 0..MBOX_SIZE_MAX /\ out \in Slot /\ after \in [Slot -> Message \cup {NULL}]
      BY <1>1, <1>4 DEF k
    <3>2. /\ QueueOf(k, out, after) \in Seq(S) /\ Len(QueueOf(k, out, after)) = k
          /\ \A i \in 1..k : QueueOf(k, out, after)[i] = after[at(i)]
      BY <3>1, QueueIsSequence
    <3> QED
      BY <3>2 DEF k
  <2> QED
    BY <2>1, <2>2
<1> HIDE DEF q, r, at, S, in
<1>7. r[n + 1] = m /\ \A i \in 1..n : r[i] = q[i]
  BY <1>1, <1>3, <1>4, <1>5, <1>6
<1>8. r = Append(q, m)
  <2> DEFINE a == Append(q, m)
  <2>1. /\ a \in Seq(S) /\ Len(a) = n + 1
        /\ a[n + 1] = m /\ \A i \in 1..n : a[i] = q[i]
    BY <1>1, <1>6
  <2> HIDE DEF a
  <2>2. \A i \in 1..Len(r) : r[i] = a[i]
    BY <1>1, <1>6, <1>7, <2>1
  <2>3. r = a
    BY <1>6, <2>1, <2>2, SeqEqual
  <2> QED
    BY <2>3 DEF a
<1> QED
  BY <1>6, <1>8 DEF q, r, Appends

\* Taking the message at the first index takes the head.
LEMMA TakeIsHead ==
  ASSUME NEW out \in Slot, NEW n \in 1..MBOX_SIZE_MAX,
         NEW buffer \in [Slot -> Message \cup {NULL}]
  PROVE  /\ QueueOf(n, out, buffer) # <<>>
         /\ Head(QueueOf(n, out, buffer)) = buffer[out]
         /\ Tail(QueueOf(n, out, buffer)) = QueueOf(n - 1, NextSlot(out), buffer)
<1> DEFINE next == NextSlot(out)
           q == QueueOf(n, out, buffer)
           r == QueueOf(n - 1, next, buffer)
           at(i) == (out + i - 1) % MBOX_SIZE_MAX
           then(i) == (next + i - 1) % MBOX_SIZE_MAX
           S == Message \cup {NULL}
<1>1. /\ n \in Nat \ {0} /\ n <= MBOX_SIZE_MAX /\ MBOX_SIZE_MAX \in Nat \ {0}
      /\ out \in Nat /\ out < MBOX_SIZE_MAX
      /\ n \in 0..MBOX_SIZE_MAX /\ n - 1 \in 0..MBOX_SIZE_MAX
  BY SizeFacts DEF Slot
<1>2. next \in Slot /\ next \in Nat
  BY <1>1, OutIndexMoves DEF Slot
<1>3. at(1) = out
  <2>1. out + 1 - 1 = out
    BY <1>1
  <2>2. out % MBOX_SIZE_MAX = out
    BY <1>1
  <2> QED
    BY <2>1, <2>2
<1>4. \A i \in 1..n - 1 : then(i) = at(i + 1)
  <2> SUFFICES ASSUME NEW i \in 1..n - 1 PROVE then(i) = at(i + 1)
    OBVIOUS
  <2>1. i \in 1..MBOX_SIZE_MAX
    BY <1>1
  <2>2. next + i - 1 = next + (i - 1) /\ out + (i + 1) - 1 = out + i
    BY <1>1, <1>2
  <2>3. (next + (i - 1)) % MBOX_SIZE_MAX = (out + i) % MBOX_SIZE_MAX
    BY <2>1, OutIndexMoves
  <2> QED
    BY <2>2, <2>3
<1>5. /\ q \in Seq(S) /\ Len(q) = n /\ \A i \in 1..n : q[i] = buffer[at(i)]
      /\ r \in Seq(S) /\ Len(r) = n - 1 /\ \A i \in 1..n - 1 : r[i] = buffer[then(i)]
  <2> HIDE DEF next
  <2> QED
    BY <1>1, <1>2, QueueIsSequence
<1> HIDE DEF q, r, at, then, S, next
<1>6. q # <<>> /\ Head(q) = q[1] /\ q[1] = buffer[out]
  BY <1>1, <1>3, <1>5
<1>7. r = Tail(q)
  <2> DEFINE a == Tail(q)
  <2>1. a \in Seq(S) /\ Len(a) = n - 1 /\ \A i \in 1..n - 1 : a[i] = q[i + 1]
    BY <1>1, <1>5, <1>6, HeadTailProperties
  <2> HIDE DEF a
  <2>2. \A i \in 1..Len(r) : r[i] = a[i]
    BY <1>1, <1>4, <1>5, <2>1
  <2>3. r = a
    BY <1>5, <2>1, <2>2, SeqEqual
  <2> QED
    BY <2>3 DEF a
<1> QED
  BY <1>6, <1>7 DEF q, r, next

\* The queue that the refinement mapping of the mailbox names.
queueOfRing == QueueOf(wCount, wOutIndex, Buffer)

LEMMA QueueMap ==
  /\ queueOfRing = QueueOf(wCount, wOutIndex, Buffer)
  /\ queueOfRing = [i \in 1..wCount |-> Buffer[(wOutIndex + i - 1) % MBOX_SIZE_MAX]]
  /\ queueOfRing' = QueueOf(wCount', wOutIndex', Buffer')
  /\ queueOfRing' = [i \in 1..wCount' |-> Buffer'[(wOutIndex' + i - 1) % MBOX_SIZE_MAX]]
  BY DEF queueOfRing, QueueOf

\* A step that leaves the ring and the results alone maps to a stutter.
LEMMA RingKept ==
  ASSUME UNCHANGED <<ringVars, fetched>>
  PROVE  UNCHANGED Ring!fifoVars
<1>1. UNCHANGED <<wCount, wOutIndex, Buffer, fetched>>
  BY DEF ringVars
<1> QED
  BY <1>1 DEF Ring!fifoVars

LEMMA StoreMaps ==
  ASSUME MboxInv, NEW t \in Task, PostStore(t), Caller(t)
  PROVE  \E m \in Message : Ring!Put(m)
<1>1. HasSlot(t)
  BY CallerIsAwake DEF MboxInv, SemaInv, PostStore, HasSlot, Posting
<1>2. wCount < MBOX_SIZE_MAX
  BY <1>1, ClaimsAre, RoomAndMessages
<1>3. PICK m \in Message : m = posting[t]
  BY DEF PostStore, MboxInv, MessagesInv, Posting
<1>4. /\ wCount' = wCount + 1 /\ Buffer' = [Buffer EXCEPT ![wInIndex] = m]
      /\ wOutIndex' = wOutIndex /\ fetched' = fetched
  BY <1>3 DEF PostStore
<1>5. Stores(wOutIndex, wCount, m, Buffer, Buffer')
  BY <1>2, <1>4, ClaimsCount DEF MboxInv, RingInv, Stores
<1>6. /\ QueueOf(wCount + 1, wOutIndex, Buffer') = Append(QueueOf(wCount, wOutIndex, Buffer), m)
      /\ Len(QueueOf(wCount, wOutIndex, Buffer)) = wCount
  BY <1>5, StoreAppends DEF Appends
<1>7. queueOfRing' = Append(queueOfRing, m) /\ Len(queueOfRing) = wCount
  <2>1. queueOfRing' = QueueOf(wCount + 1, wOutIndex, Buffer')
    BY <1>4, QueueMap
  <2> QED
    BY <1>6, <2>1, QueueMap
<1>8. Ring!Put(m)
  BY <1>2, <1>4, <1>7, QueueMap DEF Ring!Put
<1> QED
  BY <1>8

LEMMA TakeMaps ==
  ASSUME MboxInv, NEW t \in Task, FetchTake(t), Caller(t)
  PROVE  Ring!Get(t)
<1>1. HasMessage(t)
  BY CallerIsAwake DEF MboxInv, SemaInv, FetchTake, HasMessage
<1>2. wCount > 0
  BY <1>1, ClaimsAre, RoomAndMessages
<1>3. /\ wCount' = wCount - 1 /\ Buffer' = Buffer /\ wOutIndex' = NextSlot(wOutIndex)
      /\ fetched' = [fetched EXCEPT ![t] = Buffer[wOutIndex]]
  BY DEF FetchTake
<1>4. /\ wOutIndex \in Slot /\ wCount \in 1..MBOX_SIZE_MAX
      /\ Buffer \in [Slot -> Message \cup {NULL}]
  BY <1>2, ClaimsCount DEF MboxInv, RingInv
<1>5. /\ queueOfRing # <<>> /\ Head(queueOfRing) = Buffer[wOutIndex]
      /\ queueOfRing' = Tail(queueOfRing)
  BY <1>3, <1>4, TakeIsHead, QueueMap DEF queueOfRing
<1> QED
  BY <1>3, <1>5, QueueMap DEF Ring!Get

LEMMA MboxInitMaps == MboxInit => Ring!FifoInit
<1> SUFFICES ASSUME MboxInit PROVE Ring!FifoInit
  OBVIOUS
<1>1. wCount = 0 /\ fetched = [t \in Task |-> NULL]
  BY DEF MboxInit
<1>2. [i \in 1..wCount |-> Buffer[(wOutIndex + i - 1) % MBOX_SIZE_MAX]] = <<>>
  BY <1>1
<1> QED
  BY <1>1, <1>2 DEF Ring!FifoInit

LEMMA MboxNextMaps ==
  ASSUME MboxInv, [MboxNext]_mboxVars
  PROVE  [Ring!FifoNext]_Ring!fifoVars
<1>1. CASE PostStore(RunningTask)
  BY <1>1, StoreMaps DEF PostStore, OS_SemaSignal, Ring!FifoNext
<1>2. CASE FetchTake(RunningTask)
  BY <1>2, TakeMaps DEF FetchTake, OS_SemaSignal, Ring!FifoNext
<1>3. CASE UNCHANGED <<ringVars, fetched>>
  BY <1>3, RingKept
<1> QED
  BY <1>1, <1>2, <1>3
     DEF MboxNext, sys_mbox_post, sys_mbox_trypost, sys_arch_mbox_fetch,
         sys_arch_mbox_tryfetch, FetchTimeout, Idle, Boot, MboxTick, mboxVars, userVars

\* The mailbox is a bounded FIFO for its users: whatever they do between claiming a
\* slot or a message and using it, no message is lost, overwritten, fetched twice or
\* overtaken, and a fetch that succeeded returns the message posted first.
THEOREM MboxRefinement == MboxSpec => ImplementsBoundedFifo
<1>1. MboxInv /\ [MboxNext]_mboxVars => [Ring!FifoNext]_Ring!fifoVars
  BY MboxNextMaps
<1> QED
  BY <1>1, MboxInitMaps, MboxInvariant, PTL
     DEF MboxSpec, ImplementsBoundedFifo, Ring!FifoSpec

-----------------------------------------------------------------------------
(* The mailbox uses the kernel as any tasks do.                              *)

\* Every behaviour of the mailbox calls is one of tasks that use two semaphores, so
\* all that holds of the semaphores and the scheduler holds under the mailbox.
THEOREM MboxUsesSemaphores == MboxSpec => SemaSpec
<1>1. MboxInit => SemaInit
  BY SizeFacts DEF MboxInit, SemaInit
<1>2. [MboxNext]_mboxVars => [SemaNext]_semaVars
  BY MboxStepIsSemaStep DEF mboxVars
<1> QED
  BY <1>1, <1>2, PTL DEF MboxSpec, SemaSpec

\* Tasks of equal priority get the slots and the messages of a mailbox in the order
\* in which they began to wait for them.
THEOREM MboxServesInOrder == MboxSpec => GrantInOrder
  BY MboxUsesSemaphores, TokensGoInOrder, PTL

\* No task is overtaken on its way through a mailbox and the ReadyList.
THEOREM MboxNobodyOvertakes == MboxSpec => NoOvertaking
  BY MboxUsesSemaphores, NobodyOvertakes, PTL
=============================================================================
