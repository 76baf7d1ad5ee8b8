--------------------------- MODULE TctsSemaProofs ---------------------------
(***************************************************************************)
(* Proofs about the semaphores of TCTS, for any tasks, priorities,         *)
(* semaphores, maximal counts and timeouts.                                *)
(***************************************************************************)
EXTENDS TctsSema, TctsSchedProofs

\* The inductive invariant: that of the scheduler, and nobody waits for a
\* semaphore that has a token.
TokenInv == \A s \in Sema : semaCounter[s] > 0 => \A t \in TCB : waitOn[t] # s

SemaInv == SchedInv /\ semaCounter \in [Sema -> 0..SemaMax] /\ TokenInv

LEMMA SemaWaiters ==
  ASSUME SchedInv, NEW s \in Sema
  PROVE  /\ ToSet(Fifo[s]) = {t \in TCB : waitOn[t] = s}
         /\ Fifo[s] = <<>> <=> \A t \in TCB : waitOn[t] # s
         /\ ToSet(Fifo[s]) \subseteq ToSet(WaitList)
         /\ ToSet(Fifo[s]) \subseteq Task
         /\ IsListOf(Fifo[s], Task)
<1>1. s \in Object
  BY SemaAssumption
<1> QED
  BY <1>1, ObjectWaiters

-----------------------------------------------------------------------------
(* Every action of the semaphores preserves the invariant.                   *)

LEMMA SemaInitInv == SemaInit => SemaInv
<1> SUFFICES ASSUME SemaInit PROVE SemaInv
  OBVIOUS
<1>1. SchedInv
  BY SchedInitInv DEF SemaInit
<1>2. TokenInv
  BY SemaAssumption, NullAssumption DEF SemaInit, SchedInit, TokenInv
<1> QED
  BY <1>1, <1>2 DEF SemaInv, SemaInit

LEMMA SchedKeepsTokens ==
  ASSUME SemaInv, SchedNext, UNCHANGED semaCounter
  PROVE  SemaInv'
<1>1. SchedInv'
  BY SchedNextInv DEF SemaInv
<1>2. \A t \in TCB : waitOn'[t] = waitOn[t] \/ waitOn'[t] = NULL
  BY SchedStepWaits DEF SemaInv
<1>3. TokenInv'
  BY <1>2, SemaAssumption, NullAssumption DEF SemaInv, TokenInv
<1> QED
  BY <1>1, <1>3 DEF SemaInv

LEMMA CountUpInv ==
  ASSUME SemaInv, NEW s \in Sema, SemaCountUp(s)
  PROVE  SemaInv'
<1>1. SchedInv'
  BY SchedStutterInv DEF SemaInv, SemaCountUp
<1>2. semaCounter' \in [Sema -> 0..SemaMax]
  BY SemaMaxAssumption DEF SemaInv, SemaCountUp
<1>3. \A t \in TCB : waitOn[t] # s
  BY SemaWaiters DEF SemaInv, SemaCountUp
<1>4. TokenInv'
  <2>1. waitOn' = waitOn /\ \A x \in Sema \ {s} : semaCounter'[x] = semaCounter[x]
    BY DEF SemaInv, SemaCountUp, schedVars
  <2> QED
    BY <1>3, <2>1 DEF SemaInv, TokenInv
<1> QED
  BY <1>1, <1>2, <1>4 DEF SemaInv

\* A set of waiters of semaphore s leaves: TokenInv may only be disturbed by the
\* new count of s.
LEMMA WakeKeepsTokens ==
  ASSUME SemaInv, NEW s \in Sema, NEW go, NEW c \in ReturnCode,
         ClearWait(go, [x \in go |-> c]),
         semaCounter' \in [Sema -> 0..SemaMax],
         \A x \in Sema \ {s} : semaCounter'[x] = semaCounter[x],
         semaCounter'[s] = semaCounter[s] \/ go = ToSet(Fifo[s])
  PROVE  TokenInv'
<1>1. /\ waitOn' = [t \in TCB |-> IF t \in go THEN NULL ELSE waitOn[t]]
      /\ NULL \notin Sema
  BY SemaAssumption, NullAssumption DEF ClearWait
<1>2. go = ToSet(Fifo[s]) => \A t \in TCB : waitOn'[t] # s
  BY <1>1, SemaWaiters DEF SemaInv
<1>3. \A x \in Sema : (\A t \in TCB : waitOn[t] # x) => (\A t \in TCB : waitOn'[t] # x)
  BY <1>1
<1> QED
  BY <1>2, <1>3 DEF SemaInv, TokenInv

LEMMA SignalInv ==
  ASSUME SemaInv, NEW s \in Sema,
         OS_SemaSignal(RunningTask, s) \/ OS_SemaSignalFromInt(s)
  PROVE  SemaInv'
<1> DEFINE t == Head(Fifo[s])
<1>1. CASE SemaCountUp(s)
  BY <1>1, CountUpInv
<1>2. CASE SemaHandOver(s)
           /\ \/ /\ Caller(RunningTask)
                 /\ Reschedule(WaitToReady(Lists, t), StateAfterWait({t}))
              \/ /\ SetLists(WaitToReady(Lists, t))
                 /\ State' = StateAfterWait({t})
                 /\ UNCHANGED RunningTask
  <2>1. t \in ToSet(Fifo[s]) /\ t \in ToSet(WaitList) /\ t \in Task
    BY <1>2, SemaWaiters, HeadTailList DEF SemaInv, SemaHandOver
  <2>2. Moved(Lists, WaitToReady(Lists, t), {t})
    <3>1. ListsOK(Lists) /\ t \notin ToSet(Lists.ready)
      BY <2>1, ListsFields DEF SemaInv, SchedInv, Placed
    <3> QED
      BY <2>1, <3>1, WaitToReadyMoves
  <2>3. "OK" \in ReturnCode /\ ClearWait({t}, [x \in {t} |-> "OK"])
        /\ UNCHANGED <<bIsSchedLocked, nPrio, semaCounter>>
    BY <1>2 DEF SemaHandOver, WakeFirst, ReturnCode
  <2> HIDE DEF t
  <2>4. SchedInv'
    BY <1>2, <2>1, <2>2, <2>3, WakeInv DEF SemaInv, Caller
  <2>5. TokenInv'
    BY <2>3, WakeKeepsTokens DEF SemaInv
  <2> QED
    BY <2>3, <2>4, <2>5 DEF SemaInv
<1> QED
  BY <1>1, <1>2 DEF OS_SemaSignal, OS_SemaSignalFromInt

LEMMA WaitInv ==
  ASSUME SemaInv, NEW s \in Sema, NEW ticks \in Timeout, OS_SemaWait(RunningTask, s, ticks)
  PROVE  SemaInv'
<1>1. CASE SemaTake(s)
  <2>1. SchedInv'
    BY <1>1, SchedStutterInv DEF SemaInv, SemaTake
  <2>2. semaCounter' \in [Sema -> 0..SemaMax]
    BY <1>1, SemaMaxAssumption DEF SemaInv, SemaTake
  <2>3. TokenInv'
    <3>1. waitOn' = waitOn /\ \A x \in Sema : semaCounter'[x] > 0 => semaCounter[x] > 0
      BY <1>1, SemaMaxAssumption DEF SemaInv, SemaTake, schedVars
    <3> QED
      BY <3>1 DEF SemaInv, TokenInv
  <2> QED
    BY <2>1, <2>2, <2>3 DEF SemaInv
<1>2. CASE UNCHANGED schedVars /\ UNCHANGED semaCounter
  BY <1>2, SchedStutterInv DEF SemaInv, TokenInv, schedVars
<1>3. CASE /\ Caller(RunningTask) /\ semaCounter[s] = 0
           /\ WaitForObject(RunningTask, s, ticks) /\ UNCHANGED semaCounter
  <2>1. SchedInv'
    BY <1>3, WaitForObjectInv, SemaAssumption DEF SemaInv
  <2>2. \A x \in Sema \ {s} : \A t \in TCB : waitOn'[t] = x => waitOn[t] = x
    BY <1>3, CallerRuns DEF SemaInv, SchedInv, Queued, WaitForObject
  <2>3. TokenInv'
    BY <1>3, <2>2 DEF SemaInv, TokenInv
  <2> QED
    BY <1>3, <2>1, <2>3 DEF SemaInv
<1> QED
  BY <1>1, <1>2, <1>3 DEF OS_SemaWait

\* All waiters of s, in the lists after a reset or a delete.
LEMMA AllWaitersMove ==
  ASSUME SemaInv, NEW s \in Sema
  PROVE  Moved(Lists, WaitToReadyAll(Lists, Fifo[s], ToSet(Fifo[s])), ToSet(Fifo[s]))
<1>1. /\ ToSet(Fifo[s]) \subseteq ToSet(WaitList) /\ IsListOf(Fifo[s], Task)
  BY SemaWaiters DEF SemaInv
<1>2. ListsOK(Lists) /\ ToSet(Fifo[s]) \cap ToSet(Lists.ready) = {}
  BY <1>1, ListsFields DEF SemaInv, SchedInv, Placed
<1> QED
  BY <1>1, <1>2, WaitToReadyAllMoves

LEMMA ResetInv ==
  ASSUME SemaInv, NEW s \in Sema, NEW start \in 0..SemaMax, OS_SemaReset(RunningTask, s, start)
  PROVE  SemaInv'
<1> DEFINE go == ToSet(Fifo[s])
<1>1. /\ semaCounter' \in [Sema -> 0..SemaMax]
      /\ \A x \in Sema \ {s} : semaCounter'[x] = semaCounter[x]
  BY DEF SemaInv, OS_SemaReset
<1>2. CASE Fifo[s] = <<>>
  <2>1. UNCHANGED schedVars /\ \A t \in TCB : waitOn[t] # s
    BY <1>2, SemaWaiters DEF SemaInv, OS_SemaReset
  <2>2. SchedInv' /\ waitOn' = waitOn
    BY <2>1, SchedStutterInv DEF SemaInv, schedVars
  <2> QED
    BY <1>1, <2>1, <2>2 DEF SemaInv, TokenInv
<1>3. CASE Fifo[s] # <<>>
  <2>1. /\ "RESETED" \in ReturnCode /\ ClearWait(go, [x \in go |-> "RESETED"])
        /\ Reschedule(WaitToReadyAll(Lists, Fifo[s], go), StateAfterWait(go))
        /\ RunningTask \in Task /\ UNCHANGED <<bIsSchedLocked, nPrio>>
    BY <1>3 DEF OS_SemaReset, WakeAll, Caller, ReturnCode
  <2>2. Moved(Lists, WaitToReadyAll(Lists, Fifo[s], go), go) /\ go \subseteq ToSet(WaitList)
    BY AllWaitersMove, SemaWaiters DEF SemaInv
  <2>3. go = ToSet(Fifo[s])
    OBVIOUS
  <2> HIDE DEF go
  <2>4. SchedInv'
    BY <2>1, <2>2, WakeInv DEF SemaInv
  <2>5. TokenInv'
    <3>1. "RESETED" \in ReturnCode /\ ClearWait(go, [x \in go |-> "RESETED"])
      BY <2>1
    <3>2. semaCounter'[s] = semaCounter[s] \/ go = ToSet(Fifo[s])
      BY <2>3
    <3> QED
      BY <1>1, <3>1, <3>2, WakeKeepsTokens
  <2> QED
    BY <1>1, <2>4, <2>5 DEF SemaInv
<1> QED
  BY <1>2, <1>3

LEMMA DeleteInv ==
  ASSUME SemaInv, NEW s \in Sema, OS_SemaDelete(RunningTask, s)
  PROVE  SemaInv'
<1> DEFINE go == ToSet(Fifo[s])
<1>1. /\ "DELETED" \in ReturnCode /\ ClearWait(go, [x \in go |-> "DELETED"])
      /\ SetLists(WaitToReadyAll(Lists, Fifo[s], go)) /\ State' = StateAfterWait(go)
      /\ UNCHANGED <<bIsSchedLocked, RunningTask, nPrio, semaCounter>>
  BY DEF OS_SemaDelete, WakeAll, ReturnCode
<1>2. Moved(Lists, WaitToReadyAll(Lists, Fifo[s], go), go) /\ go \subseteq ToSet(WaitList)
  BY AllWaitersMove, SemaWaiters DEF SemaInv
<1>3. SchedInv'
  BY <1>1, <1>2, WakeInv DEF SemaInv
<1>4. TokenInv'
  BY <1>1, WakeKeepsTokens DEF SemaInv
<1> QED
  BY <1>1, <1>3, <1>4 DEF SemaInv

LEMMA SemaNextInv == SemaInv /\ [SemaNext]_semaVars => SemaInv'
<1> SUFFICES ASSUME SemaInv, [SemaNext]_semaVars PROVE SemaInv'
  OBVIOUS
<1>1. CASE SchedNext /\ UNCHANGED semaCounter
  BY <1>1, SchedKeepsTokens
<1>2. CASE SemaTaskNext
  BY <1>2, SignalInv, WaitInv, ResetInv, DeleteInv DEF SemaTaskNext
<1>3. CASE SemaIntNext
  BY <1>3, SignalInv DEF SemaIntNext
<1>4. CASE UNCHANGED semaVars
  BY <1>4, SchedStutterInv DEF SemaInv, TokenInv, semaVars, schedVars
<1> QED
  BY <1>1, <1>2, <1>3, <1>4 DEF SemaNext

\* The inductive invariant holds in every state of the kernel.
THEOREM SemaInvariant == SemaSpec => []SemaInv
  BY SemaInitInv, SemaNextInv, PTL DEF SemaSpec

\* Type correctness of the scheduler with its semaphores.
THEOREM SemaTypeCorrect == SemaSpec => []SemaTypeOK
<1>1. SemaInv => SemaTypeOK
  BY SchedInvMeans DEF SemaInv, SemaTypeOK
<1> QED
  BY <1>1, SemaInvariant, PTL

\* A task in use is in exactly one place, whatever the tasks call.
THEOREM TasksStayInOnePlace == SemaSpec => []TaskInOnePlace
<1>1. SemaInv => TaskInOnePlace
  BY SchedInvMeans DEF SemaInv
<1> QED
  BY <1>1, SemaInvariant, PTL

\* The FIFOs, the wait pointers and the WaitList agree.
THEOREM WaitersStayOnBothLists == SemaSpec => []WaiterOnBothLists
<1>1. SemaInv => WaiterOnBothLists
  BY SchedInvMeans DEF SemaInv
<1> QED
  BY <1>1, SemaInvariant, PTL

\* Wait pointers and timeouts do not outlive their wait.
THEOREM NoWaitGoesStale == SemaSpec => []NoStaleWait
<1>1. SemaInv => NoStaleWait
  BY SchedInvMeans DEF SemaInv
<1> QED
  BY <1>1, SemaInvariant, PTL

LEMMA SemaInvMeans == SemaInv => NoWaitWithToken
  BY SemaWaiters DEF SemaInv, TokenInv, NoWaitWithToken

\* No wakeup is lost: a semaphore with a token has no waiter.
THEOREM NoLostWakeup == SemaSpec => []NoWaitWithToken
  BY SemaInvMeans, SemaInvariant, PTL

-----------------------------------------------------------------------------
(* The kernel implements the abstract semaphores: every step of SemaNext is  *)
(* a step of SemaService or leaves its variables alone.  In every state of   *)
(* the invariant the waiters of s are given by the wait pointers, so each    *)
(* step is mapped by what it does to waitOn, semaCounter and nReturnCode.    *)

SemaWaitersOf(on) == [s \in Sema |-> {t \in TCB : on[t] = s}]

LEMMA SemaWaitersMap ==
  ASSUME SemaInv, SemaInv'
  PROVE  /\ [s \in Sema |-> ToSet(Fifo[s])] = SemaWaitersOf(waitOn)
         /\ [s \in Sema |-> ToSet(Fifo'[s])] = SemaWaitersOf(waitOn')
<1>1. \A s \in Sema : ToSet(Fifo[s]) = {t \in TCB : waitOn[t] = s}
  BY SemaWaiters DEF SemaInv
<1>2. \A s \in Sema : ToSet(Lists'.fifo[s]) = {t \in TCB : waitOn'[t] = s}
  <2>1. ListsOK(Lists') /\ Queued(Lists', waitOn', dTimeoutTicks')
    BY DEF SemaInv, SchedInv, Placed
  <2> QED
    BY <2>1, QueuedWaiters, SemaAssumption
<1> QED
  BY <1>1, <1>2, ListsFields DEF SemaWaitersOf

LEMMA SemaWaitingMap ==
  ASSUME SemaInv, NEW c \in TCB
  PROVE  SemaAbstraction!IsWaiting(c) <=> waitOn[c] \in Sema
<1>1. \A s \in Sema : ToSet(Fifo[s]) = {t \in TCB : waitOn[t] = s}
  BY SemaWaiters DEF SemaInv
<1> QED
  BY <1>1 DEF SemaAbstraction!IsWaiting

LEMMA SemaInitMaps == SemaInit => SemaAbstraction!ServiceInit
  BY SemaAssumption DEF SemaInit, SchedInit, SemaAbstraction!ServiceInit, ToSet

\* Steps of tasks and of the tick that belong to no semaphore.
LEMMA SemaSchedMaps ==
  ASSUME SemaInv, SemaInv', SchedNext, UNCHANGED semaCounter
  PROVE  \E gone \in SUBSET TCB : SemaAbstraction!Expire(gone)
<1> DEFINE gone == {t \in TCB : waitOn[t] \in Sema /\ waitOn'[t] = NULL}
<1>1. NULL \notin Sema
  BY SemaAssumption, NullAssumption
<1>2. \A t \in TCB : /\ waitOn'[t] = waitOn[t] \/ waitOn'[t] = NULL
                     /\ waitOn[t] \in Sema /\ waitOn'[t] = NULL => nReturnCode'[t] = "TIMEOUT"
                     /\ waitOn[t] \in Sema /\ waitOn'[t] # NULL => nReturnCode'[t] = nReturnCode[t]
  BY <1>1, SchedStepWaits DEF SemaInv
<1> HIDE DEF gone
<1>3. gone \subseteq TCB /\ \A c \in TCB : c \in gone <=> waitOn[c] \in Sema /\ waitOn'[c] = NULL
  BY DEF gone
<1>4. SemaWaitersOf(waitOn') = [s \in Sema |-> SemaWaitersOf(waitOn)[s] \ gone]
  BY <1>1, <1>2, <1>3 DEF SemaWaitersOf
<1>5. SemaAbstraction!Outcome(gone, "TIMEOUT")
  BY <1>2, <1>3, SemaWaitingMap DEF SemaAbstraction!Outcome
<1>6. \A c \in gone : SemaAbstraction!IsWaiting(c)
  BY <1>3, SemaWaitingMap
<1>7. SemaAbstraction!Expire(gone)
  BY <1>4, <1>5, <1>6, SemaWaitersMap DEF SemaAbstraction!Expire
<1> QED
  BY <1>3, <1>7

\* An operation that clears the waits of go, all on semaphore s.
LEMMA ClearWaitMaps ==
  ASSUME SemaInv, SemaInv', NEW s \in Sema, NEW go, go \subseteq ToSet(Fifo[s]),
         NEW c \in ReturnCode, ClearWait(go, [x \in go |-> c])
  PROVE  /\ SemaWaitersOf(waitOn') = [SemaWaitersOf(waitOn) EXCEPT ![s] = @ \ go]
         /\ SemaAbstraction!Outcome(go, c)
<1>1. NULL \notin Sema /\ waitOn \in [TCB -> Object \cup {NULL}]
  BY SemaAssumption, NullAssumption DEF SemaInv, SchedInv, Queued
<1>2. go \subseteq TCB /\ \A t \in go : waitOn[t] = s
  BY SemaWaiters DEF SemaInv
<1>3. /\ \A t \in TCB : waitOn'[t] = IF t \in go THEN NULL ELSE waitOn[t]
      /\ \A t \in TCB : nReturnCode'[t] = IF t \in go THEN c ELSE nReturnCode[t]
  BY DEF ClearWait
<1>4. SemaWaitersOf(waitOn') = [SemaWaitersOf(waitOn) EXCEPT ![s] = @ \ go]
  BY <1>1, <1>2, <1>3 DEF SemaWaitersOf
<1>5. SemaAbstraction!Outcome(go, c)
  BY <1>2, <1>3 DEF SemaAbstraction!Outcome
<1> QED
  BY <1>4, <1>5

LEMMA SemaSignalMaps ==
  ASSUME SemaInv, SemaInv', NEW s \in Sema,
         OS_SemaSignal(RunningTask, s) \/ OS_SemaSignalFromInt(s)
  PROVE  \/ SemaAbstraction!Post(s)
         \/ \E c \in TCB : SemaAbstraction!Grant(c, s)
         \/ UNCHANGED SemaAbstraction!serviceVars
<1>1. CASE SemaCountUp(s) /\ semaCounter[s] < SemaMax
  <2>1. /\ ToSet(Fifo[s]) = {} /\ UNCHANGED <<Fifo, nReturnCode>>
        /\ semaCounter' = [semaCounter EXCEPT ![s] = @ + 1]
    BY <1>1, EmptyList, SemaWaiters DEF SemaInv, SemaCountUp, schedVars
  <2> QED
    BY <1>1, <2>1 DEF SemaAbstraction!Post, SemaAbstraction!Outcome
<1>2. CASE SemaCountUp(s) /\ ~(semaCounter[s] < SemaMax)
  BY <1>2 DEF SemaCountUp, schedVars, SemaAbstraction!serviceVars
<1>3. CASE SemaHandOver(s)
  <2> DEFINE t == Head(Fifo[s])
  <2>1. t \in ToSet(Fifo[s]) /\ t \in TCB
    BY <1>3, SemaWaiters, HeadTailList DEF SemaInv, SemaHandOver, TCB
  <2>2. "OK" \in ReturnCode /\ ClearWait({t}, [x \in {t} |-> "OK"]) /\ UNCHANGED semaCounter
    BY <1>3 DEF SemaHandOver, WakeFirst, ReturnCode
  <2> HIDE DEF t
  <2>3. /\ SemaWaitersOf(waitOn') = [SemaWaitersOf(waitOn) EXCEPT ![s] = @ \ {t}]
        /\ SemaAbstraction!Outcome({t}, "OK")
    BY <2>1, <2>2, ClearWaitMaps
  <2>4. SemaAbstraction!Grant(t, s)
    BY <2>1, <2>2, <2>3, SemaWaitersMap DEF SemaAbstraction!Grant
  <2> QED
    BY <2>1, <2>4
<1> QED
  BY <1>1, <1>2, <1>3 DEF OS_SemaSignal, OS_SemaSignalFromInt

LEMMA SemaWaitMaps ==
  ASSUME SemaInv, SemaInv', NEW s \in Sema, NEW ticks \in Timeout,
         OS_SemaWait(RunningTask, s, ticks)
  PROVE  \/ SemaAbstraction!Take(s)
         \/ \E c \in TCB : SemaAbstraction!Queue(c, s)
         \/ UNCHANGED SemaAbstraction!serviceVars
<1>1. CASE SemaTake(s)
  BY <1>1 DEF SemaTake, schedVars, SemaAbstraction!Take, SemaAbstraction!Outcome
<1>2. CASE UNCHANGED schedVars /\ UNCHANGED semaCounter
  BY <1>2 DEF schedVars, SemaAbstraction!serviceVars
<1>3. CASE /\ Caller(RunningTask) /\ semaCounter[s] = 0
           /\ WaitForObject(RunningTask, s, ticks) /\ UNCHANGED semaCounter
  <2> DEFINE t == RunningTask
  <2>1. t \in TCB /\ waitOn \in [TCB -> Object \cup {NULL}] /\ waitOn[t] = NULL
        /\ NULL \notin Sema /\ nReturnCode \in [TCB -> ReturnCode]
    BY <1>3, CallerRuns, SemaAssumption, NullAssumption
       DEF SemaInv, SchedInv, Placed, Queued
  <2>2. /\ waitOn' = [waitOn EXCEPT ![t] = s]
        /\ nReturnCode' = [nReturnCode EXCEPT ![t] = "ERROR"]
    BY <1>3 DEF WaitForObject
  <2> HIDE DEF t
  <2>3. SemaWaitersOf(waitOn') = [SemaWaitersOf(waitOn) EXCEPT ![s] = @ \cup {t}]
    BY <2>1, <2>2 DEF SemaWaitersOf
  <2>4. ~SemaAbstraction!IsWaiting(t)
    BY <2>1, SemaWaitingMap
  <2>5. SemaAbstraction!Outcome({t}, "ERROR")
    BY <2>1, <2>2 DEF SemaAbstraction!Outcome
  <2>6. SemaAbstraction!Queue(t, s)
    BY <1>3, <2>3, <2>4, <2>5, SemaWaitersMap DEF SemaAbstraction!Queue
  <2> QED
    BY <2>1, <2>6
<1> QED
  BY <1>1, <1>2, <1>3 DEF OS_SemaWait

LEMMA FlushMaps ==
  ASSUME SemaInv, SemaInv', NEW s \in Sema, NEW code \in ReturnCode,
         LET go == ToSet(Fifo[s])
         IN  ClearWait(go, [x \in go |-> code])
  PROVE  SemaAbstraction!Flush(s, code)
<1> DEFINE go == ToSet(Fifo[s])
<1>1. ClearWait(go, [x \in go |-> code]) /\ go \subseteq ToSet(Fifo[s])
  OBVIOUS
<1>2. go = SemaWaitersOf(waitOn)[s] /\ go = [x \in Sema |-> ToSet(Fifo[x])][s]
  BY SemaWaiters DEF SemaInv, SemaWaitersOf
<1> HIDE DEF go
<1>3. /\ SemaWaitersOf(waitOn') = [SemaWaitersOf(waitOn) EXCEPT ![s] = @ \ go]
      /\ SemaAbstraction!Outcome(go, code)
  BY <1>1, ClearWaitMaps
<1>4. SemaWaitersOf(waitOn') = [SemaWaitersOf(waitOn) EXCEPT ![s] = {}]
  BY <1>2, <1>3 DEF SemaWaitersOf
<1> QED
  BY <1>2, <1>3, <1>4, SemaWaitersMap DEF SemaAbstraction!Flush

LEMMA ResetMaps ==
  ASSUME SemaInv, SemaInv', NEW s \in Sema, NEW start \in 0..SemaMax,
         OS_SemaReset(RunningTask, s, start)
  PROVE  SemaAbstraction!Reset(s, start)
<1>1. semaCounter' = [semaCounter EXCEPT ![s] = start]
  BY DEF OS_SemaReset
<1>2. CASE Fifo[s] = <<>>
  <2>1. UNCHANGED <<Fifo, nReturnCode>> /\ ToSet(Fifo[s]) = {}
    BY <1>2, EmptyList, SemaWaiters DEF SemaInv, OS_SemaReset, schedVars
  <2>2. SemaAbstraction!Flush(s, "RESETED")
    BY <2>1 DEF SemaAbstraction!Flush, SemaAbstraction!Outcome
  <2> QED
    BY <1>1, <2>2 DEF SemaAbstraction!Reset
<1>3. CASE Fifo[s] # <<>>
  <2>1. WakeAll(s, "RESETED") /\ "RESETED" \in ReturnCode
    BY <1>3 DEF OS_SemaReset, ReturnCode
  <2>2. SemaAbstraction!Flush(s, "RESETED")
    BY <2>1, FlushMaps DEF WakeAll
  <2> QED
    BY <1>1, <2>2 DEF SemaAbstraction!Reset
<1> QED
  BY <1>2, <1>3

LEMMA DeleteMaps ==
  ASSUME SemaInv, SemaInv', NEW s \in Sema, OS_SemaDelete(RunningTask, s)
  PROVE  SemaAbstraction!Delete(s)
<1>1. WakeAll(s, "DELETED") /\ "DELETED" \in ReturnCode /\ UNCHANGED semaCounter
  BY DEF OS_SemaDelete, ReturnCode
<1>2. SemaAbstraction!Flush(s, "DELETED")
  BY <1>1, FlushMaps DEF WakeAll
<1> QED
  BY <1>1, <1>2 DEF SemaAbstraction!Delete

LEMMA SemaNextMaps ==
  ASSUME SemaInv, SemaInv', [SemaNext]_semaVars
  PROVE  [SemaAbstraction!ServiceNext]_SemaAbstraction!serviceVars
<1>1. CASE SchedNext /\ UNCHANGED semaCounter
  BY <1>1, SemaSchedMaps DEF SemaAbstraction!ServiceNext
<1>2. CASE SemaTaskNext
  BY <1>2, SemaSignalMaps, SemaWaitMaps, ResetMaps, DeleteMaps
     DEF SemaTaskNext, SemaAbstraction!ServiceNext
<1>3. CASE SemaIntNext
  BY <1>3, SemaSignalMaps DEF SemaIntNext, SemaAbstraction!ServiceNext
<1>4. CASE UNCHANGED semaVars
  BY <1>4 DEF semaVars, schedVars, SemaAbstraction!serviceVars
<1> QED
  BY <1>1, <1>2, <1>3, <1>4 DEF SemaNext

\* The kernel's semaphores implement the abstract ones, for any number of tasks.
THEOREM SemaRefinement == SemaSpec => ImplementsSemaService
<1>1. SemaInv /\ SemaInv' /\ [SemaNext]_semaVars
        => [SemaAbstraction!ServiceNext]_SemaAbstraction!serviceVars
  BY SemaNextMaps
<1> QED
  BY <1>1, SemaInitMaps, SemaInvariant, PTL
     DEF SemaSpec, ImplementsSemaService, SemaAbstraction!ServiceSpec

-----------------------------------------------------------------------------
(* The order in which waiters are served.                                    *)

LEMMA SemaSignalOrder ==
  ASSUME SemaInv, OrderInv, NEW s \in Sema,
         OS_SemaSignal(RunningTask, s) \/ OS_SemaSignalFromInt(s)
  PROVE  OrderStep
<1> DEFINE t == Head(Fifo[s])
<1>1. CASE SemaCountUp(s)
  BY <1>1, SchedStutterOrder DEF SemaInv, SemaCountUp
<1>2. CASE SemaHandOver(s)
           /\ \/ /\ Caller(RunningTask)
                 /\ Reschedule(WaitToReady(Lists, t), StateAfterWait({t}))
              \/ /\ SetLists(WaitToReady(Lists, t))
                 /\ UNCHANGED RunningTask
  <2>1. t \in ToSet(Fifo[s]) /\ t \in ToSet(WaitList) /\ t \in Task
    BY <1>2, SemaWaiters, HeadTailList DEF SemaInv, SemaHandOver
  <2>2. /\ ListsOK(Lists) /\ t \notin ToSet(Lists.ready) /\ nPrio \in [TCB -> Nat]
        /\ ToSet(Lists.ready) \cap ToSet(Lists.wait) = {}
    BY <2>1, ListsFields DEF SemaInv, SchedInv, Placed
  <2>3. UNCHANGED nPrio
    BY <1>2 DEF SemaHandOver
  <2> HIDE DEF t
  <2>4. Moved(Lists, WaitToReady(Lists, t), {t}) /\ Orderly(Lists, WaitToReady(Lists, t), nPrio)
    BY <2>1, <2>2, WaitToReadyMoves, OrderlyMovedOne
  <2> QED
    BY <1>2, <2>1, <2>3, <2>4, WakeOrder DEF SemaInv, Caller, TCB
<1> QED
  BY <1>1, <1>2 DEF OS_SemaSignal, OS_SemaSignalFromInt

LEMMA SemaWaitOrder ==
  ASSUME SemaInv, OrderInv, NEW s \in Sema, NEW ticks \in Timeout,
         OS_SemaWait(RunningTask, s, ticks)
  PROVE  OrderStep
<1>1. CASE UNCHANGED schedVars
  BY <1>1, SchedStutterOrder DEF SemaInv
<1>2. CASE Caller(RunningTask) /\ WaitForObject(RunningTask, s, ticks)
  BY <1>2, BlockOrder, SemaAssumption DEF SemaInv, WaitForObject
<1> QED
  BY <1>1, <1>2 DEF OS_SemaWait, SemaTake

\* All waiters of s become ready, by a reset or a delete.
LEMMA SemaFlushOrder ==
  ASSUME SemaInv, OrderInv, NEW s \in Sema,
         \/ \E start \in 0..SemaMax : OS_SemaReset(RunningTask, s, start)
         \/ OS_SemaDelete(RunningTask, s)
  PROVE  OrderStep
<1> DEFINE go == ToSet(Fifo[s])
           M == WaitToReadyAll(Lists, Fifo[s], go)
<1>1. CASE UNCHANGED schedVars
  BY <1>1, SchedStutterOrder DEF SemaInv
<1>2. CASE /\ Caller(RunningTask) /\ UNCHANGED nPrio
           /\ \/ Reschedule(M, StateAfterWait(go))
              \/ SetLists(M) /\ UNCHANGED RunningTask
  <2>1. Moved(Lists, M, go) /\ go \subseteq ToSet(WaitList) /\ IsListOf(Fifo[s], Task)
    BY AllWaitersMove, SemaWaiters DEF SemaInv
  <2>2. /\ ListsOK(Lists) /\ nPrio \in [TCB -> Nat]
        /\ ToSet(Lists.ready) \cap ToSet(Lists.wait) = {}
    BY DEF SemaInv, SchedInv, Placed
  <2>3. WaitOrder(Lists.wait, Fifo[s], nPrio)
    BY SemaAssumption, ListsFields DEF OrderInv, SortedLists
  <2>4. Orderly(Lists, M, nPrio)
    BY <2>1, <2>2, <2>3, OrderlyMovedAll, ListsFields
  <2> HIDE DEF go, M
  <2> QED
    BY <1>2, <2>1, <2>4, WakeOrder DEF SemaInv, Caller, TCB
<1> QED
  BY <1>1, <1>2 DEF OS_SemaReset, OS_SemaDelete

LEMMA SemaNextOrder == ASSUME SemaInv, OrderInv, [SemaNext]_semaVars PROVE OrderStep
<1>1. CASE SchedNext
  BY <1>1, SchedNextOrder DEF SemaInv
<1>2. CASE SemaTaskNext
  BY <1>2, SemaSignalOrder, SemaWaitOrder, SemaFlushOrder DEF SemaTaskNext
<1>3. CASE SemaIntNext
  BY <1>3, SemaSignalOrder DEF SemaIntNext
<1>4. CASE UNCHANGED schedVars
  BY <1>4, SchedStutterOrder DEF SemaInv
<1> QED
  BY <1>1, <1>2, <1>3, <1>4 DEF SemaNext, semaVars

\* The ReadyList and the FIFOs are sorted by priority, and within a priority a
\* FIFO is in the order in which its tasks began to wait.
THEOREM ListsStaySorted == SemaSpec => []OrderInv
<1>1. SemaInit => OrderInv
  BY SchedInitOrder DEF SemaInit
<1>2. SemaInv /\ OrderInv /\ [SemaNext]_semaVars => OrderInv'
  BY SemaNextOrder, OrderStepInv DEF SemaInv
<1> QED
  BY <1>1, <1>2, SemaInvariant, PTL DEF SemaSpec

\* No task is overtaken by one that is not more urgent, on the ReadyList or on
\* any FIFO: the insertion of TCBFifoAddPrio puts it behind the last equal one.
THEOREM NobodyOvertakes == SemaSpec => NoOvertaking
<1> DEFINE Step ==
      \A o \in Object \cup {NULL} :
        \A a \in ToSet(Queue(o)) \cap ToSet(Queue(o)'), b \in ToSet(Queue(o)') :
          (Ahead(Queue(o), a, b) \/ (b \notin ToSet(Queue(o)) /\ nPrio'[a] <= nPrio'[b]))
            => Ahead(Queue(o)', a, b)
<1>1. SemaInv /\ OrderInv /\ [SemaNext]_semaVars => Step
  BY SemaNextOrder, OrderStepQueues
<1>2. SemaInv /\ OrderInv /\ [SemaNext]_semaVars => [Step]_schedVars
  BY <1>1
<1> QED
  BY <1>2, SemaInvariant, ListsStaySorted, PTL DEF SemaSpec, NoOvertaking

\* Waits that end together end in the order in which they began, for equal
\* priorities: the tick walks the WaitList, a reset and a delete walk a FIFO.
THEOREM WaitsEndInOrder == SemaSpec => ExpireInWaitOrder
<1> DEFINE Step ==
      \A a, b \in ToSet(WaitList) \cap ToSet(ReadyList') :
        Ahead(WaitList, a, b) /\ nPrio[a] = nPrio[b] => Ahead(ReadyList', a, b)
<1>1. SemaInv /\ OrderInv /\ [SemaNext]_semaVars => Step
  BY SemaNextOrder, OrderStepExpires
<1>2. SemaInv /\ OrderInv /\ [SemaNext]_semaVars => [Step]_schedVars
  BY <1>1
<1> QED
  BY <1>2, SemaInvariant, ListsStaySorted, PTL DEF SemaSpec, ExpireInWaitOrder

\* The scheduler never passes over a more urgent ready task.
THEOREM UrgentTasksRunFirst == SemaSpec => MostUrgentRuns
<1> DEFINE Step ==
      RunningTask' # RunningTask =>
        \A t \in ToSet(ReadyList') : nPrio'[RunningTask'] <= nPrio'[t]
<1>1. SemaInv /\ OrderInv /\ [SemaNext]_semaVars => Step
  BY SemaNextOrder DEF OrderStep, UrgentStep
<1>2. SemaInv /\ OrderInv /\ [SemaNext]_semaVars => [Step]_schedVars
  BY <1>1
<1> QED
  BY <1>2, SemaInvariant, ListsStaySorted, PTL DEF SemaSpec, MostUrgentRuns

\* Only a signal lets a waiter go with "OK", and it takes the head of the FIFO.
LEMMA OnlySignalsGrant ==
  ASSUME SemaInv, SemaInv',
         [SemaNext]_semaVars \/ \A t \in TCB : waitOn[t] \in Sema => waitOn'[t] = waitOn[t],
         NEW s \in Sema, NEW t \in ToSet(Fifo[s]),
         t \notin ToSet(Fifo'[s]), nReturnCode'[t] = "OK"
  PROVE  Fifo[s] # <<>> /\ t = Head(Fifo[s]) /\ ToSet(Fifo'[s]) \subseteq ToSet(Fifo[s])
<1>1. /\ NULL \notin Sema /\ t \in TCB /\ waitOn[t] = s /\ Fifo[s] # <<>>
      /\ waitOn \in [TCB -> Object \cup {NULL}] /\ nReturnCode \in [TCB -> ReturnCode]
  BY SemaWaiters, SemaAssumption, NullAssumption, EmptyList DEF SemaInv, SchedInv, Queued
<1>2. /\ ToSet(Fifo[s]) = {x \in TCB : waitOn[x] = s}
      /\ ToSet(Fifo'[s]) = {x \in TCB : waitOn'[x] = s}
  BY SemaWaitersMap DEF SemaWaitersOf
<1>3. waitOn'[t] # s
  BY <1>1, <1>2
<1>4. CASE UNCHANGED waitOn \/ waitOn'[t] = waitOn[t]
  BY <1>1, <1>3, <1>4
<1>5. CASE SchedNext
  BY <1>1, <1>3, <1>5, SchedStepWaits DEF SemaInv
<1>6. ASSUME NEW x \in Sema, SemaHandOver(x)
      PROVE  t = Head(Fifo[s]) /\ ToSet(Fifo'[s]) \subseteq ToSet(Fifo[s])
  <2> DEFINE h == Head(Fifo[x])
  <2>1. waitOn' = [y \in TCB |-> IF y \in {h} THEN NULL ELSE waitOn[y]]
    BY <1>6 DEF SemaHandOver, WakeFirst, ClearWait
  <2>2. waitOn[h] = x
    <3>1. /\ Fifo[x] # <<>> /\ IsListOf(Fifo[x], Task)
          /\ ToSet(Fifo[x]) = {y \in TCB : waitOn[y] = x}
      BY <1>6, SemaWaiters DEF SemaInv, SemaHandOver
    <3>2. h \in ToSet(Fifo[x])
      BY <3>1, HeadTailList
    <3> QED
      BY <3>1, <3>2
  <2> HIDE DEF h
  <2>3. t = h /\ x = s
    BY <1>1, <1>3, <2>1, <2>2
  <2>4. ToSet(Fifo'[s]) \subseteq ToSet(Fifo[s])
    BY <1>1, <1>2, <2>1
  <2> QED
    BY <2>3, <2>4 DEF h
<1>7. ASSUME NEW ticks \in Timeout, NEW x \in Sema, Caller(RunningTask),
             WaitForObject(RunningTask, x, ticks)
      PROVE  FALSE
  <2>1. RunningTask \in TCB /\ waitOn[RunningTask] = NULL
    BY <1>7, CallerRuns DEF SemaInv, SchedInv, Placed, Queued
  <2>2. waitOn' = [waitOn EXCEPT ![RunningTask] = x]
    BY <1>7 DEF WaitForObject
  <2> QED
    BY <1>1, <1>3, <2>1, <2>2
<1>8. ASSUME NEW x \in Sema, NEW c \in {"RESETED", "DELETED"}, WakeAll(x, c) PROVE FALSE
  <2> DEFINE go == ToSet(Fifo[x])
  <2>1. /\ waitOn' = [y \in TCB |-> IF y \in go THEN NULL ELSE waitOn[y]]
        /\ nReturnCode' = [y \in TCB |-> IF y \in go THEN [z \in go |-> c][y]
                                         ELSE nReturnCode[y]]
    BY <1>8 DEF WakeAll, ClearWait
  <2> HIDE DEF go
  <2>2. t \in go
    BY <1>1, <1>3, <2>1
  <2> QED
    BY <1>1, <2>1, <2>2
<1>9. t \in TCB /\ waitOn[t] \in Sema
  BY <1>1
<1> QED
  BY <1>1, <1>4, <1>5, <1>6, <1>7, <1>8, <1>9
     DEF SemaNext, SemaTaskNext, SemaIntNext, OS_SemaSignal, OS_SemaSignalFromInt, SemaCountUp,
         OS_SemaWait, SemaTake, OS_SemaReset, OS_SemaDelete, semaVars, schedVars

GrantStep ==
  \A s \in Sema : \A t \in ToSet(Fifo[s]) :
    (t \notin ToSet(Fifo'[s]) /\ nReturnCode'[t] = "OK")
      => t = Head(Fifo[s]) /\ \A u \in ToSet(Fifo'[s]) : nPrio[t] <= nPrio[u]

\* What the head of a sorted FIFO is, for a step that touches no semaphore too.
LEMMA SemaGrantStep ==
  ASSUME SemaInv, SemaInv', OrderInv,
         [SemaNext]_semaVars \/ \A t \in TCB : waitOn[t] \in Sema => waitOn'[t] = waitOn[t]
  PROVE  GrantStep
<1> SUFFICES ASSUME NEW s \in Sema, NEW t \in ToSet(Fifo[s]),
                    t \notin ToSet(Fifo'[s]), nReturnCode'[t] = "OK"
             PROVE  t = Head(Fifo[s]) /\ \A u \in ToSet(Fifo'[s]) : nPrio[t] <= nPrio[u]
  BY DEF GrantStep
<1>1. Fifo[s] # <<>> /\ t = Head(Fifo[s]) /\ ToSet(Fifo'[s]) \subseteq ToSet(Fifo[s])
  BY OnlySignalsGrant
<1>2. IsListOf(Fifo[s], Task)
  BY SemaWaiters DEF SemaInv
<1>3. \A u \in ToSet(Fifo'[s]) : u \in ToSet(Tail(Fifo[s])) /\ Ahead(Fifo[s], t, u)
  <2> DEFINE q == Fifo[s]
  <2>1. ToSet(Tail(q)) = ToSet(q) \ {Head(q)}
    BY <1>1, <1>2, HeadTailList
  <2>2. \A u \in ToSet(Tail(q)) : Ahead(q, Head(q), u)
    BY <1>1, <1>2, HeadTailOrder
  <2>3. \A u \in ToSet(Fifo'[s]) : u \in ToSet(q) /\ u # t
    BY <1>1
  <2> HIDE DEF q
  <2>4. \A u \in ToSet(Fifo'[s]) : u \in ToSet(Tail(q)) /\ Ahead(q, t, u)
    BY <1>1, <2>1, <2>2, <2>3 DEF q
  <2> QED
    BY <2>4 DEF q
<1>4. Sorted(Fifo[s], nPrio)
  BY SemaAssumption, ListsFields DEF OrderInv, SortedLists
<1>5. \A u \in ToSet(Fifo'[s]) : u \in ToSet(Fifo[s])
  BY <1>1
<1> QED
  BY <1>1, <1>3, <1>4, <1>5 DEF Sorted

\* A token goes to the most urgent waiter, and among equals to the oldest.
THEOREM TokensGoInOrder == SemaSpec => GrantInOrder
<1>1. SemaInv /\ SemaInv' /\ OrderInv /\ [SemaNext]_semaVars => [GrantStep]_semaVars
  BY SemaGrantStep
<1>2. SemaSpec => [][GrantStep]_semaVars
  BY <1>1, SemaInvariant, ListsStaySorted, PTL DEF SemaSpec
<1> QED
  BY <1>2 DEF GrantStep, GrantInOrder
=============================================================================
