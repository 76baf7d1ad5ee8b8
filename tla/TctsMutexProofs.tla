--------------------------- MODULE TctsMutexProofs ---------------------------
(***************************************************************************)
(* Proofs about the mutexes of TCTS, for any tasks, priorities, mutexes,   *)
(* recursion depths and timeouts.                                          *)
(***************************************************************************)
EXTENDS TctsMutex, TctsSchedProofs

\* The inductive invariant: that of the scheduler; owner and depth agree, and
\* whoever waits for a mutex waits for one that another task owns.
HeldInv ==
  \A m \in Mutex :
    /\ Owner[m] = NULL <=> mutexCounter[m] = 0
    /\ \A t \in TCB : waitOn[t] = m => Owner[m] \notin {NULL, t}

MutexInv ==
  /\ SchedInv
  /\ Owner \in [Mutex -> Task \cup {NULL}]
  /\ mutexCounter \in [Mutex -> 0..MaxRecursion]
  /\ HeldInv

LEMMA MutexWaiters ==
  ASSUME SchedInv, NEW m \in Mutex
  PROVE  /\ ToSet(Fifo[m]) = {t \in TCB : waitOn[t] = m}
         /\ Fifo[m] = <<>> <=> \A t \in TCB : waitOn[t] # m
         /\ ToSet(Fifo[m]) \subseteq ToSet(WaitList)
         /\ ToSet(Fifo[m]) \subseteq Task
         /\ IsListOf(Fifo[m], Task)
<1>1. m \in Object
  BY MutexAssumption
<1> QED
  BY <1>1, ObjectWaiters

LEMMA NullIsNoMutex == NULL \notin Mutex /\ NULL \notin Task /\ Task \subseteq TCB
  BY MutexAssumption, NullAssumption DEF TCB

-----------------------------------------------------------------------------
(* Every action of the mutexes preserves the invariant.                      *)

LEMMA MutexInitInv == MutexInit => MutexInv
<1> SUFFICES ASSUME MutexInit PROVE MutexInv
  OBVIOUS
<1>1. SchedInv
  BY SchedInitInv DEF MutexInit
<1>2. HeldInv
  BY NullIsNoMutex DEF MutexInit, SchedInit, HeldInv
<1>3. Owner \in [Mutex -> Task \cup {NULL}] /\ mutexCounter \in [Mutex -> 0..MaxRecursion]
  BY RecursionAssumption DEF MutexInit
<1> QED
  BY <1>1, <1>2, <1>3 DEF MutexInv

LEMMA SchedKeepsHeld ==
  ASSUME MutexInv, SchedNext, UNCHANGED mutexOnlyVars
  PROVE  MutexInv'
<1>1. SchedInv'
  BY SchedNextInv DEF MutexInv
<1>2. \A t \in TCB : waitOn'[t] = waitOn[t] \/ waitOn'[t] = NULL
  BY SchedStepWaits DEF MutexInv
<1>3. HeldInv'
  BY <1>2, NullIsNoMutex DEF MutexInv, HeldInv, mutexOnlyVars
<1> QED
  BY <1>1, <1>3 DEF MutexInv, mutexOnlyVars

LEMMA CountDownInv ==
  ASSUME MutexInv, NEW m \in Mutex, MutexCountDown(m)
  PROVE  MutexInv'
<1>1. SchedInv' /\ waitOn' = waitOn
  BY SchedStutterInv DEF MutexInv, MutexCountDown, schedVars
<1>2. mutexCounter[m] \in 0..MaxRecursion /\ Owner[m] \in Task \cup {NULL} /\ MaxRecursion \in Nat
  BY RecursionAssumption DEF MutexInv
<1>3. /\ mutexCounter' \in [Mutex -> 0..MaxRecursion]
      /\ Owner' \in [Mutex -> Task \cup {NULL}]
  BY <1>2 DEF MutexInv, MutexCountDown
<1>4. /\ \A x \in Mutex \ {m} : mutexCounter'[x] = mutexCounter[x] /\ Owner'[x] = Owner[x]
      /\ mutexCounter'[m] = IF mutexCounter[m] > 0 THEN mutexCounter[m] - 1 ELSE mutexCounter[m]
      /\ Owner'[m] = IF mutexCounter[m] = 1 THEN NULL ELSE Owner[m]
  BY DEF MutexInv, MutexCountDown
<1>5. mutexCounter[m] = 1 => \A t \in TCB : waitOn[t] # m
  BY MutexWaiters DEF MutexInv, MutexCountDown
<1>6. HeldInv'
  <2>1. Owner'[m] = NULL <=> mutexCounter'[m] = 0
    BY <1>2, <1>4 DEF MutexInv, HeldInv
  <2>2. \A t \in TCB : waitOn[t] = m => Owner'[m] \notin {NULL, t}
    BY <1>4, <1>5 DEF MutexInv, HeldInv
  <2> QED
    BY <1>1, <1>4, <2>1, <2>2 DEF MutexInv, HeldInv
<1> QED
  BY <1>1, <1>3, <1>6 DEF MutexInv

LEMMA HandOverState ==
  ASSUME MutexInv, NEW m \in Mutex, MutexHandOver(m)
  PROVE  LET t == Head(Fifo[m])
         IN  /\ t \in ToSet(Fifo[m]) /\ t \in ToSet(WaitList) /\ t \in Task /\ waitOn[t] = m
             /\ Moved(Lists, WaitToReady(Lists, t), {t})
             /\ ClearWait({t}, [x \in {t} |-> "OK"])
             /\ mutexCounter[m] = 1
             /\ mutexCounter' = mutexCounter
<1> DEFINE t == Head(Fifo[m])
<1>1. t \in ToSet(Fifo[m]) /\ t \in ToSet(WaitList) /\ t \in Task /\ waitOn[t] = m
  BY MutexWaiters, HeadTailList DEF MutexInv, MutexHandOver
<1>2. ListsOK(Lists) /\ t \notin ToSet(Lists.ready)
  BY <1>1, ListsFields DEF MutexInv, SchedInv, Placed
<1>3. Moved(Lists, WaitToReady(Lists, t), {t})
  BY <1>1, <1>2, WaitToReadyMoves
<1>4. ClearWait({t}, [x \in {t} |-> "OK"])
  BY DEF MutexHandOver, WakeFirst
<1>5. mutexCounter[m] = 1
  <2>1. mutexCounter[m] # 0
    BY <1>1, NullIsNoMutex DEF MutexInv, HeldInv
  <2>2. mutexCounter[m] \in 0..MaxRecursion /\ mutexCounter[m] <= 1
    BY DEF MutexInv, MutexHandOver
  <2> QED
    BY <2>1, <2>2, RecursionAssumption
<1>6. mutexCounter' = mutexCounter
  BY <1>5 DEF MutexInv, MutexHandOver
<1> QED
  BY <1>1, <1>3, <1>4, <1>5, <1>6

LEMMA MutexSignalInv ==
  ASSUME MutexInv, NEW m \in Mutex,
         OS_MutexSignal(RunningTask, m) \/ OS_MutexSignalFromInt(m)
  PROVE  MutexInv'
<1> DEFINE t == Head(Fifo[m])
<1>1. CASE MutexCountDown(m)
  BY <1>1, CountDownInv
<1>2. CASE MutexHandOver(m)
           /\ \/ /\ Caller(RunningTask)
                 /\ Reschedule(WaitToReady(Lists, t), StateAfterWait({t}))
              \/ /\ SetLists(WaitToReady(Lists, t))
                 /\ State' = StateAfterWait({t})
                 /\ UNCHANGED RunningTask
  <2>1. /\ t \in ToSet(Fifo[m]) /\ t \in ToSet(WaitList) /\ t \in Task /\ waitOn[t] = m
        /\ Moved(Lists, WaitToReady(Lists, t), {t})
        /\ ClearWait({t}, [x \in {t} |-> "OK"])
        /\ mutexCounter[m] = 1
        /\ mutexCounter' = mutexCounter
    BY <1>2, HandOverState
  <2>2. "OK" \in ReturnCode /\ Owner' = [Owner EXCEPT ![m] = t]
        /\ UNCHANGED <<bIsSchedLocked, nPrio>>
    BY <1>2 DEF MutexHandOver, ReturnCode
  <2> HIDE DEF t
  <2>3. SchedInv'
    BY <1>2, <2>1, <2>2, WakeInv DEF MutexInv, Caller
  <2>4. Owner' \in [Mutex -> Task \cup {NULL}] /\ Owner'[m] = t
        /\ \A x \in Mutex \ {m} : Owner'[x] = Owner[x]
    BY <2>1, <2>2 DEF MutexInv
  <2>5. HeldInv'
    <3>1. \A x \in TCB : waitOn'[x] = IF x = t THEN NULL ELSE waitOn[x]
      BY <2>1 DEF ClearWait
    <3>2. t # NULL
      BY <2>1, NullIsNoMutex
    <3> QED
      BY <2>1, <2>4, <3>1, <3>2, NullIsNoMutex DEF MutexInv, HeldInv
  <2> QED
    BY <2>1, <2>3, <2>4, <2>5 DEF MutexInv
<1> QED
  BY <1>1, <1>2 DEF OS_MutexSignal, OS_MutexSignalFromInt

LEMMA MutexWaitInv ==
  ASSUME MutexInv, NEW m \in Mutex, NEW ticks \in Timeout, OS_MutexWait(RunningTask, m, ticks)
  PROVE  MutexInv'
<1> DEFINE t == RunningTask
<1>1. t \in Task /\ t \in TCB /\ waitOn[t] = NULL
  BY CallerRuns, ListsFields DEF OS_MutexWait, MutexInv, SchedInv, Placed, Queued
<1> HIDE DEF t
<1>2. CASE MutexTake(t, m)
  <2>1. SchedInv' /\ waitOn' = waitOn
    BY <1>2, SchedStutterInv DEF MutexInv, MutexTake, schedVars
  <2>2. /\ Owner' = [Owner EXCEPT ![m] = t]
        /\ mutexCounter' = [mutexCounter EXCEPT ![m] = @ + 1]
        /\ mutexCounter[m] \in 0..MaxRecursion /\ mutexCounter[m] < MaxRecursion
        /\ MaxRecursion \in Nat
    BY <1>2, RecursionAssumption DEF MutexInv, MutexTake
  <2>3. /\ Owner' \in [Mutex -> Task \cup {NULL}]
        /\ mutexCounter' \in [Mutex -> 0..MaxRecursion]
    BY <1>1, <2>2 DEF MutexInv
  <2>4. HeldInv'
    <3>1. Owner'[m] = t /\ mutexCounter'[m] = mutexCounter[m] + 1 /\ mutexCounter'[m] # 0
      BY <2>2 DEF MutexInv
    <3>2. t # NULL /\ \A x \in TCB : waitOn[x] = m => Owner[m] = t /\ x # t
      BY <1>1, <1>2, NullIsNoMutex DEF MutexInv, HeldInv, MutexTake
    <3>3. \A x \in Mutex \ {m} : Owner'[x] = Owner[x] /\ mutexCounter'[x] = mutexCounter[x]
      BY <2>2 DEF MutexInv
    <3> QED
      BY <2>1, <3>1, <3>2, <3>3 DEF MutexInv, HeldInv
  <2> QED
    BY <2>1, <2>3, <2>4 DEF MutexInv
<1>3. CASE UNCHANGED schedVars /\ UNCHANGED mutexOnlyVars
  BY <1>3, SchedStutterInv DEF MutexInv, HeldInv, schedVars, mutexOnlyVars
<1>4. CASE /\ Caller(RunningTask) /\ Owner[m] \notin {NULL, t}
           /\ WaitForObject(RunningTask, m, ticks) /\ UNCHANGED mutexOnlyVars
  <2>1. SchedInv'
    BY <1>4, WaitForObjectInv, MutexAssumption DEF MutexInv
  <2>2. \A x \in TCB : waitOn'[x] = IF x = t THEN m ELSE waitOn[x]
    BY <1>4 DEF MutexInv, SchedInv, Queued, WaitForObject, t
  <2>3. HeldInv'
    BY <1>4, <2>2 DEF MutexInv, HeldInv, mutexOnlyVars
  <2> QED
    BY <1>4, <2>1, <2>3 DEF MutexInv, mutexOnlyVars
<1> QED
  BY <1>2, <1>3, <1>4 DEF OS_MutexWait, t

LEMMA MutexNextInv == MutexInv /\ [MutexNext]_mutexVars => MutexInv'
<1> SUFFICES ASSUME MutexInv, [MutexNext]_mutexVars PROVE MutexInv'
  OBVIOUS
<1>1. CASE SchedNext /\ UNCHANGED mutexOnlyVars
  BY <1>1, SchedKeepsHeld
<1>2. CASE MutexTaskNext
  BY <1>2, MutexSignalInv, MutexWaitInv DEF MutexTaskNext
<1>3. CASE MutexIntNext
  BY <1>3, MutexSignalInv DEF MutexIntNext
<1>4. CASE UNCHANGED mutexVars
  BY <1>4, SchedStutterInv DEF MutexInv, HeldInv, mutexVars, schedVars
<1> QED
  BY <1>1, <1>2, <1>3, <1>4 DEF MutexNext

\* The inductive invariant holds in every state of the kernel.
THEOREM MutexInvariant == MutexSpec => []MutexInv
  BY MutexInitInv, MutexNextInv, PTL DEF MutexSpec

\* Type correctness of the scheduler with its mutexes.
THEOREM MutexTypeCorrect == MutexSpec => []MutexTypeOK
<1>1. MutexInv => MutexTypeOK
  BY SchedInvMeans DEF MutexInv, MutexTypeOK
<1> QED
  BY <1>1, MutexInvariant, PTL

LEMMA MutexInvMeans == MutexInv => MutexConsistent
<1> SUFFICES ASSUME MutexInv PROVE MutexConsistent
  OBVIOUS
<1>1. \A m \in Mutex : Owner[m] \notin ToSet(Fifo[m])
  BY MutexWaiters, NullIsNoMutex DEF MutexInv, HeldInv
<1>2. \A m \in Mutex : Fifo[m] # <<>> => Owner[m] # NULL
  BY MutexWaiters DEF MutexInv, HeldInv
<1> QED
  BY <1>1, <1>2 DEF MutexInv, HeldInv, MutexConsistent

\* Owner, depth and queue of every mutex agree.
THEOREM MutexesAreConsistent == MutexSpec => []MutexConsistent
  BY MutexInvMeans, MutexInvariant, PTL

BargingStep ==
  \A m \in Mutex : (Owner'[m] # Owner[m] /\ Owner[m] # NULL) =>
    /\ mutexCounter[m] = 1
    /\ IF Fifo[m] = <<>> THEN Owner'[m] = NULL
       ELSE Owner'[m] = Head(Fifo[m]) /\ mutexCounter'[m] = 1

LEMMA MutexBargingStep ==
  ASSUME MutexInv, [MutexNext]_mutexVars \/ UNCHANGED mutexOnlyVars
  PROVE  BargingStep
<1>1. ASSUME NEW m \in Mutex, MutexCountDown(m) PROVE BargingStep
  BY <1>1 DEF MutexInv, MutexCountDown, BargingStep
<1>2. ASSUME NEW m \in Mutex, MutexHandOver(m) PROVE BargingStep
  <2>1. mutexCounter[m] = 1 /\ mutexCounter' = mutexCounter
    BY <1>2, HandOverState
  <2> QED
    BY <1>2, <2>1 DEF MutexInv, MutexHandOver, BargingStep
<1>3. ASSUME NEW m \in Mutex, MutexTake(RunningTask, m) PROVE BargingStep
  BY <1>3 DEF MutexInv, MutexTake, BargingStep
<1>4. ASSUME UNCHANGED mutexOnlyVars PROVE BargingStep
  BY <1>4 DEF mutexOnlyVars, BargingStep
<1>5. UNCHANGED mutexVars => UNCHANGED mutexOnlyVars
  BY DEF mutexVars, mutexOnlyVars
<1> QED
  BY <1>1, <1>2, <1>3, <1>4, <1>5
     DEF MutexNext, MutexTaskNext, MutexIntNext, OS_MutexSignal, OS_MutexSignalFromInt,
         OS_MutexWait

\* A mutex changes hands only when its last level is given back, and then goes to
\* the head of its FIFO: the hand-over in OS_MutexSignal admits no newcomer.
THEOREM NobodyBarges == MutexSpec => NoBarging
<1>1. MutexInv /\ [MutexNext]_mutexVars => [BargingStep]_mutexVars
  BY MutexBargingStep
<1>2. MutexSpec => [][BargingStep]_mutexVars
  BY <1>1, MutexInvariant, PTL DEF MutexSpec
<1> QED
  BY <1>2 DEF BargingStep, NoBarging

-----------------------------------------------------------------------------
(* The kernel implements the abstract mutexes.                               *)

MutexWaitersOf(on) == [m \in Mutex |-> {t \in TCB : on[t] = m}]

LEMMA MutexWaitersMap ==
  ASSUME MutexInv, MutexInv'
  PROVE  /\ [m \in Mutex |-> ToSet(Fifo[m])] = MutexWaitersOf(waitOn)
         /\ [m \in Mutex |-> ToSet(Fifo'[m])] = MutexWaitersOf(waitOn')
<1>1. \A m \in Mutex : ToSet(Fifo[m]) = {t \in TCB : waitOn[t] = m}
  BY MutexWaiters DEF MutexInv
<1>2. \A m \in Mutex : ToSet(Lists'.fifo[m]) = {t \in TCB : waitOn'[t] = m}
  <2>1. ListsOK(Lists') /\ Queued(Lists', waitOn', dTimeoutTicks')
    BY DEF MutexInv, SchedInv, Placed
  <2> QED
    BY <2>1, QueuedWaiters, MutexAssumption
<1> QED
  BY <1>1, <1>2, ListsFields DEF MutexWaitersOf

LEMMA MutexWaitingMap ==
  ASSUME MutexInv, NEW c \in TCB
  PROVE  MutexAbstraction!IsWaiting(c) <=> waitOn[c] \in Mutex
<1>1. \A m \in Mutex : ToSet(Fifo[m]) = {t \in TCB : waitOn[t] = m}
  BY MutexWaiters DEF MutexInv
<1> QED
  BY <1>1 DEF MutexAbstraction!IsWaiting

LEMMA MutexInitMaps == MutexInit => MutexAbstraction!ServiceInit
  BY MutexAssumption DEF MutexInit, SchedInit, MutexAbstraction!ServiceInit, ToSet

LEMMA MutexSchedMaps ==
  ASSUME MutexInv, MutexInv', SchedNext, UNCHANGED mutexOnlyVars
  PROVE  \E gone \in SUBSET TCB : MutexAbstraction!Expire(gone)
<1> DEFINE gone == {t \in TCB : waitOn[t] \in Mutex /\ waitOn'[t] = NULL}
<1>1. \A t \in TCB : /\ waitOn'[t] = waitOn[t] \/ waitOn'[t] = NULL
                     /\ waitOn[t] \in Mutex /\ waitOn'[t] = NULL => nReturnCode'[t] = "TIMEOUT"
                     /\ waitOn[t] \in Mutex /\ waitOn'[t] # NULL => nReturnCode'[t] = nReturnCode[t]
  BY NullIsNoMutex, SchedStepWaits DEF MutexInv
<1> HIDE DEF gone
<1>2. gone \subseteq TCB /\ \A c \in TCB : c \in gone <=> waitOn[c] \in Mutex /\ waitOn'[c] = NULL
  BY DEF gone
<1>3. MutexWaitersOf(waitOn') = [m \in Mutex |-> MutexWaitersOf(waitOn)[m] \ gone]
  BY <1>1, <1>2, NullIsNoMutex DEF MutexWaitersOf
<1>4. MutexAbstraction!Outcome(gone, "TIMEOUT")
  BY <1>1, <1>2, MutexWaitingMap DEF MutexAbstraction!Outcome
<1>5. \A c \in gone : MutexAbstraction!IsWaiting(c)
  BY <1>2, MutexWaitingMap
<1>6. MutexAbstraction!Expire(gone)
  BY <1>3, <1>4, <1>5, MutexWaitersMap DEF MutexAbstraction!Expire, mutexOnlyVars
<1> QED
  BY <1>2, <1>6

LEMMA MutexSignalMaps ==
  ASSUME MutexInv, MutexInv', NEW m \in Mutex,
         OS_MutexSignal(RunningTask, m) \/ OS_MutexSignalFromInt(m)
  PROVE  \/ MutexAbstraction!Unlock(m)
         \/ \E c \in TCB : MutexAbstraction!HandOver(c, m)
         \/ UNCHANGED MutexAbstraction!serviceVars
<1>1. mutexCounter[m] \in 0..MaxRecursion /\ MaxRecursion \in Nat
  BY RecursionAssumption DEF MutexInv
<1>2. CASE MutexCountDown(m) /\ mutexCounter[m] > 0
  <2>1. /\ UNCHANGED <<Fifo, nReturnCode>>
        /\ mutexCounter' = [mutexCounter EXCEPT ![m] = @ - 1]
        /\ Owner' = IF mutexCounter[m] = 1 THEN [Owner EXCEPT ![m] = NULL] ELSE Owner
    BY <1>2 DEF MutexCountDown, schedVars
  <2>2. mutexCounter[m] > 1 \/ (mutexCounter[m] = 1 /\ ToSet(Fifo[m]) = {})
    <3>1. mutexCounter[m] > 1 \/ (mutexCounter[m] = 1 /\ Fifo[m] = <<>>)
      BY <1>1, <1>2 DEF MutexCountDown
    <3>2. Fifo[m] = <<>> => ToSet(Fifo[m]) = {}
      BY MutexWaiters DEF MutexInv
    <3> QED
      BY <3>1, <3>2
  <2> QED
    BY <1>2, <2>1, <2>2 DEF MutexAbstraction!Unlock, MutexAbstraction!Outcome
<1>3. CASE MutexCountDown(m) /\ mutexCounter[m] = 0
  BY <1>3 DEF MutexInv, MutexCountDown, schedVars, MutexAbstraction!serviceVars
<1>4. CASE MutexHandOver(m)
  <2> DEFINE t == Head(Fifo[m])
  <2>1. /\ t \in ToSet(Fifo[m]) /\ t \in Task /\ waitOn[t] = m
        /\ ClearWait({t}, [x \in {t} |-> "OK"])
        /\ mutexCounter[m] = 1 /\ mutexCounter' = mutexCounter
    BY <1>4, HandOverState
  <2>2. Owner' = [Owner EXCEPT ![m] = t]
    BY <1>4 DEF MutexHandOver
  <2> HIDE DEF t
  <2>3. /\ \A x \in TCB : waitOn'[x] = IF x = t THEN NULL ELSE waitOn[x]
        /\ \A x \in TCB : nReturnCode'[x] = IF x = t THEN "OK" ELSE nReturnCode[x]
    BY <2>1 DEF ClearWait
  <2>4. MutexWaitersOf(waitOn') = [MutexWaitersOf(waitOn) EXCEPT ![m] = @ \ {t}]
    BY <2>1, <2>3, NullIsNoMutex DEF MutexWaitersOf
  <2>5. MutexAbstraction!Outcome({t}, "OK")
    BY <2>3 DEF MutexAbstraction!Outcome
  <2>6. MutexAbstraction!HandOver(t, m)
    BY <2>1, <2>2, <2>4, <2>5, MutexWaitersMap DEF MutexAbstraction!HandOver
  <2> QED
    BY <2>1, <2>6, NullIsNoMutex
<1> QED
  BY <1>1, <1>2, <1>3, <1>4 DEF OS_MutexSignal, OS_MutexSignalFromInt

LEMMA MutexWaitMaps ==
  ASSUME MutexInv, MutexInv', NEW m \in Mutex, NEW ticks \in Timeout,
         OS_MutexWait(RunningTask, m, ticks)
  PROVE  \/ \E c \in TCB : MutexAbstraction!Lock(c, m) \/ MutexAbstraction!Queue(c, m)
         \/ UNCHANGED MutexAbstraction!serviceVars
<1> DEFINE t == RunningTask
<1>1. t \in Task /\ t \in TCB /\ waitOn[t] = NULL
  BY CallerRuns, ListsFields DEF OS_MutexWait, MutexInv, SchedInv, Placed, Queued
<1> HIDE DEF t
<1>2. ~MutexAbstraction!IsWaiting(t)
  BY <1>1, MutexWaitingMap, NullIsNoMutex
<1>3. CASE MutexTake(t, m)
  <2>1. /\ Owner[m] = NULL => mutexCounter[m] = 0 /\ ToSet(Fifo[m]) = {}
        /\ Owner[m] = t => mutexCounter[m] \in 1..MaxRecursion - 1
    <3>1. mutexCounter[m] \in 0..MaxRecursion /\ mutexCounter[m] < MaxRecursion /\ t # NULL
      BY <1>1, <1>3, NullIsNoMutex DEF MutexInv, MutexTake
    <3>2. Owner[m] = NULL => \A x \in TCB : waitOn[x] # m
      BY DEF MutexInv, HeldInv
    <3>3. Owner[m] = NULL => ToSet(Fifo[m]) = {}
      BY <3>2, MutexWaiters DEF MutexInv
    <3> QED
      BY <3>1, <3>3, RecursionAssumption DEF MutexInv, HeldInv
  <2>2. UNCHANGED <<Fifo, nReturnCode>> /\ Owner[m] \in {NULL, t}
        /\ Owner' = [Owner EXCEPT ![m] = t]
        /\ mutexCounter' = [mutexCounter EXCEPT ![m] = @ + 1]
    BY <1>3 DEF MutexTake, schedVars
  <2>3. MutexAbstraction!Lock(t, m)
    BY <1>2, <2>1, <2>2 DEF MutexAbstraction!Lock, MutexAbstraction!Outcome
  <2> QED
    BY <1>1, <2>3
<1>4. CASE UNCHANGED schedVars /\ UNCHANGED mutexOnlyVars
  BY <1>4 DEF schedVars, mutexOnlyVars, MutexAbstraction!serviceVars
<1>5. CASE /\ Owner[m] \notin {NULL, t}
           /\ WaitForObject(t, m, ticks) /\ UNCHANGED mutexOnlyVars
  <2>1. /\ \A x \in TCB : waitOn'[x] = IF x = t THEN m ELSE waitOn[x]
        /\ \A x \in TCB : nReturnCode'[x] = IF x = t THEN "ERROR" ELSE nReturnCode[x]
    BY <1>5 DEF MutexInv, SchedInv, Queued, WaitForObject
  <2>2. MutexWaitersOf(waitOn') = [MutexWaitersOf(waitOn) EXCEPT ![m] = @ \cup {t}]
    BY <1>1, <2>1, NullIsNoMutex DEF MutexWaitersOf
  <2>3. MutexAbstraction!Outcome({t}, "ERROR")
    BY <2>1 DEF MutexAbstraction!Outcome
  <2>4. MutexAbstraction!Queue(t, m)
    BY <1>2, <1>5, <2>2, <2>3, MutexWaitersMap DEF MutexAbstraction!Queue, mutexOnlyVars
  <2> QED
    BY <1>1, <2>4
<1> QED
  BY <1>3, <1>4, <1>5 DEF OS_MutexWait, t

LEMMA MutexNextMaps ==
  ASSUME MutexInv, MutexInv', [MutexNext]_mutexVars
  PROVE  [MutexAbstraction!ServiceNext]_MutexAbstraction!serviceVars
<1>1. CASE SchedNext /\ UNCHANGED mutexOnlyVars
  BY <1>1, MutexSchedMaps DEF MutexAbstraction!ServiceNext
<1>2. CASE MutexTaskNext
  BY <1>2, MutexSignalMaps, MutexWaitMaps DEF MutexTaskNext, MutexAbstraction!ServiceNext
<1>3. CASE MutexIntNext
  BY <1>3, MutexSignalMaps DEF MutexIntNext, MutexAbstraction!ServiceNext
<1>4. CASE UNCHANGED mutexVars
  BY <1>4 DEF mutexVars, schedVars, MutexAbstraction!serviceVars
<1> QED
  BY <1>1, <1>2, <1>3, <1>4 DEF MutexNext

\* The kernel's mutexes implement the abstract ones, for any number of tasks.
THEOREM MutexRefinement == MutexSpec => ImplementsMutexService
<1>1. MutexInv /\ MutexInv' /\ [MutexNext]_mutexVars
        => [MutexAbstraction!ServiceNext]_MutexAbstraction!serviceVars
  BY MutexNextMaps
<1> QED
  BY <1>1, MutexInitMaps, MutexInvariant, PTL
     DEF MutexSpec, ImplementsMutexService, MutexAbstraction!ServiceSpec
-----------------------------------------------------------------------------
(* The order in which waiters are served.                                    *)

LEMMA MutexSignalOrder ==
  ASSUME MutexInv, OrderInv, NEW m \in Mutex,
         OS_MutexSignal(RunningTask, m) \/ OS_MutexSignalFromInt(m)
  PROVE  OrderStep
<1> DEFINE t == Head(Fifo[m])
<1>1. CASE MutexCountDown(m)
  BY <1>1, SchedStutterOrder DEF MutexInv, MutexCountDown
<1>2. CASE MutexHandOver(m)
           /\ \/ /\ Caller(RunningTask)
                 /\ Reschedule(WaitToReady(Lists, t), StateAfterWait({t}))
              \/ /\ SetLists(WaitToReady(Lists, t))
                 /\ UNCHANGED RunningTask
  <2>1. t \in ToSet(WaitList) /\ t \in Task /\ Moved(Lists, WaitToReady(Lists, t), {t})
    BY <1>2, HandOverState
  <2>2. /\ ListsOK(Lists) /\ t \notin ToSet(Lists.ready) /\ nPrio \in [TCB -> Nat]
        /\ ToSet(Lists.ready) \cap ToSet(Lists.wait) = {}
    BY <2>1, ListsFields DEF MutexInv, SchedInv, Placed
  <2>3. UNCHANGED nPrio
    BY <1>2 DEF MutexHandOver
  <2> HIDE DEF t
  <2>4. Orderly(Lists, WaitToReady(Lists, t), nPrio)
    BY <2>1, <2>2, OrderlyMovedOne
  <2> QED
    BY <1>2, <2>1, <2>3, <2>4, WakeOrder DEF MutexInv, Caller, TCB
<1> QED
  BY <1>1, <1>2 DEF OS_MutexSignal, OS_MutexSignalFromInt

LEMMA MutexWaitOrder ==
  ASSUME MutexInv, OrderInv, NEW m \in Mutex, NEW ticks \in Timeout,
         OS_MutexWait(RunningTask, m, ticks)
  PROVE  OrderStep
<1>1. CASE UNCHANGED schedVars
  BY <1>1, SchedStutterOrder DEF MutexInv
<1>2. CASE Caller(RunningTask) /\ WaitForObject(RunningTask, m, ticks)
  BY <1>2, BlockOrder, MutexAssumption DEF MutexInv, WaitForObject
<1> QED
  BY <1>1, <1>2 DEF OS_MutexWait, MutexTake

LEMMA MutexStepOrder ==
  ASSUME MutexInv, OrderInv, MutexTaskNext \/ MutexIntNext
  PROVE  OrderStep
  BY MutexSignalOrder, MutexWaitOrder DEF MutexTaskNext, MutexIntNext
=============================================================================
