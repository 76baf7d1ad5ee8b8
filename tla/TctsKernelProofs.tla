--------------------------- MODULE TctsKernelProofs --------------------------
(***************************************************************************)
(* Proofs about the event groups of TCTS and about the whole kernel, in    *)
(* which tasks use semaphores, mutexes and event groups together, for any  *)
(* tasks, priorities, objects, bits and timeouts.                          *)
(***************************************************************************)
EXTENDS TctsKernel, TctsSemaProofs, TctsMutexProofs

-----------------------------------------------------------------------------
(* Event groups.  The inductive invariant: no task that waits for e is       *)
(* satisfied by the bits of e, nor by the value that an OS_EventClr, between *)
(* its load and its store, is about to write.                                *)

Wants(t, pattern) == Satisfied(pattern, dEventWaitPattern[t], EventWaitMode[t])

UnsatisfiedInv ==
  \A e \in Event, t \in TCB : waitOn[t] = e =>
    /\ ~Wants(t, dPattern[e])
    /\ \A v \in Pattern : <<e, v>> \in clearing => ~Wants(t, v)

EventDataOK ==
  /\ dPattern \in [Event -> Pattern]
  /\ dEventWaitPattern \in [TCB -> Pattern]
  /\ EventWaitMode \in [TCB -> Mode]
  /\ clearing \in SUBSET (Event \X Pattern)

EventInv == SchedInv /\ EventDataOK /\ UnsatisfiedInv

LEMMA EventWaiters ==
  ASSUME SchedInv, NEW e \in Event
  PROVE  /\ ToSet(Fifo[e]) = {t \in TCB : waitOn[t] = e}
         /\ Fifo[e] = <<>> <=> \A t \in TCB : waitOn[t] # e
         /\ ToSet(Fifo[e]) \subseteq ToSet(WaitList)
         /\ ToSet(Fifo[e]) \subseteq Task
         /\ IsListOf(Fifo[e], Task)
<1>1. e \in Object
  BY EventAssumption
<1> QED
  BY <1>1, ObjectWaiters

LEMMA NullIsNoEvent == NULL \notin Event
  BY EventAssumption, NullAssumption

\* More bits satisfy whoever fewer bits satisfy.
LEMMA MoreBitsSatisfy ==
  ASSUME NEW p, NEW q, p \subseteq q, NEW wanted, NEW mode, Satisfied(p, wanted, mode)
  PROVE  Satisfied(q, wanted, mode)
  BY DEF Satisfied

\* A waiter that remains wants what it wanted; the bits of its group are among
\* bits that do not satisfy it; and so is the value to be written.
StillWants(t, e) ==
  /\ waitOn[t] = e
  /\ dEventWaitPattern'[t] = dEventWaitPattern[t] /\ EventWaitMode'[t] = EventWaitMode[t]
BitsTooFew(t, e) ==
  \E p \in Pattern : /\ dPattern'[e] \subseteq p
                     /\ p = dPattern[e] \/ <<e, p>> \in clearing \/ ~Wants(t, p)
ClearingTooFew(e) ==
  \A v \in Pattern : <<e, v>> \in clearing' => <<e, v>> \in clearing \/ v \subseteq dPattern[e]

LEMMA StayUnsatisfied ==
  ASSUME EventInv,
         \A t \in TCB, e \in Event : waitOn'[t] = e => StillWants(t, e) /\ BitsTooFew(t, e),
         \A e \in Event : ClearingTooFew(e)
  PROVE  UnsatisfiedInv'
<1> SUFFICES ASSUME NEW e \in Event, NEW t \in TCB, waitOn'[t] = e
             PROVE  /\ ~Satisfied(dPattern'[e], dEventWaitPattern'[t], EventWaitMode'[t])
                    /\ \A v \in Pattern : <<e, v>> \in clearing' =>
                         ~Satisfied(v, dEventWaitPattern'[t], EventWaitMode'[t])
  BY DEF UnsatisfiedInv, Wants
<1>0. StillWants(t, e) /\ BitsTooFew(t, e) /\ ClearingTooFew(e)
  OBVIOUS
<1>1. /\ ~Wants(t, dPattern[e])
      /\ \A v \in Pattern : <<e, v>> \in clearing => ~Wants(t, v)
      /\ dEventWaitPattern'[t] = dEventWaitPattern[t] /\ EventWaitMode'[t] = EventWaitMode[t]
  BY <1>0 DEF EventInv, UnsatisfiedInv, StillWants
<1>2. \A v \in Pattern : <<e, v>> \in clearing' => ~Wants(t, v)
  BY <1>0, <1>1, MoreBitsSatisfy DEF ClearingTooFew, Wants
<1>3. PICK p \in Pattern : dPattern'[e] \subseteq p /\ ~Wants(t, p)
  BY <1>0, <1>1 DEF BitsTooFew
<1>4. ~Satisfied(dPattern'[e], dEventWaitPattern[t], EventWaitMode[t])
  BY <1>3, MoreBitsSatisfy DEF Wants
<1> QED
  BY <1>1, <1>2, <1>4 DEF Wants

\* The same when no group gains bits.
LEMMA FewerBitsUnsatisfied ==
  ASSUME EventInv,
         \A t \in TCB, e \in Event : waitOn'[t] = e => StillWants(t, e),
         \A e \in Event : dPattern'[e] \subseteq dPattern[e],
         \A e \in Event : ClearingTooFew(e)
  PROVE  UnsatisfiedInv'
<1>1. \A t \in TCB, e \in Event : BitsTooFew(t, e)
  BY DEF BitsTooFew, EventInv, EventDataOK
<1> QED
  BY <1>1, StayUnsatisfied

-----------------------------------------------------------------------------
(* Every action of the event groups preserves the invariant.                 *)

LEMMA EventInitInv == EventInit => EventInv
<1> SUFFICES ASSUME EventInit PROVE EventInv
  OBVIOUS
<1>1. SchedInv
  BY SchedInitInv DEF EventInit
<1>2. EventDataOK
  BY DEF EventInit, EventDataOK, Pattern, Mode, NotClearing
<1>3. UnsatisfiedInv
  BY NullIsNoEvent DEF EventInit, SchedInit, UnsatisfiedInv
<1> QED
  BY <1>1, <1>2, <1>3 DEF EventInv

\* Steps that touch no event group and start no wait for one.
LEMMA EventKept ==
  ASSUME EventInv, SchedInv', UNCHANGED eventOnlyVars,
         \A t \in TCB, e \in Event : waitOn'[t] = e => waitOn[t] = e
  PROVE  EventInv'
<1>1. /\ dPattern' = dPattern /\ dEventWaitPattern' = dEventWaitPattern
      /\ EventWaitMode' = EventWaitMode /\ clearing' = clearing
  BY DEF eventOnlyVars
<1>2. EventDataOK'
  BY <1>1 DEF EventInv, EventDataOK
<1>3. UnsatisfiedInv'
  BY <1>1, FewerBitsUnsatisfied DEF StillWants, ClearingTooFew
<1> QED
  BY <1>2, <1>3 DEF EventInv

LEMMA EventTickInv ==
  ASSUME EventInv, HandleWaitList, UNCHANGED eventOnlyVars
  PROVE  EventInv'
<1>1. SchedInv'
  BY SchedNextInv DEF EventInv, SchedNext
<1>2. \A t \in TCB, e \in Event : waitOn'[t] = e => waitOn[t] = e
  BY SchedStepWaits, NullIsNoEvent DEF EventInv, SchedNext
<1> QED
  BY <1>1, <1>2, EventKept

LEMMA EventSchedInv ==
  ASSUME EventInv, EventSchedNext
  PROVE  EventInv'
<1>1. SchedNext /\ CreateClears /\ dPattern' = dPattern /\ clearing' = clearing
  BY DEF EventSchedNext, SchedNext
<1>2. SchedInv'
  BY <1>1, SchedNextInv DEF EventInv
<1>3. EventDataOK'
  BY <1>1 DEF EventInv, EventDataOK, CreateClears, Pattern, Mode
<1>4. \A t \in TCB, e \in Event : waitOn'[t] = e => waitOn[t] = e
  BY <1>1, SchedStepWaits, NullIsNoEvent DEF EventInv
<1>5. \A t \in TCB, e \in Event : waitOn[t] = e => State[t] # "NOT_IN_USE"
  BY NullIsNoEvent, ListsFields DEF EventInv, SchedInv, Placed, Queued
<1>6. \A t \in TCB, e \in Event : waitOn'[t] = e => StillWants(t, e)
  BY <1>1, <1>4, <1>5 DEF CreateClears, StillWants
<1>7. UnsatisfiedInv'
  BY <1>1, <1>6, FewerBitsUnsatisfied DEF ClearingTooFew
<1> QED
  BY <1>2, <1>3, <1>7 DEF EventInv

\* What a set does, from a task or from an interrupt.
LEMMA SetFields ==
  ASSUME EventInv, NEW e \in Event, NEW bits \in Pattern, SetPattern(e, bits)
  PROVE  LET pattern == dPattern[e] \cup bits
             served  == Served(e, pattern)
         IN  /\ pattern \in Pattern
             /\ served = {t \in TCB : waitOn[t] = e /\ Wants(t, pattern)}
             /\ served \subseteq ToSet(WaitList) /\ served \subseteq ToSet(Fifo[e])
             /\ Moved(Lists, SetLoop(e, bits), served)
             /\ dPattern' \in [Event -> Pattern]
             /\ dPattern'[e] = IF served = {} THEN pattern ELSE {}
             /\ \A x \in Event \ {e} : dPattern'[x] = dPattern[x]
             /\ dEventWaitPattern' \in [TCB -> Pattern]
             /\ \A t \in TCB : dEventWaitPattern'[t] =
                                 IF t \in served THEN pattern ELSE dEventWaitPattern[t]
             /\ \A t \in TCB : waitOn'[t] = IF t \in served THEN NULL ELSE waitOn[t]
             /\ \A t \in TCB : nReturnCode'[t] = IF t \in served THEN "OK" ELSE nReturnCode[t]
             /\ UNCHANGED <<EventWaitMode, clearing>>
<1> DEFINE pattern == dPattern[e] \cup bits
           served  == Served(e, pattern)
<1>1. pattern \in Pattern
  BY DEF EventInv, EventDataOK, Pattern
<1>2. served = {t \in TCB : waitOn[t] = e /\ Wants(t, pattern)} /\ served \subseteq ToSet(Fifo[e])
  BY EventWaiters DEF EventInv, Served, Wants
<1>3. served \subseteq ToSet(WaitList)
  BY <1>2, EventWaiters DEF EventInv
<1>4. Moved(Lists, SetLoop(e, bits), served)
  <2>1. /\ ToSet(Fifo[e]) \subseteq ToSet(WaitList) /\ IsListOf(Fifo[e], Task)
    BY EventWaiters DEF EventInv
  <2>2. ListsOK(Lists) /\ ToSet(Fifo[e]) \cap ToSet(Lists.ready) = {}
    BY <2>1, ListsFields DEF EventInv, SchedInv, Placed
  <2>3. served \subseteq ToSet(Fifo[e]) /\ served \cap ToSet(Lists.ready) = {}
    BY <1>2, <2>2
  <2>4. SetLoop(e, bits) = WaitToReadyAll(Lists, Fifo[e], served)
    BY DEF SetLoop
  <2> HIDE DEF served
  <2> QED
    BY <2>1, <2>2, <2>3, <2>4, WaitToReadyAllMoves
<1>5. /\ dPattern' = [dPattern EXCEPT ![e] = IF served = {} THEN pattern ELSE {}]
      /\ dEventWaitPattern' = [t \in TCB |-> IF t \in served THEN pattern ELSE dEventWaitPattern[t]]
      /\ ClearWait(served, [t \in served |-> "OK"])
      /\ UNCHANGED <<EventWaitMode, clearing>>
  BY DEF SetPattern
<1> HIDE DEF pattern, served
<1>6. /\ dPattern' \in [Event -> Pattern]
      /\ dPattern'[e] = IF served = {} THEN pattern ELSE {}
      /\ \A x \in Event \ {e} : dPattern'[x] = dPattern[x]
  BY <1>1, <1>5 DEF EventInv, EventDataOK, Pattern
<1>7. /\ dEventWaitPattern' \in [TCB -> Pattern]
      /\ \A t \in TCB : dEventWaitPattern'[t] =
                          IF t \in served THEN pattern ELSE dEventWaitPattern[t]
  BY <1>1, <1>5 DEF EventInv, EventDataOK
<1>8. /\ \A t \in TCB : waitOn'[t] = IF t \in served THEN NULL ELSE waitOn[t]
      /\ \A t \in TCB : nReturnCode'[t] = IF t \in served THEN "OK" ELSE nReturnCode[t]
  BY <1>5 DEF ClearWait
<1> QED
  BY <1>1, <1>2, <1>3, <1>4, <1>5, <1>6, <1>7, <1>8 DEF pattern, served

LEMMA EventSetInv ==
  ASSUME EventInv, NEW e \in Event, NEW bits \in Pattern,
         OS_EventSet(RunningTask, e, bits) \/ OS_EventSetFromInt(e, bits)
  PROVE  EventInv'
<1> DEFINE pattern == dPattern[e] \cup bits
           served  == Served(e, pattern)
<1>1. SetPattern(e, bits)
  BY DEF OS_EventSet, OS_EventSetFromInt
<1>2. /\ pattern \in Pattern
      /\ served = {t \in TCB : waitOn[t] = e /\ Wants(t, pattern)}
      /\ served \subseteq ToSet(WaitList)
      /\ Moved(Lists, SetLoop(e, bits), served)
      /\ dPattern' \in [Event -> Pattern]
      /\ dPattern'[e] = IF served = {} THEN pattern ELSE {}
      /\ \A x \in Event \ {e} : dPattern'[x] = dPattern[x]
      /\ dEventWaitPattern' \in [TCB -> Pattern]
      /\ \A t \in TCB : dEventWaitPattern'[t] =
                          IF t \in served THEN pattern ELSE dEventWaitPattern[t]
      /\ \A t \in TCB : waitOn'[t] = IF t \in served THEN NULL ELSE waitOn[t]
      /\ UNCHANGED <<EventWaitMode, clearing>>
  BY <1>1, SetFields
<1>3. /\ "OK" \in ReturnCode /\ ClearWait(served, [t \in served |-> "OK"])
      /\ UNCHANGED <<bIsSchedLocked, nPrio>>
      /\ \/ RunningTask \in Task /\ Reschedule(SetLoop(e, bits), StateAfterWait(served))
         \/ /\ SetLists(SetLoop(e, bits)) /\ State' = StateAfterWait(served)
            /\ UNCHANGED RunningTask
  BY DEF OS_EventSet, OS_EventSetFromInt, SetPattern, SetStates, Caller, ReturnCode
<1> HIDE DEF pattern, served
<1>4. SchedInv'
  BY <1>2, <1>3, WakeInv DEF EventInv
<1>5. EventDataOK'
  BY <1>2 DEF EventInv, EventDataOK
<1>6. UnsatisfiedInv'
  <2>1. \A t \in TCB, x \in Event : waitOn'[t] = x => waitOn[t] = x /\ t \notin served
    BY <1>2, NullIsNoEvent
  <2>2. \A t \in TCB, x \in Event : waitOn'[t] = x => StillWants(t, x)
    BY <1>2, <2>1 DEF StillWants
  <2>3. \A t \in TCB : waitOn'[t] = e => BitsTooFew(t, e)
    BY <1>2, <2>1 DEF BitsTooFew
  <2>4. \A t \in TCB, x \in Event \ {e} : BitsTooFew(t, x)
    BY <1>2 DEF BitsTooFew, EventInv, EventDataOK
  <2>5. \A x \in Event : ClearingTooFew(x)
    BY <1>2 DEF ClearingTooFew
  <2> QED
    BY <2>2, <2>3, <2>4, <2>5, StayUnsatisfied
<1> QED
  BY <1>4, <1>5, <1>6 DEF EventInv

LEMMA EventWaitInv ==
  ASSUME EventInv, clearing = NotClearing, NEW e \in Event, NEW wanted \in Pattern,
         NEW mode \in Mode, NEW ticks \in Timeout,
         OS_EventWait(RunningTask, e, wanted, mode, ticks)
  PROVE  EventInv'
<1> DEFINE t == RunningTask
<1>1. t \in TCB /\ clearing' = {}
  BY CallerRuns DEF OS_EventWait, EventInv, NotClearing
<1>2. CASE /\ dPattern' = [dPattern EXCEPT ![e] = {}]
           /\ UNCHANGED <<schedVars, dEventWaitPattern, EventWaitMode>>
  <2>1. SchedInv' /\ waitOn' = waitOn
    BY <1>2, SchedStutterInv DEF EventInv, schedVars
  <2>2. EventDataOK' /\ \A x \in Event : dPattern'[x] \subseteq dPattern[x]
    BY <1>1, <1>2 DEF EventInv, EventDataOK, Pattern
  <2>3. UnsatisfiedInv'
    BY <1>1, <1>2, <2>1, <2>2, FewerBitsUnsatisfied DEF StillWants, ClearingTooFew
  <2> QED
    BY <2>1, <2>2, <2>3 DEF EventInv
<1>3. CASE UNCHANGED <<schedVars, dEventWaitPattern, EventWaitMode>> /\ UNCHANGED dPattern
  <2>1. SchedInv' /\ waitOn' = waitOn /\ UNCHANGED eventOnlyVars
    BY <1>1, <1>3, SchedStutterInv DEF EventInv, schedVars, eventOnlyVars, NotClearing
  <2> QED
    BY <2>1, EventKept
<1>4. CASE /\ ~Satisfied(dPattern[e], wanted, mode)
           /\ Caller(t) /\ WaitForObject(t, e, ticks)
           /\ dEventWaitPattern' = [dEventWaitPattern EXCEPT ![t] = wanted]
           /\ EventWaitMode' = [EventWaitMode EXCEPT ![t] = mode]
           /\ UNCHANGED dPattern
  <2>1. SchedInv'
    BY <1>4, WaitForObjectInv, EventAssumption DEF EventInv
  <2>2. EventDataOK'
    BY <1>1, <1>4 DEF EventInv, EventDataOK
  <2>3. \A x \in TCB : waitOn'[x] = IF x = t THEN e ELSE waitOn[x]
    BY <1>4 DEF EventInv, SchedInv, Queued, WaitForObject
  <2>4. /\ dEventWaitPattern'[t] = wanted /\ EventWaitMode'[t] = mode
        /\ \A x \in TCB \ {t} : /\ dEventWaitPattern'[x] = dEventWaitPattern[x]
                                /\ EventWaitMode'[x] = EventWaitMode[x]
    BY <1>1, <1>4 DEF EventInv, EventDataOK
  <2>5. UnsatisfiedInv'
    <3> HIDE DEF t
    <3> SUFFICES ASSUME NEW x \in Event, NEW u \in TCB, waitOn'[u] = x
                 PROVE  ~Satisfied(dPattern'[x], dEventWaitPattern'[u], EventWaitMode'[u])
      BY <1>1 DEF UnsatisfiedInv, Wants
    <3>1. CASE u = t
      BY <1>4, <2>3, <2>4, <3>1
    <3>2. CASE u # t
      <4>1. waitOn[u] = x /\ ~Wants(u, dPattern[x])
        BY <2>3, <3>2 DEF EventInv, UnsatisfiedInv
      <4> QED
        BY <1>4, <2>4, <3>2, <4>1 DEF Wants
    <3> QED
      BY <3>1, <3>2
  <2> QED
    BY <2>1, <2>2, <2>5 DEF EventInv
<1> QED
  BY <1>2, <1>3, <1>4 DEF OS_EventWait

LEMMA EventDeleteInv ==
  ASSUME EventInv, NEW e \in Event, OS_EventDelete(RunningTask, e)
  PROVE  EventInv'
<1> DEFINE go == ToSet(Fifo[e])
<1>1. /\ "DELETED" \in ReturnCode /\ ClearWait(go, [x \in go |-> "DELETED"])
      /\ SetLists(WaitToReadyAll(Lists, Fifo[e], go)) /\ State' = StateAfterWait(go)
      /\ dEventWaitPattern' = [x \in TCB |-> IF x \in go THEN {} ELSE dEventWaitPattern[x]]
      /\ UNCHANGED <<bIsSchedLocked, RunningTask, nPrio, dPattern, EventWaitMode, clearing>>
  BY DEF OS_EventDelete, WakeAll, ReturnCode
<1>2. /\ go \subseteq ToSet(WaitList) /\ IsListOf(Fifo[e], Task)
  BY EventWaiters DEF EventInv
<1>3. ListsOK(Lists) /\ go \cap ToSet(Lists.ready) = {}
  BY <1>2, ListsFields DEF EventInv, SchedInv, Placed
<1>4. Moved(Lists, WaitToReadyAll(Lists, Fifo[e], go), go)
  BY <1>2, <1>3, WaitToReadyAllMoves
<1> HIDE DEF go
<1>5. SchedInv'
  BY <1>1, <1>2, <1>4, WakeInv DEF EventInv
<1>6. EventDataOK'
  BY <1>1 DEF EventInv, EventDataOK, Pattern
<1>7. \A t \in TCB, x \in Event : waitOn'[t] = x => StillWants(t, x)
  BY <1>1, NullIsNoEvent DEF ClearWait, StillWants
<1>8. UnsatisfiedInv'
  BY <1>1, <1>7, FewerBitsUnsatisfied DEF ClearingTooFew
<1> QED
  BY <1>5, <1>6, <1>8 DEF EventInv

LEMMA EventClrInv ==
  ASSUME EventInv,
         \/ OS_EventClrStore
         \/ \E e \in Event, bits \in Pattern : OS_EventClrLoad(RunningTask, e, bits)
  PROVE  EventInv'
<1>1. SchedInv' /\ waitOn' = waitOn /\ UNCHANGED <<dEventWaitPattern, EventWaitMode>>
  BY SchedStutterInv DEF EventInv, OS_EventClrStore, OS_EventClrLoad, schedVars
<1>2. CASE OS_EventClrStore
  <2>1. clearing' = {}
    BY <1>2 DEF OS_EventClrStore, NotClearing
  <2>2. \A e \in Event : \/ dPattern'[e] = dPattern[e]
                         \/ \E v \in Pattern : <<e, v>> \in clearing /\ dPattern'[e] = v
    BY <1>2 DEF OS_EventClrStore
  <2>3. EventDataOK'
    BY <1>1, <1>2, <2>1, <2>2 DEF EventInv, EventDataOK, OS_EventClrStore
  <2>4. \A t \in TCB, e \in Event : BitsTooFew(t, e)
    BY <2>2 DEF BitsTooFew, EventInv, EventDataOK
  <2>5. UnsatisfiedInv'
    BY <1>1, <2>1, <2>4, StayUnsatisfied DEF StillWants, ClearingTooFew
  <2> QED
    BY <1>1, <2>3, <2>5 DEF EventInv
<1>3. CASE \E e \in Event, bits \in Pattern : OS_EventClrLoad(RunningTask, e, bits)
  <2>1. PICK e \in Event, bits \in Pattern : OS_EventClrLoad(RunningTask, e, bits)
    BY <1>3
  <2>2. clearing' = {<<e, dPattern[e] \ bits>>} /\ dPattern' = dPattern
    BY <2>1 DEF OS_EventClrLoad
  <2>3. EventDataOK'
    BY <1>1, <2>2 DEF EventInv, EventDataOK, Pattern
  <2>4. \A x \in Event : ClearingTooFew(x)
    BY <2>2 DEF ClearingTooFew
  <2>5. UnsatisfiedInv'
    BY <1>1, <2>2, <2>4, FewerBitsUnsatisfied DEF StillWants
  <2> QED
    BY <1>1, <2>3, <2>5 DEF EventInv
<1> QED
  BY <1>2, <1>3

LEMMA EventTaskInv == ASSUME EventInv, EventTaskNext PROVE EventInv'
<1>1. PICK e \in Event, bits \in Pattern \ {{}} :
        \/ OS_EventSet(RunningTask, e, bits)
        \/ \E mode \in Mode, ticks \in Timeout :
             OS_EventWait(RunningTask, e, bits, mode, ticks)
        \/ OS_EventDelete(RunningTask, e)
        \/ OS_EventClrLoad(RunningTask, e, bits)
  BY DEF EventTaskNext
<1>2. clearing = NotClearing /\ bits \in Pattern
  BY DEF EventTaskNext
<1> QED
  BY <1>1, <1>2, EventSetInv, EventWaitInv, EventDeleteInv, EventClrInv

LEMMA EventIntInv == ASSUME EventInv, EventIntNext PROVE EventInv'
<1>1. PICK e \in Event, bits \in Pattern : OS_EventSetFromInt(e, bits)
  BY DEF EventIntNext
<1> QED
  BY <1>1, EventSetInv

LEMMA EventNextInv == EventInv /\ [EventNext]_eventVars => EventInv'
<1> SUFFICES ASSUME EventInv, [EventNext]_eventVars PROVE EventInv'
  OBVIOUS
<1>1. CASE UNCHANGED eventVars
  <2>1. SchedInv' /\ waitOn' = waitOn /\ UNCHANGED eventOnlyVars
    BY <1>1, SchedStutterInv DEF EventInv, eventVars, schedVars, eventOnlyVars
  <2> QED
    BY <2>1, EventKept
<1> QED
  BY <1>1, EventSchedInv, EventTickInv, EventTaskInv, EventClrInv, EventIntInv DEF EventNext

\* The inductive invariant holds in every state of the kernel.
THEOREM EventInvariant == EventSpec => []EventInv
  BY EventInitInv, EventNextInv, PTL DEF EventSpec

\* Type correctness of the scheduler with its event groups.
THEOREM EventTypeCorrect == EventSpec => []EventTypeOK
<1>1. EventInv => EventTypeOK
  BY SchedInvMeans DEF EventInv, EventDataOK, EventTypeOK
<1> QED
  BY <1>1, EventInvariant, PTL

LEMMA EventInvMeans == EventInv => NoSatisfiedWaiter
  BY EventWaiters DEF EventInv, UnsatisfiedInv, Wants, Served, NoSatisfiedWaiter

\* No waiter sleeps on bits that are set, whatever modes are mixed on a FIFO and
\* wherever interrupts set bits during OS_EventClr.
THEOREM NoWaiterSatisfied == EventSpec => []NoSatisfiedWaiter
  BY EventInvMeans, EventInvariant, PTL

EventsKept ==
  \A e \in Event :
    /\ \A bits \in Pattern :
         (OS_EventSetFromInt(e, bits) \/ OS_EventSet(RunningTask, e, bits)) =>
            \/ dPattern[e] \cup bits \subseteq dPattern'[e]
            \/ ShownToWaiter(e, dPattern[e] \cup bits)
    /\ ~(dPattern[e] \subseteq dPattern'[e]) =>
            \/ ShownToWaiter(e, dPattern[e])
            \/ dPattern'[e] = {} /\ UNCHANGED schedVars
            \/ clearing # NotClearing

LEMMA EventsKeptStep ==
  ASSUME EventInv, [EventNext]_eventVars \/ UNCHANGED eventOnlyVars
  PROVE  EventsKept
<1>1. ASSUME NEW e \in Event, NEW bits \in Pattern, SetPattern(e, bits)
      PROVE  /\ \/ dPattern[e] \cup bits \subseteq dPattern'[e]
                \/ ShownToWaiter(e, dPattern[e] \cup bits)
             /\ \A x \in Event \ {e} : dPattern'[x] = dPattern[x]
  <2> DEFINE pattern == dPattern[e] \cup bits
             served  == Served(e, pattern)
  <2>1. /\ served \subseteq ToSet(Fifo[e]) /\ ToSet(Fifo[e]) \subseteq TCB
        /\ dPattern'[e] = IF served = {} THEN pattern ELSE {}
        /\ \A t \in TCB : dEventWaitPattern'[t] =
                             IF t \in served THEN pattern ELSE dEventWaitPattern[t]
        /\ \A t \in TCB : nReturnCode'[t] = IF t \in served THEN "OK" ELSE nReturnCode[t]
        /\ \A x \in Event \ {e} : dPattern'[x] = dPattern[x]
    BY <1>1, SetFields, EventWaiters DEF EventInv, TCB
  <2> HIDE DEF pattern, served
  <2>2. CASE served = {}
    BY <2>1, <2>2 DEF pattern
  <2>3. CASE served # {}
    <3>1. PICK t \in served : TRUE
      BY <2>3
    <3>2. t \in ToSet(Fifo[e]) /\ nReturnCode'[t] = "OK" /\ dEventWaitPattern'[t] = pattern
      BY <2>1, <3>1
    <3>3. ShownToWaiter(e, pattern)
      BY <3>2 DEF ShownToWaiter
    <3> QED
      BY <2>1, <3>3 DEF pattern
  <2> QED
    BY <2>1, <2>2, <2>3
<1>2. ASSUME NEW e \in Event, NEW bits \in Pattern,
             OS_EventSetFromInt(e, bits) \/ OS_EventSet(RunningTask, e, bits)
      PROVE  \/ dPattern[e] \cup bits \subseteq dPattern'[e]
             \/ ShownToWaiter(e, dPattern[e] \cup bits)
  BY <1>1, <1>2 DEF OS_EventSetFromInt, OS_EventSet
<1>3. ASSUME NEW e \in Event, ~(dPattern[e] \subseteq dPattern'[e])
      PROVE  \/ ShownToWaiter(e, dPattern[e])
             \/ dPattern'[e] = {} /\ UNCHANGED schedVars
             \/ clearing # NotClearing
  <2>1. CASE \E x \in Event, bits \in Pattern : SetPattern(x, bits)
    <3>1. PICK x \in Event, bits \in Pattern : SetPattern(x, bits)
      BY <2>1
    <3>2. x = e /\ ShownToWaiter(e, dPattern[e] \cup bits)
      BY <1>1, <1>3, <3>1
    <3> QED
      BY <3>2 DEF ShownToWaiter
  <2>2. CASE \E x \in Event, wanted \in Pattern, mode \in Mode, ticks \in Timeout :
               OS_EventWait(RunningTask, x, wanted, mode, ticks)
    <3>1. PICK x \in Event : \/ dPattern' = [dPattern EXCEPT ![x] = {}] /\ UNCHANGED schedVars
                             \/ UNCHANGED dPattern
      BY <2>2 DEF OS_EventWait
    <3> QED
      BY <1>3, <3>1 DEF EventInv, EventDataOK
  <2>3. CASE OS_EventClrStore
    BY <2>3 DEF OS_EventClrStore
  <2>4. CASE UNCHANGED dPattern
    BY <1>3, <2>4
  <2> QED
    BY <1>3, <2>1, <2>2, <2>3, <2>4
       DEF EventNext, EventSchedNext, EventTaskNext, EventIntNext, OS_EventSet,
           OS_EventSetFromInt, OS_EventDelete, OS_EventClrLoad, eventVars, eventOnlyVars
<1> QED
  BY <1>2, <1>3 DEF EventsKept

\* Bits that are set stay set or are shown to a waiter, and leave a group only into
\* the hands of a task or by OS_EventClr.
THEOREM EventsAreNotLost == EventSpec => NoEventLost
<1>1. EventInv /\ [EventNext]_eventVars => [EventsKept]_eventVars
  BY EventsKeptStep
<1>2. EventSpec => [][EventsKept]_eventVars
  BY <1>1, EventInvariant, PTL DEF EventSpec
<1> QED
  BY <1>2 DEF EventsKept, NoEventLost

Shown(t) == Satisfied(dEventWaitPattern'[t], dEventWaitPattern[t], EventWaitMode[t])

ReleasedSatisfied ==
  \A e \in Event : \A t \in ToSet(Fifo[e]) :
    (t \notin ToSet(Fifo'[e]) /\ nReturnCode'[t] = "OK") => Shown(t)

LEMMA ReleasedStep ==
  ASSUME EventInv, EventInv',
         \/ [EventNext]_eventVars
         \/ \A t \in TCB : waitOn[t] \in Event => waitOn'[t] = waitOn[t]
  PROVE  ReleasedSatisfied
<1> SUFFICES ASSUME NEW e \in Event, NEW t \in ToSet(Fifo[e]),
                    t \notin ToSet(Fifo'[e]), nReturnCode'[t] = "OK"
             PROVE  Shown(t)
  BY DEF ReleasedSatisfied
<1>1. t \in TCB /\ waitOn[t] = e /\ waitOn'[t] # e
  <2>1. t \in TCB /\ waitOn[t] = e
    BY EventWaiters DEF EventInv
  <2>2. ListsOK(Lists') /\ Queued(Lists', waitOn', dTimeoutTicks')
    BY DEF EventInv, SchedInv, Placed
  <2>3. ToSet(Fifo'[e]) = {x \in TCB : waitOn'[x] = e}
    BY <2>2, QueuedWaiters, EventAssumption, ListsFields
  <2> QED
    BY <2>1, <2>3
<1>2. CASE \E x \in Event, bits \in Pattern : SetPattern(x, bits)
  <2>1. PICK x \in Event, bits \in Pattern : SetPattern(x, bits)
    BY <1>2
  <2> DEFINE pattern == dPattern[x] \cup bits
             served  == Served(x, pattern)
  <2>2. /\ served = {u \in TCB : waitOn[u] = x /\ Wants(u, pattern)}
        /\ \A u \in TCB : dEventWaitPattern'[u] =
                            IF u \in served THEN pattern ELSE dEventWaitPattern[u]
        /\ \A u \in TCB : waitOn'[u] = IF u \in served THEN NULL ELSE waitOn[u]
    BY <2>1, SetFields
  <2> HIDE DEF pattern, served
  <2>3. dEventWaitPattern'[t] = pattern /\ Wants(t, pattern)
    BY <1>1, <2>2
  <2> QED
    BY <2>3 DEF Wants, Shown
<1>3. CASE SchedNext
  BY <1>1, <1>3, SchedStepWaits, NullIsNoEvent DEF EventInv
<1>4. CASE UNCHANGED waitOn
  BY <1>1, <1>4
<1>5. CASE \E x \in Event : OS_EventDelete(RunningTask, x)
  BY <1>1, <1>5 DEF OS_EventDelete, WakeAll, ClearWait
<1>6. CASE \E x \in Event, wanted \in Pattern, mode \in Mode, ticks \in Timeout :
             OS_EventWait(RunningTask, x, wanted, mode, ticks)
  <2>1. PICK x \in Event, wanted \in Pattern, mode \in Mode, ticks \in Timeout :
               OS_EventWait(RunningTask, x, wanted, mode, ticks)
    BY <1>6
  <2>2. CASE UNCHANGED schedVars
    BY <1>1, <2>2 DEF schedVars
  <2>3. CASE Caller(RunningTask) /\ WaitForObject(RunningTask, x, ticks)
    <3>1. RunningTask \notin ToSet(WaitList) /\ t \in ToSet(WaitList)
      BY <2>3, EventWaiters, ListsFields DEF EventInv, SchedInv, Placed
    <3>2. t # RunningTask /\ waitOn \in [TCB -> Object \cup {NULL}]
      BY <3>1 DEF EventInv, SchedInv, Queued
    <3>3. waitOn'[t] = waitOn[t]
      BY <1>1, <2>3, <3>2 DEF WaitForObject
    <3> QED
      BY <1>1, <3>3
  <2> QED
    BY <2>1, <2>2, <2>3 DEF OS_EventWait
<1>7. CASE \A u \in TCB : waitOn[u] \in Event => waitOn'[u] = waitOn[u]
  BY <1>1, <1>7
<1> QED
  BY <1>2, <1>3, <1>4, <1>5, <1>6, <1>7
     DEF EventNext, EventSchedNext, EventTaskNext, EventIntNext, OS_EventSet,
         OS_EventSetFromInt, OS_EventClrLoad, OS_EventClrStore, eventVars, schedVars, SchedNext

\* A waiter that is released with OS_RC_OK is shown a pattern that satisfies it.
THEOREM ReleaseMeansSatisfied == EventSpec => ReleasedOnlyWhenSatisfied
<1>1. EventInv /\ EventInv' /\ [EventNext]_eventVars => [ReleasedSatisfied]_eventVars
  BY ReleasedStep
<1>2. EventSpec => [][ReleasedSatisfied]_eventVars
  BY <1>1, EventInvariant, PTL DEF EventSpec
<1> QED
  BY <1>2 DEF ReleasedSatisfied, Shown, ReleasedOnlyWhenSatisfied

-----------------------------------------------------------------------------
(* The whole kernel.  Each kind of object keeps its own invariant while the  *)
(* others are used: a step on an object of one kind starts waits for that    *)
(* object only, and the kinds are disjoint.                                  *)

KernelInv == SemaInv /\ MutexInv /\ EventInv

\* No wait for an object of kind Kind begins.
NoNewWaiter(Kind) == \A t \in TCB, o \in Kind : waitOn'[t] = o => waitOn[t] = o

LEMMA SemaKept ==
  ASSUME SemaInv, SchedInv', UNCHANGED semaCounter, NoNewWaiter(Sema)
  PROVE  SemaInv'
  BY DEF SemaInv, TokenInv, NoNewWaiter

LEMMA MutexKept ==
  ASSUME MutexInv, SchedInv', UNCHANGED mutexOnlyVars, NoNewWaiter(Mutex)
  PROVE  MutexInv'
  BY DEF MutexInv, HeldInv, NoNewWaiter, mutexOnlyVars

\* What a step may do to the wait pointers, by the kind of its object.
WaitsOnlyFor(Kind) == \A t \in TCB : waitOn'[t] \in {waitOn[t], NULL} \cup Kind

LEMMA SchedWaits == ASSUME SchedInv, SchedNext PROVE WaitsOnlyFor({})
  BY SchedStepWaits DEF WaitsOnlyFor

LEMMA StutterWaits == ASSUME UNCHANGED schedVars, NEW Kind PROVE WaitsOnlyFor(Kind)
  BY DEF schedVars, WaitsOnlyFor

LEMMA ClearWaits == ASSUME NEW go, NEW code, ClearWait(go, code), NEW Kind PROVE WaitsOnlyFor(Kind)
  BY DEF ClearWait, WaitsOnlyFor

LEMMA ObjectWaits ==
  ASSUME SchedInv, NEW Kind, NEW o \in Kind, NEW t, NEW ticks, WaitForObject(t, o, ticks)
  PROVE  WaitsOnlyFor(Kind)
  BY DEF SchedInv, Queued, WaitForObject, WaitsOnlyFor

LEMMA SemaWaits ==
  ASSUME SchedInv, SemaTaskNext \/ SemaIntNext
  PROVE  WaitsOnlyFor(Sema)
<1>1. CASE UNCHANGED schedVars
  BY <1>1, StutterWaits
<1>2. CASE \E go, code : ClearWait(go, code)
  BY <1>2, ClearWaits
<1>3. CASE \E s \in Sema, ticks \in Timeout : WaitForObject(RunningTask, s, ticks)
  BY <1>3, ObjectWaits
<1> QED
  BY <1>1, <1>2, <1>3
     DEF SemaTaskNext, SemaIntNext, OS_SemaSignal, OS_SemaSignalFromInt, OS_SemaWait,
         OS_SemaReset, OS_SemaDelete, SemaCountUp, SemaHandOver, SemaTake, WakeFirst, WakeAll

LEMMA MutexWaits ==
  ASSUME SchedInv, MutexTaskNext \/ MutexIntNext
  PROVE  WaitsOnlyFor(Mutex)
<1>1. CASE UNCHANGED schedVars
  BY <1>1, StutterWaits
<1>2. CASE \E go, code : ClearWait(go, code)
  BY <1>2, ClearWaits
<1>3. CASE \E m \in Mutex, ticks \in Timeout : WaitForObject(RunningTask, m, ticks)
  BY <1>3, ObjectWaits
<1> QED
  BY <1>1, <1>2, <1>3
     DEF MutexTaskNext, MutexIntNext, OS_MutexSignal, OS_MutexSignalFromInt, OS_MutexWait,
         MutexHandOver, MutexCountDown, MutexTake, WakeFirst

LEMMA EventWaits ==
  ASSUME SchedInv, EventTaskNext \/ EventIntNext \/ OS_EventClrStore
  PROVE  WaitsOnlyFor(Event)
<1>1. CASE UNCHANGED schedVars
  BY <1>1, StutterWaits
<1>2. CASE \E go, code : ClearWait(go, code)
  BY <1>2, ClearWaits
<1>3. CASE \E e \in Event, ticks \in Timeout : WaitForObject(RunningTask, e, ticks)
  BY <1>3, ObjectWaits
<1> QED
  BY <1>1, <1>2, <1>3
     DEF EventTaskNext, EventIntNext, OS_EventSet, OS_EventSetFromInt, OS_EventWait,
         OS_EventDelete, OS_EventClrLoad, OS_EventClrStore, SetPattern, WakeAll

LEMMA OtherKinds ==
  ASSUME NEW Kind, WaitsOnlyFor(Kind), NEW Other, Other \subseteq Object, Other \cap Kind = {}
  PROVE  NoNewWaiter(Other)
  BY NullAssumption DEF WaitsOnlyFor, NoNewWaiter

LEMMA KernelInitInv == KernelInit => KernelInv
<1>1. KernelInit => SemaInit /\ MutexInit /\ EventInit
  BY DEF KernelInit, SemaInit, MutexInit, EventInit
<1> QED
  BY <1>1, SemaInitInv, MutexInitInv, EventInitInv DEF KernelInv

LEMMA KernelNextInv == KernelInv /\ [KernelNext]_kernelVars => KernelInv'
<1> SUFFICES ASSUME KernelInv, [KernelNext]_kernelVars PROVE KernelInv'
  OBVIOUS
<1> USE DEF KernelInv
<1>0. SchedInv
  BY DEF EventInv
<1>1. CASE EventSchedNext /\ UNCHANGED <<semaCounter, mutexOnlyVars>>
  <2>1. SchedNext
    BY <1>1 DEF EventSchedNext, SchedNext
  <2> QED
    BY <1>1, <2>1, EventSchedInv, SchedKeepsTokens, SchedKeepsHeld
<1>2. CASE HandleWaitList /\ UNCHANGED <<semaCounter, mutexOnlyVars, eventOnlyVars>>
  <2>1. SchedNext
    BY <1>2 DEF SchedNext
  <2> QED
    BY <1>2, <2>1, EventTickInv, SchedKeepsTokens, SchedKeepsHeld
<1>3. CASE (SemaTaskNext \/ SemaIntNext) /\ UNCHANGED <<mutexOnlyVars, eventOnlyVars>>
  <2>1. SemaInv' /\ SchedInv'
    BY <1>3, SemaNextInv DEF SemaNext, SemaInv
  <2>2. NoNewWaiter(Mutex) /\ NoNewWaiter(Event)
    <3>1. WaitsOnlyFor(Sema)
      BY <1>0, <1>3, SemaWaits
    <3> QED
      BY <3>1, OtherKinds, ObjectAssumption
  <2> QED
    BY <1>3, <2>1, <2>2, MutexKept, EventKept DEF NoNewWaiter
<1>4. CASE (MutexTaskNext \/ MutexIntNext) /\ UNCHANGED <<semaCounter, eventOnlyVars>>
  <2>1. MutexInv' /\ SchedInv'
    BY <1>4, MutexNextInv DEF MutexNext, MutexInv
  <2>2. NoNewWaiter(Sema) /\ NoNewWaiter(Event)
    <3>1. WaitsOnlyFor(Mutex)
      BY <1>0, <1>4, MutexWaits
    <3> QED
      BY <3>1, OtherKinds, ObjectAssumption
  <2> QED
    BY <1>4, <2>1, <2>2, SemaKept, EventKept DEF NoNewWaiter
<1>5. CASE /\ EventTaskNext \/ EventIntNext \/ OS_EventClrStore
           /\ UNCHANGED <<semaCounter, mutexOnlyVars>>
  <2>1. EventInv' /\ SchedInv'
    BY <1>5, EventNextInv DEF EventNext, EventInv
  <2>2. NoNewWaiter(Sema) /\ NoNewWaiter(Mutex)
    <3>1. WaitsOnlyFor(Event)
      BY <1>0, <1>5, EventWaits
    <3> QED
      BY <3>1, OtherKinds, ObjectAssumption
  <2> QED
    BY <1>5, <2>1, <2>2, SemaKept, MutexKept
<1>6. CASE UNCHANGED kernelVars
  <2>1. UNCHANGED semaVars /\ UNCHANGED mutexVars /\ UNCHANGED eventVars
    BY <1>6 DEF kernelVars, semaVars, mutexVars, eventVars, mutexOnlyVars, eventOnlyVars
  <2> QED
    BY <2>1, SemaNextInv, MutexNextInv, EventNextInv
<1> QED
  BY <1>1, <1>2, <1>3, <1>4, <1>5, <1>6 DEF KernelNext, TaskStep, InterruptStep

\* The invariants of the three kinds of objects hold together in every state.
THEOREM KernelInvariant == KernelSpec => []KernelInv
  BY KernelInitInv, KernelNextInv, PTL DEF KernelSpec

\* In the whole kernel no task sleeps although what it waits for is there.
THEOREM NobodySleepsForNothing == KernelSpec => []NobodySleepsInVain
<1>1. KernelInv => NoWaitWithToken /\ MutexConsistent /\ NoSatisfiedWaiter
  BY SemaInvMeans, MutexInvMeans, EventInvMeans DEF KernelInv
<1> QED
  BY <1>1, KernelInvariant, PTL DEF NobodySleepsInVain
-----------------------------------------------------------------------------
(* The kernel and its parts.  A step on an object of one kind is a step of   *)
(* that kind's own specification, and ends or begins no wait for an object   *)
(* of another kind.  So what holds of the semaphores, the mutexes and the    *)
(* event groups alone holds of them when tasks use all three together.       *)

\* Only waits for objects of kind Kind end, and only tasks that wait for nothing
\* begin to wait.
WakesOnly(Kind) ==
  \A t \in TCB : \/ waitOn[t] \in {NULL} \cup Kind
                 \/ waitOn'[t] = waitOn[t] /\ nReturnCode'[t] = nReturnCode[t]

\* The waits for objects of kind Kind are the same after the step.
Untouched(Kind) ==
  /\ NoNewWaiter(Kind)
  /\ \A t \in TCB : waitOn[t] \in Kind =>
       waitOn'[t] = waitOn[t] /\ nReturnCode'[t] = nReturnCode[t]

LEMMA StutterWakes == ASSUME UNCHANGED schedVars, NEW Kind PROVE WakesOnly(Kind)
  BY DEF schedVars, WakesOnly

LEMMA ClearWakes ==
  ASSUME SchedInv, NEW Kind, Kind \subseteq Object, NEW o \in Kind,
         NEW go, go \subseteq ToSet(Fifo[o]), NEW code, ClearWait(go, code)
  PROVE  WakesOnly(Kind)
<1>1. \A t \in go : waitOn[t] = o
  BY ObjectWaiters
<1>2. \A t \in TCB : t \notin go => waitOn'[t] = waitOn[t] /\ nReturnCode'[t] = nReturnCode[t]
  BY DEF ClearWait
<1> QED
  BY <1>1, <1>2 DEF WakesOnly

LEMMA FirstWakes ==
  ASSUME SchedInv, NEW Kind, Kind \subseteq Object, NEW o \in Kind, Fifo[o] # <<>>,
         NEW code, WakeFirst(o, code)
  PROVE  WakesOnly(Kind)
<1>1. IsListOf(Fifo[o], Task)
  BY ObjectWaiters
<1>2. {Head(Fifo[o])} \subseteq ToSet(Fifo[o])
  BY <1>1, HeadTailList
<1> QED
  BY <1>2, ClearWakes DEF WakeFirst

LEMMA AllWakes ==
  ASSUME SchedInv, NEW Kind, Kind \subseteq Object, NEW o \in Kind, NEW code, WakeAll(o, code)
  PROVE  WakesOnly(Kind)
  BY ClearWakes DEF WakeAll

LEMMA CallerWakes ==
  ASSUME SchedInv, NEW Kind, NEW o, NEW ticks, Caller(RunningTask),
         WaitForObject(RunningTask, o, ticks)
  PROVE  WakesOnly(Kind)
<1>1. waitOn[RunningTask] = NULL
  BY CallerRuns DEF SchedInv, Placed, Queued
<1>2. \A t \in TCB : t # RunningTask =>
                       waitOn'[t] = waitOn[t] /\ nReturnCode'[t] = nReturnCode[t]
  BY DEF WaitForObject, SchedInv, Queued
<1> QED
  BY <1>1, <1>2 DEF WakesOnly

LEMMA SemaWakes == ASSUME SchedInv, SemaTaskNext \/ SemaIntNext PROVE WakesOnly(Sema)
<1>1. CASE UNCHANGED schedVars
  BY <1>1, StutterWakes
<1>2. CASE \E s \in Sema : SemaHandOver(s)
  BY <1>2, FirstWakes, SemaAssumption DEF SemaHandOver
<1>3. CASE \E s \in Sema, code \in {"RESETED", "DELETED"} : WakeAll(s, code)
  BY <1>3, AllWakes, SemaAssumption
<1>4. CASE \E s \in Sema, ticks \in Timeout :
             Caller(RunningTask) /\ WaitForObject(RunningTask, s, ticks)
  BY <1>4, CallerWakes
<1> QED
  BY <1>1, <1>2, <1>3, <1>4
     DEF SemaTaskNext, SemaIntNext, OS_SemaSignal, OS_SemaSignalFromInt, OS_SemaWait,
         OS_SemaReset, OS_SemaDelete, SemaCountUp, SemaTake

LEMMA MutexWakes == ASSUME SchedInv, MutexTaskNext \/ MutexIntNext PROVE WakesOnly(Mutex)
<1>1. CASE UNCHANGED schedVars
  BY <1>1, StutterWakes
<1>2. CASE \E m \in Mutex : MutexHandOver(m)
  BY <1>2, FirstWakes, MutexAssumption DEF MutexHandOver
<1>3. CASE \E m \in Mutex, ticks \in Timeout :
             Caller(RunningTask) /\ WaitForObject(RunningTask, m, ticks)
  BY <1>3, CallerWakes
<1> QED
  BY <1>1, <1>2, <1>3
     DEF MutexTaskNext, MutexIntNext, OS_MutexSignal, OS_MutexSignalFromInt, OS_MutexWait,
         MutexCountDown, MutexTake

LEMMA EventWakes ==
  ASSUME EventInv, EventTaskNext \/ EventIntNext \/ OS_EventClrStore
  PROVE  WakesOnly(Event)
<1>0. SchedInv
  BY DEF EventInv
<1>1. CASE UNCHANGED schedVars
  BY <1>1, StutterWakes
<1>2. CASE \E e \in Event, bits \in Pattern : SetPattern(e, bits)
  <2>1. PICK e \in Event, bits \in Pattern : SetPattern(e, bits)
    BY <1>2
  <2> DEFINE served == Served(e, dPattern[e] \cup bits)
  <2>2. served \subseteq ToSet(Fifo[e]) /\ ClearWait(served, [t \in served |-> "OK"])
    BY <2>1, SetFields DEF SetPattern
  <2> HIDE DEF served
  <2> QED
    BY <1>0, <2>2, ClearWakes, EventAssumption
<1>3. CASE \E e \in Event : WakeAll(e, "DELETED")
  BY <1>0, <1>3, AllWakes, EventAssumption
<1>4. CASE \E e \in Event, ticks \in Timeout :
             Caller(RunningTask) /\ WaitForObject(RunningTask, e, ticks)
  BY <1>0, <1>4, CallerWakes
<1> QED
  BY <1>1, <1>2, <1>3, <1>4
     DEF EventTaskNext, EventIntNext, OS_EventSet, OS_EventSetFromInt, OS_EventWait,
         OS_EventDelete, OS_EventClrLoad, OS_EventClrStore

LEMMA OtherKindsUntouched ==
  ASSUME NEW Kind, WaitsOnlyFor(Kind), WakesOnly(Kind),
         NEW Other, Other \subseteq Object, Other \cap Kind = {}
  PROVE  Untouched(Other)
  BY OtherKinds, NullAssumption DEF WakesOnly, Untouched

\* A step of the kernel, seen from one kind of object.
LEMMA KernelStepIs ==
  ASSUME KernelInv, [KernelNext]_kernelVars
  PROVE  /\ \/ [SemaNext]_semaVars
            \/ UNCHANGED semaCounter /\ Untouched(Sema)
         /\ \/ [MutexNext]_mutexVars
            \/ UNCHANGED mutexOnlyVars /\ Untouched(Mutex)
         /\ \/ [EventNext]_eventVars
            \/ UNCHANGED eventOnlyVars /\ Untouched(Event)
<1>0. SchedInv /\ EventInv
  BY DEF KernelInv, EventInv
<1>1. CASE EventSchedNext /\ UNCHANGED <<semaCounter, mutexOnlyVars>>
  BY <1>1 DEF SemaNext, MutexNext, EventNext, EventSchedNext, SchedNext
<1>2. CASE HandleWaitList /\ UNCHANGED <<semaCounter, mutexOnlyVars, eventOnlyVars>>
  BY <1>2 DEF SemaNext, MutexNext, EventNext, SchedNext
<1>3. CASE (SemaTaskNext \/ SemaIntNext) /\ UNCHANGED <<mutexOnlyVars, eventOnlyVars>>
  <2>1. WaitsOnlyFor(Sema) /\ WakesOnly(Sema)
    BY <1>0, <1>3, SemaWaits, SemaWakes
  <2>2. Untouched(Mutex) /\ Untouched(Event)
    BY <2>1, OtherKindsUntouched, ObjectAssumption
  <2> QED
    BY <1>3, <2>2 DEF SemaNext
<1>4. CASE (MutexTaskNext \/ MutexIntNext) /\ UNCHANGED <<semaCounter, eventOnlyVars>>
  <2>1. WaitsOnlyFor(Mutex) /\ WakesOnly(Mutex)
    BY <1>0, <1>4, MutexWaits, MutexWakes
  <2>2. Untouched(Sema) /\ Untouched(Event)
    BY <2>1, OtherKindsUntouched, ObjectAssumption
  <2> QED
    BY <1>4, <2>2 DEF MutexNext
<1>5. CASE /\ EventTaskNext \/ EventIntNext \/ OS_EventClrStore
           /\ UNCHANGED <<semaCounter, mutexOnlyVars>>
  <2>1. WaitsOnlyFor(Event) /\ WakesOnly(Event)
    BY <1>0, <1>5, EventWaits, EventWakes
  <2>2. Untouched(Sema) /\ Untouched(Mutex)
    BY <2>1, OtherKindsUntouched, ObjectAssumption
  <2> QED
    BY <1>5, <2>2 DEF EventNext
<1>6. CASE UNCHANGED kernelVars
  BY <1>6 DEF kernelVars, semaVars, mutexVars, eventVars, mutexOnlyVars, eventOnlyVars
<1> QED
  BY <1>1, <1>2, <1>3, <1>4, <1>5, <1>6 DEF KernelNext, TaskStep, InterruptStep
-----------------------------------------------------------------------------
(* The order in which waiters are served, in the whole kernel.               *)

\* Tasks on the FIFO of e become ready, by a set or a delete.
LEMMA EventWakeOrder ==
  ASSUME EventInv, OrderInv, NEW e \in Event, NEW go, go \subseteq ToSet(Fifo[e]), NEW st,
         UNCHANGED nPrio,
         LET M == WaitToReadyAll(Lists, Fifo[e], go)
         IN  \/ RunningTask \in Task /\ Reschedule(M, st)
             \/ SetLists(M) /\ UNCHANGED RunningTask
  PROVE  OrderStep
<1> DEFINE M == WaitToReadyAll(Lists, Fifo[e], go)
<1>1. ToSet(Fifo[e]) \subseteq ToSet(WaitList) /\ IsListOf(Fifo[e], Task)
  BY EventWaiters DEF EventInv
<1>2. /\ ListsOK(Lists) /\ nPrio \in [TCB -> Nat]
      /\ ToSet(Lists.ready) \cap ToSet(Lists.wait) = {}
  BY DEF EventInv, SchedInv, Placed
<1>3. ToSet(Fifo[e]) \subseteq ToSet(Lists.wait) /\ go \cap ToSet(Lists.ready) = {}
  BY <1>1, <1>2, ListsFields
<1>4. WaitOrder(Lists.wait, Fifo[e], nPrio)
  BY EventAssumption, ListsFields DEF OrderInv, SortedLists
<1>5. Orderly(Lists, M, nPrio)
  BY <1>1, <1>2, <1>3, <1>4, OrderlyMovedAll
<1>6. Moved(Lists, M, go)
  BY <1>1, <1>2, <1>3, WaitToReadyAllMoves
<1>7. /\ go \subseteq ToSet(WaitList)
      /\ \/ RunningTask \in TCB /\ Reschedule(M, st)
         \/ SetLists(M) /\ UNCHANGED RunningTask
  BY <1>1 DEF TCB
<1> HIDE DEF M
<1> QED
  BY <1>5, <1>6, <1>7, WakeOrder DEF EventInv

LEMMA EventSetOrder ==
  ASSUME EventInv, OrderInv, NEW e \in Event, NEW bits \in Pattern,
         OS_EventSet(RunningTask, e, bits) \/ OS_EventSetFromInt(e, bits)
  PROVE  OrderStep
<1> DEFINE served == Served(e, dPattern[e] \cup bits)
<1>1. SetPattern(e, bits)
  BY DEF OS_EventSet, OS_EventSetFromInt
<1>2. served \subseteq ToSet(Fifo[e]) /\ UNCHANGED nPrio
  BY <1>1, SetFields DEF SetPattern
<1>3. LET M == WaitToReadyAll(Lists, Fifo[e], served)
      IN  \/ RunningTask \in Task /\ Reschedule(M, StateAfterWait(served))
          \/ SetLists(M) /\ UNCHANGED RunningTask
  BY DEF OS_EventSet, OS_EventSetFromInt, SetLoop, SetStates, Caller
<1> HIDE DEF served
<1> QED
  BY <1>2, <1>3, EventWakeOrder

LEMMA EventWaitOrder ==
  ASSUME EventInv, OrderInv, NEW e \in Event, NEW wanted \in Pattern,
         NEW mode \in Mode, NEW ticks \in Timeout,
         OS_EventWait(RunningTask, e, wanted, mode, ticks)
  PROVE  OrderStep
<1>1. CASE UNCHANGED schedVars
  BY <1>1, SchedStutterOrder DEF EventInv
<1>2. CASE Caller(RunningTask) /\ WaitForObject(RunningTask, e, ticks)
  BY <1>2, BlockOrder, EventAssumption DEF EventInv, WaitForObject
<1> QED
  BY <1>1, <1>2 DEF OS_EventWait

LEMMA EventDeleteOrder ==
  ASSUME EventInv, OrderInv, NEW e \in Event, OS_EventDelete(RunningTask, e)
  PROVE  OrderStep
<1> DEFINE go == ToSet(Fifo[e])
<1>1. UNCHANGED nPrio
  BY DEF OS_EventDelete
<1>2. LET M == WaitToReadyAll(Lists, Fifo[e], go)
      IN  \/ RunningTask \in Task /\ Reschedule(M, StateAfterWait(go))
          \/ SetLists(M) /\ UNCHANGED RunningTask
  BY DEF OS_EventDelete
<1>3. go \subseteq ToSet(Fifo[e])
  OBVIOUS
<1> HIDE DEF go
<1> QED
  BY <1>1, <1>2, <1>3, EventWakeOrder

LEMMA EventStepOrder ==
  ASSUME EventInv, OrderInv, EventTaskNext \/ EventIntNext \/ OS_EventClrStore
  PROVE  OrderStep
<1>1. CASE UNCHANGED schedVars
  BY <1>1, SchedStutterOrder DEF EventInv
<1>2. CASE \E e \in Event, bits \in Pattern :
             OS_EventSet(RunningTask, e, bits) \/ OS_EventSetFromInt(e, bits)
  BY <1>2, EventSetOrder
<1>3. CASE \E e \in Event, wanted \in Pattern, mode \in Mode, ticks \in Timeout :
             OS_EventWait(RunningTask, e, wanted, mode, ticks)
  BY <1>3, EventWaitOrder
<1>4. CASE \E e \in Event : OS_EventDelete(RunningTask, e)
  BY <1>4, EventDeleteOrder
<1> QED
  BY <1>1, <1>2, <1>3, <1>4
     DEF EventTaskNext, EventIntNext, OS_EventClrLoad, OS_EventClrStore

LEMMA KernelNextOrder ==
  ASSUME KernelInv, OrderInv, [KernelNext]_kernelVars
  PROVE  OrderStep
<1>0. SchedInv /\ SemaInv /\ MutexInv /\ EventInv
  BY DEF KernelInv, EventInv
<1>1. CASE SchedNext
  BY <1>0, <1>1, SchedNextOrder
<1>2. CASE SemaTaskNext \/ SemaIntNext
  BY <1>0, <1>2, SemaNextOrder DEF SemaNext
<1>3. CASE MutexTaskNext \/ MutexIntNext
  BY <1>0, <1>3, MutexStepOrder
<1>4. CASE EventTaskNext \/ EventIntNext \/ OS_EventClrStore
  BY <1>0, <1>4, EventStepOrder
<1>5. CASE UNCHANGED schedVars
  BY <1>0, <1>5, SchedStutterOrder
<1> QED
  BY <1>1, <1>2, <1>3, <1>4, <1>5
     DEF KernelNext, TaskStep, InterruptStep, EventSchedNext, SchedNext, kernelVars

\* The lists stay in order whatever kinds of objects the tasks wait for.
THEOREM KernelListsStaySorted == KernelSpec => []OrderInv
<1>1. KernelInit => OrderInv
  BY SchedInitOrder DEF KernelInit
<1>2. KernelInv /\ OrderInv /\ [KernelNext]_kernelVars => OrderInv'
  BY KernelNextOrder, OrderStepInv DEF KernelInv, EventInv
<1> QED
  BY <1>1, <1>2, KernelInvariant, PTL DEF KernelSpec

\* No task of the kernel is overtaken by one that is not more urgent.
THEOREM KernelNobodyOvertakes == KernelSpec => NoOvertaking
<1> DEFINE Step ==
      \A o \in Object \cup {NULL} :
        \A a \in ToSet(Queue(o)) \cap ToSet(Queue(o)'), b \in ToSet(Queue(o)') :
          (Ahead(Queue(o), a, b) \/ (b \notin ToSet(Queue(o)) /\ nPrio'[a] <= nPrio'[b]))
            => Ahead(Queue(o)', a, b)
<1>1. KernelInv /\ OrderInv /\ [KernelNext]_kernelVars => Step
  BY KernelNextOrder, OrderStepQueues
<1>2. KernelInv /\ OrderInv /\ [KernelNext]_kernelVars => [Step]_schedVars
  BY <1>1
<1> QED
  BY <1>2, KernelInvariant, KernelListsStaySorted, PTL DEF KernelSpec, NoOvertaking

\* Waits that end together, on whatever objects, end in the order they began.
THEOREM KernelWaitsEndInOrder == KernelSpec => ExpireInWaitOrder
<1> DEFINE Step ==
      \A a, b \in ToSet(WaitList) \cap ToSet(ReadyList') :
        Ahead(WaitList, a, b) /\ nPrio[a] = nPrio[b] => Ahead(ReadyList', a, b)
<1>1. KernelInv /\ OrderInv /\ [KernelNext]_kernelVars => Step
  BY KernelNextOrder, OrderStepExpires
<1>2. KernelInv /\ OrderInv /\ [KernelNext]_kernelVars => [Step]_schedVars
  BY <1>1
<1> QED
  BY <1>2, KernelInvariant, KernelListsStaySorted, PTL DEF KernelSpec, ExpireInWaitOrder

\* The scheduler never passes over a more urgent ready task.
THEOREM KernelUrgentTasksRunFirst == KernelSpec => MostUrgentRuns
<1> DEFINE Step ==
      RunningTask' # RunningTask =>
        \A t \in ToSet(ReadyList') : nPrio'[RunningTask'] <= nPrio'[t]
<1>1. KernelInv /\ OrderInv /\ [KernelNext]_kernelVars => Step
  BY KernelNextOrder DEF OrderStep, UrgentStep
<1>2. KernelInv /\ OrderInv /\ [KernelNext]_kernelVars => [Step]_schedVars
  BY <1>1
<1> QED
  BY <1>2, KernelInvariant, KernelListsStaySorted, PTL DEF KernelSpec, MostUrgentRuns

-----------------------------------------------------------------------------
(* What is true of one kind of object is true of it in the whole kernel.     *)

\* A step that leaves the semaphores untouched is a step in which no wait ends.
LEMMA SemaOtherMaps ==
  ASSUME SemaInv, SemaInv', UNCHANGED semaCounter, Untouched(Sema)
  PROVE  SemaAbstraction!Expire({})
<1>1. SemaWaitersOf(waitOn') = SemaWaitersOf(waitOn)
  BY DEF Untouched, NoNewWaiter, SemaWaitersOf
<1>2. [s \in Sema |-> ToSet(Fifo'[s])] = [s \in Sema |-> ToSet(Fifo[s]) \ {}]
  BY <1>1, SemaWaitersMap DEF SemaWaitersOf
<1>3. SemaAbstraction!Outcome({}, "TIMEOUT")
  BY SemaWaitingMap DEF Untouched, SemaAbstraction!Outcome
<1> QED
  BY <1>2, <1>3 DEF SemaAbstraction!Expire

LEMMA MutexOtherMaps ==
  ASSUME MutexInv, MutexInv', UNCHANGED mutexOnlyVars, Untouched(Mutex)
  PROVE  MutexAbstraction!Expire({})
<1>1. MutexWaitersOf(waitOn') = MutexWaitersOf(waitOn)
  BY DEF Untouched, NoNewWaiter, MutexWaitersOf
<1>2. [m \in Mutex |-> ToSet(Fifo'[m])] = [m \in Mutex |-> ToSet(Fifo[m]) \ {}]
  BY <1>1, MutexWaitersMap DEF MutexWaitersOf
<1>3. MutexAbstraction!Outcome({}, "TIMEOUT")
  BY MutexWaitingMap DEF Untouched, MutexAbstraction!Outcome
<1> QED
  BY <1>2, <1>3 DEF MutexAbstraction!Expire, mutexOnlyVars

\* The semaphores of the whole kernel implement the abstract ones.
THEOREM KernelSemaRefinement == KernelSpec => ImplementsSemaService
<1>1. KernelInit => SemaAbstraction!ServiceInit
  BY SemaInitMaps DEF KernelInit, SemaInit
<1>2. KernelInv /\ KernelInv' /\ [KernelNext]_kernelVars
        => [SemaAbstraction!ServiceNext]_SemaAbstraction!serviceVars
  <2> SUFFICES ASSUME KernelInv, KernelInv', [KernelNext]_kernelVars
               PROVE  [SemaAbstraction!ServiceNext]_SemaAbstraction!serviceVars
    OBVIOUS
  <2>1. SemaInv /\ SemaInv'
    BY DEF KernelInv
  <2>2. CASE [SemaNext]_semaVars
    BY <2>1, <2>2, SemaNextMaps
  <2>3. CASE UNCHANGED semaCounter /\ Untouched(Sema)
    BY <2>1, <2>3, SemaOtherMaps DEF SemaAbstraction!ServiceNext
  <2> QED
    BY <2>2, <2>3, KernelStepIs
<1> QED
  BY <1>1, <1>2, KernelInvariant, PTL
     DEF KernelSpec, ImplementsSemaService, SemaAbstraction!ServiceSpec

\* The mutexes of the whole kernel implement the abstract ones.
THEOREM KernelMutexRefinement == KernelSpec => ImplementsMutexService
<1>1. KernelInit => MutexAbstraction!ServiceInit
  BY MutexInitMaps DEF KernelInit, MutexInit
<1>2. KernelInv /\ KernelInv' /\ [KernelNext]_kernelVars
        => [MutexAbstraction!ServiceNext]_MutexAbstraction!serviceVars
  <2> SUFFICES ASSUME KernelInv, KernelInv', [KernelNext]_kernelVars
               PROVE  [MutexAbstraction!ServiceNext]_MutexAbstraction!serviceVars
    OBVIOUS
  <2>1. MutexInv /\ MutexInv'
    BY DEF KernelInv
  <2>2. CASE [MutexNext]_mutexVars
    BY <2>1, <2>2, MutexNextMaps
  <2>3. CASE UNCHANGED mutexOnlyVars /\ Untouched(Mutex)
    BY <2>1, <2>3, MutexOtherMaps DEF MutexAbstraction!ServiceNext
  <2> QED
    BY <2>2, <2>3, KernelStepIs
<1> QED
  BY <1>1, <1>2, KernelInvariant, PTL
     DEF KernelSpec, ImplementsMutexService, MutexAbstraction!ServiceSpec

\* In the whole kernel a token goes to the most urgent waiter, the oldest of equals.
THEOREM KernelTokensGoInOrder == KernelSpec => GrantInOrder
<1>1. KernelInv /\ KernelInv' /\ OrderInv /\ [KernelNext]_kernelVars => [GrantStep]_semaVars
  BY KernelStepIs, SemaGrantStep DEF KernelInv, Untouched
<1>2. KernelSpec => [][GrantStep]_semaVars
  BY <1>1, KernelInvariant, KernelListsStaySorted, PTL DEF KernelSpec
<1> QED
  BY <1>2 DEF GrantStep, GrantInOrder

\* In the whole kernel a mutex is handed over, never taken by a newcomer.
THEOREM KernelNobodyBarges == KernelSpec => NoBarging
<1>1. KernelInv /\ [KernelNext]_kernelVars => [BargingStep]_mutexVars
  BY KernelStepIs, MutexBargingStep DEF KernelInv
<1>2. KernelSpec => [][BargingStep]_mutexVars
  BY <1>1, KernelInvariant, PTL DEF KernelSpec
<1> QED
  BY <1>2 DEF BargingStep, NoBarging

\* In the whole kernel no event is lost.
THEOREM KernelEventsAreNotLost == KernelSpec => NoEventLost
<1>1. KernelInv /\ [KernelNext]_kernelVars => [EventsKept]_eventVars
  BY KernelStepIs, EventsKeptStep DEF KernelInv
<1>2. KernelSpec => [][EventsKept]_eventVars
  BY <1>1, KernelInvariant, PTL DEF KernelSpec
<1> QED
  BY <1>2 DEF EventsKept, NoEventLost

\* In the whole kernel a released waiter is shown what satisfies it.
THEOREM KernelReleaseMeansSatisfied == KernelSpec => ReleasedOnlyWhenSatisfied
<1>1. KernelInv /\ KernelInv' /\ [KernelNext]_kernelVars => [ReleasedSatisfied]_eventVars
  BY KernelStepIs, ReleasedStep DEF KernelInv, Untouched
<1>2. KernelSpec => [][ReleasedSatisfied]_eventVars
  BY <1>1, KernelInvariant, PTL DEF KernelSpec
<1> QED
  BY <1>2 DEF ReleasedSatisfied, Shown, ReleasedOnlyWhenSatisfied
=============================================================================
