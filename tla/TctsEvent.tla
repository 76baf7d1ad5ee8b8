------------------------------ MODULE TctsEvent ------------------------------
(***************************************************************************)
(* Event groups of TCTS on top of its scheduler.  A pattern is the set of  *)
(* its bits.  OS_EventClr is the one operation that is not protected       *)
(* against interrupts: its read and its write of the pattern are separate  *)
(* steps, between which an interrupt may set bits.                         *)
(***************************************************************************)
EXTENDS TctsSched

CONSTANTS
  Event, \* the event groups
  Bit    \* the bits of a pattern

ASSUME EventAssumption == Event \subseteq Object

VARIABLES
  dPattern,          \* per event group: the bits that are set
  dEventWaitPattern, \* per task: the bits it waits for; after the wait the bits it got
  EventWaitMode,     \* per task: wait for one ("OR") or for all ("AND") of the bits
  clearing           \* the OS_EventClr in progress: the value it will write, or none

eventOnlyVars == <<dPattern, dEventWaitPattern, EventWaitMode, clearing>>
eventVars == <<schedVars, dPattern, dEventWaitPattern, EventWaitMode, clearing>>

Pattern == SUBSET Bit
Mode == {"OR", "AND"}
NotClearing == {}

EventInit ==
  /\ SchedInit
  /\ dPattern = [e \in Event |-> {}]
  /\ dEventWaitPattern = [t \in TCB |-> {}]
  /\ EventWaitMode = [t \in TCB |-> "OR"]
  /\ clearing = NotClearing

-----------------------------------------------------------------------------
Satisfied(pattern, wanted, mode) ==
  IF mode = "OR" THEN pattern \cap wanted # {} ELSE wanted \subseteq pattern

\* Mutation of Served: only the first waiter is looked at.
ServedFirstOnly(e, pattern) ==
  {t \in ToSet(Fifo[e]) :
     t = Head(Fifo[e]) /\ Satisfied(pattern, dEventWaitPattern[t], EventWaitMode[t])}

\* The waiters of e that the bits in pattern satisfy.
Served(e, pattern) ==
  {t \in ToSet(Fifo[e]) : Satisfied(pattern, dEventWaitPattern[t], EventWaitMode[t])}

\* Mutations of SetPattern: the pattern is cleared even if it served nobody; and
\* a waiter is shown only the bits of this call.
SetPatternAlwaysClear(e, bits) ==
  LET pattern == dPattern[e] \cup bits
      served  == Served(e, pattern)
  IN  /\ dPattern' = [dPattern EXCEPT ![e] = {}]
      /\ dEventWaitPattern' =
           [t \in TCB |-> IF t \in served THEN pattern ELSE dEventWaitPattern[t]]
      /\ ClearWait(served, [t \in served |-> "OK"])
      /\ UNCHANGED <<bIsSchedLocked, nPrio, EventWaitMode, clearing>>
SetPatternShowBits(e, bits) ==
  LET pattern == dPattern[e] \cup bits
      served  == Served(e, pattern)
  IN  /\ dPattern' = [dPattern EXCEPT ![e] = IF served = {} THEN pattern ELSE {}]
      /\ dEventWaitPattern' =
           [t \in TCB |-> IF t \in served THEN bits ELSE dEventWaitPattern[t]]
      /\ ClearWait(served, [t \in served |-> "OK"])
      /\ UNCHANGED <<bIsSchedLocked, nPrio, EventWaitMode, clearing>>

\* What OS_EventSetFromInt does to the event group and to the TCBs: every waiter
\* is shown the same pattern, which is cleared if it served anybody.
SetPattern(e, bits) ==
  LET pattern == dPattern[e] \cup bits
      served  == Served(e, pattern)
  IN  /\ dPattern' = [dPattern EXCEPT ![e] = IF served = {} THEN pattern ELSE {}]
      /\ dEventWaitPattern' =
           [t \in TCB |-> IF t \in served THEN pattern ELSE dEventWaitPattern[t]]
      /\ ClearWait(served, [t \in served |-> "OK"])
      /\ UNCHANGED <<bIsSchedLocked, nPrio, EventWaitMode, clearing>>

SetLoop(e, bits) == WaitToReadyAll(Lists, Fifo[e], Served(e, dPattern[e] \cup bits))
SetStates(e, bits) == StateAfterWait(Served(e, dPattern[e] \cup bits))

OS_EventSetFromInt(e, bits) ==
  /\ SetPattern(e, bits)
  /\ SetLists(SetLoop(e, bits))
  /\ State' = SetStates(e, bits)
  /\ UNCHANGED RunningTask

OS_EventSet(t, e, bits) ==
  /\ Caller(t)
  /\ SetPattern(e, bits)
  /\ Reschedule(SetLoop(e, bits), SetStates(e, bits))

\* A satisfied wait takes the whole pattern, bits it did not ask for included.
OS_EventWait(t, e, wanted, mode, ticks) ==
  /\ Caller(t)
  /\ IF Satisfied(dPattern[e], wanted, mode)
     THEN /\ dPattern' = [dPattern EXCEPT ![e] = {}]
          /\ UNCHANGED <<schedVars, dEventWaitPattern, EventWaitMode>>
     ELSE /\ IF ticks = 0
             THEN UNCHANGED <<schedVars, dEventWaitPattern, EventWaitMode>>
             ELSE /\ WaitForObject(t, e, ticks)
                  /\ dEventWaitPattern' = [dEventWaitPattern EXCEPT ![t] = wanted]
                  /\ EventWaitMode' = [EventWaitMode EXCEPT ![t] = mode]
          /\ UNCHANGED dPattern
  /\ UNCHANGED clearing

OS_EventDelete(t, e) ==
  /\ Caller(t)
  /\ WakeAll(e, "DELETED")
  /\ SetLists(WaitToReadyAll(Lists, Fifo[e], ToSet(Fifo[e])))
  /\ State' = StateAfterWait(ToSet(Fifo[e]))
  /\ dEventWaitPattern' =
       [x \in TCB |-> IF x \in ToSet(Fifo[e]) THEN {} ELSE dEventWaitPattern[x]]
  /\ UNCHANGED <<bIsSchedLocked, RunningTask, nPrio, dPattern, EventWaitMode, clearing>>

\* dPattern &= ~bits: load, then store.
OS_EventClrLoad(t, e, bits) ==
  /\ Caller(t)
  /\ clearing' = {<<e, dPattern[e] \ bits>>}
  /\ UNCHANGED <<schedVars, dPattern, dEventWaitPattern, EventWaitMode>>

OS_EventClrStore ==
  /\ clearing # NotClearing
  /\ dPattern' = [e \in Event |-> IF \E v \in Pattern : <<e, v>> \in clearing
                                  THEN CHOOSE v \in Pattern : <<e, v>> \in clearing
                                  ELSE dPattern[e]]
  /\ clearing' = NotClearing
  /\ UNCHANGED <<schedVars, dEventWaitPattern, EventWaitMode>>

\* A new task starts with a cleared TCB.
CreateClears ==
  /\ dEventWaitPattern' = [t \in TCB |-> IF State[t] = "NOT_IN_USE" /\ State'[t] # "NOT_IN_USE"
                                         THEN {} ELSE dEventWaitPattern[t]]
  /\ EventWaitMode' = [t \in TCB |-> IF State[t] = "NOT_IN_USE" /\ State'[t] # "NOT_IN_USE"
                                     THEN "OR" ELSE EventWaitMode[t]]

\* While the running task is between the load and the store of OS_EventClr only
\* interrupts run.
EventTaskNext ==
  /\ clearing = NotClearing
  /\ \E e \in Event, bits \in Pattern \ {{}} :
       \/ OS_EventSet(RunningTask, e, bits)
       \/ \E mode \in Mode, ticks \in Timeout : OS_EventWait(RunningTask, e, bits, mode, ticks)
       \/ OS_EventDelete(RunningTask, e)
       \/ OS_EventClrLoad(RunningTask, e, bits)

EventIntNext == \E e \in Event, bits \in Pattern \ {{}} : OS_EventSetFromInt(e, bits)

EventSchedNext ==
  /\ clearing = NotClearing
  /\ SchedTaskNext
  /\ CreateClears
  /\ UNCHANGED <<dPattern, clearing>>

EventNext ==
  \/ EventSchedNext
  \/ HandleWaitList /\ UNCHANGED eventOnlyVars
  \/ EventTaskNext
  \/ OS_EventClrStore
  \/ EventIntNext

EventSpec == EventInit /\ [][EventNext]_eventVars

-----------------------------------------------------------------------------
EventTypeOK ==
  /\ TypeOK
  /\ dPattern \in [Event -> Pattern]
  /\ dEventWaitPattern \in [TCB -> Pattern]
  /\ EventWaitMode \in [TCB -> Mode]
  /\ clearing \in SUBSET (Event \X Pattern)

\* No waiter sleeps on bits that are already set: a set finds every waiter it
\* satisfies, whatever modes are mixed on one FIFO.
NoSatisfiedWaiter == \A e \in Event : Served(e, dPattern[e]) = {}

\* No event is lost: bits that are set stay set or are all shown to a waiter the
\* set released, and bits disappear only into the hands of a task.  OS_EventClr is
\* the one other way, and may take bits that an interrupt set after its load.
ShownToWaiter(e, bits) ==
  \E t \in ToSet(Fifo[e]) : nReturnCode'[t] = "OK" /\ bits \subseteq dEventWaitPattern'[t]
NoEventLost ==
  [][\A e \in Event :
       /\ \A bits \in Pattern :
            (OS_EventSetFromInt(e, bits) \/ OS_EventSet(RunningTask, e, bits)) =>
               \/ dPattern[e] \cup bits \subseteq dPattern'[e]
               \/ ShownToWaiter(e, dPattern[e] \cup bits)
       /\ ~(dPattern[e] \subseteq dPattern'[e]) =>
               \/ ShownToWaiter(e, dPattern[e])
               \/ dPattern'[e] = {} /\ UNCHANGED schedVars
               \/ clearing # NotClearing]_eventVars

\* A released waiter is shown a pattern that satisfies what it asked for.
ReleasedOnlyWhenSatisfied ==
  [][\A e \in Event : \A t \in ToSet(Fifo[e]) :
       (t \notin ToSet(Fifo'[e]) /\ nReturnCode'[t] = "OK") =>
         Satisfied(dEventWaitPattern'[t], dEventWaitPattern[t], EventWaitMode[t])]_eventVars
=============================================================================
