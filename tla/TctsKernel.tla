----------------------------- MODULE TctsKernel ------------------------------
(***************************************************************************)
(* The TCTS kernel: scheduler, semaphores, mutexes and event groups share  *)
(* the lists and the task control blocks, and one tick times out waits of  *)
(* every kind.                                                             *)
(***************************************************************************)
EXTENDS TctsSema, TctsMutex, TctsEvent

kernelVars == <<schedVars, semaCounter, mutexOnlyVars, eventOnlyVars>>

ASSUME ObjectAssumption ==
  /\ Object = Sema \cup Mutex \cup Event
  /\ Sema \cap Mutex = {} /\ Sema \cap Event = {} /\ Mutex \cap Event = {}

KernelInit ==
  /\ SchedInit
  /\ semaCounter \in [Sema -> 0..SemaMax]
  /\ Owner = [m \in Mutex |-> NULL]
  /\ mutexCounter = [m \in Mutex |-> 0]
  /\ dPattern = [e \in Event |-> {}]
  /\ dEventWaitPattern = [t \in TCB |-> {}]
  /\ EventWaitMode = [t \in TCB |-> "OR"]
  /\ clearing = NotClearing

\* The running task calls one operation of one object.
TaskStep ==
  \/ EventSchedNext /\ UNCHANGED <<semaCounter, mutexOnlyVars>>
  \/ clearing = NotClearing /\ SemaTaskNext /\ UNCHANGED <<mutexOnlyVars, eventOnlyVars>>
  \/ clearing = NotClearing /\ MutexTaskNext /\ UNCHANGED <<semaCounter, eventOnlyVars>>
  \/ EventTaskNext /\ UNCHANGED <<semaCounter, mutexOnlyVars>>
  \/ OS_EventClrStore /\ UNCHANGED <<semaCounter, mutexOnlyVars>>

InterruptStep ==
  \/ HandleWaitList /\ UNCHANGED <<semaCounter, mutexOnlyVars, eventOnlyVars>>
  \/ SemaIntNext /\ UNCHANGED <<mutexOnlyVars, eventOnlyVars>>
  \/ MutexIntNext /\ UNCHANGED <<semaCounter, eventOnlyVars>>
  \/ EventIntNext /\ UNCHANGED <<semaCounter, mutexOnlyVars>>

KernelNext == TaskStep \/ InterruptStep

KernelSpec == KernelInit /\ [][KernelNext]_kernelVars

\* The tick interrupt keeps coming; nothing is assumed of the tasks.
KernelFairSpec ==
  /\ KernelSpec
  /\ WF_kernelVars(HandleWaitList /\ UNCHANGED <<semaCounter, mutexOnlyVars, eventOnlyVars>>)

-----------------------------------------------------------------------------
\* Nobody sleeps although what it waits for is there: no task waits for a
\* semaphore with a token, for a free mutex, or for bits that are set.
NobodySleepsInVain == NoWaitWithToken /\ MutexConsistent /\ NoSatisfiedWaiter
=============================================================================
