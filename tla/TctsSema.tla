------------------------------ MODULE TctsSema ------------------------------
(***************************************************************************)
(* Counting semaphores of TCTS on top of its scheduler.  Any task may call *)
(* any operation at any time; interrupts signal semaphores between calls.  *)
(***************************************************************************)
EXTENDS TctsSched

CONSTANTS
  Sema,       \* the semaphores
  SemaMax     \* nCounterMax, the same for all

ASSUME SemaAssumption == Sema \subseteq Object
ASSUME SemaMaxAssumption == SemaMax \in Nat \ {0}

VARIABLE semaCounter    \* nCounter of every semaphore

semaVars == <<schedVars, semaCounter>>

\* OS_SemaCreate with any start value.
SemaInit == SchedInit /\ semaCounter \in [Sema -> 0..SemaMax]

-----------------------------------------------------------------------------
\* Mutation of SemaHandOver: the token is granted and counted.
SemaHandOverAndCount(s) ==
  /\ Fifo[s] # <<>>
  /\ WakeFirst(s, "OK")
  /\ semaCounter' = [semaCounter EXCEPT ![s] = IF @ < SemaMax THEN @ + 1 ELSE @]
  /\ UNCHANGED <<bIsSchedLocked, nPrio>>

\* _OSSemaSignalFromInt with a waiter: the token goes to the first of the FIFO
\* and is never counted.
SemaHandOver(s) ==
  /\ Fifo[s] # <<>>
  /\ WakeFirst(s, "OK")
  /\ UNCHANGED <<bIsSchedLocked, nPrio, semaCounter>>

\* Mutation of SemaCountUp: nCounterMax is not checked.
SemaCountUpUnchecked(s) ==
  /\ Fifo[s] = <<>>
  /\ semaCounter' = [semaCounter EXCEPT ![s] = @ + 1]
  /\ UNCHANGED schedVars

\* Without a waiter: count the token, or return OS_RC_NO_SPACE.
SemaCountUp(s) ==
  /\ Fifo[s] = <<>>
  /\ semaCounter' = IF semaCounter[s] < SemaMax
                    THEN [semaCounter EXCEPT ![s] = @ + 1] ELSE semaCounter
  /\ UNCHANGED schedVars

OS_SemaSignal(t, s) ==
  /\ Caller(t)
  /\ \/ /\ SemaHandOver(s)
        /\ Reschedule(WaitToReady(Lists, Head(Fifo[s])), StateAfterWait({Head(Fifo[s])}))
     \/ SemaCountUp(s)

OS_SemaSignalFromInt(s) ==
  \/ /\ SemaHandOver(s)
     /\ SetLists(WaitToReady(Lists, Head(Fifo[s])))
     /\ State' = StateAfterWait({Head(Fifo[s])})
     /\ UNCHANGED RunningTask
  \/ SemaCountUp(s)

SemaTake(s) ==
  /\ semaCounter[s] > 0
  /\ semaCounter' = [semaCounter EXCEPT ![s] = @ - 1]
  /\ UNCHANGED schedVars

\* A timeout of 0 polls: without a token the call returns OS_RC_TIMEOUT at once.
OS_SemaWait(t, s, ticks) ==
  /\ Caller(t)
  /\ \/ SemaTake(s)
     \/ /\ semaCounter[s] = 0
        /\ IF ticks = 0 THEN UNCHANGED schedVars ELSE WaitForObject(t, s, ticks)
        /\ UNCHANGED semaCounter

OS_SemaReset(t, s, start) ==
  /\ Caller(t)
  /\ semaCounter' = [semaCounter EXCEPT ![s] = start]
  /\ IF Fifo[s] = <<>> THEN UNCHANGED schedVars
     ELSE /\ WakeAll(s, "RESETED")
          /\ Reschedule(WaitToReadyAll(Lists, Fifo[s], ToSet(Fifo[s])),
                        StateAfterWait(ToSet(Fifo[s])))
          /\ UNCHANGED <<bIsSchedLocked, nPrio>>

\* The waiters are made ready, but the deleting task keeps the CPU.
OS_SemaDelete(t, s) ==
  /\ Caller(t)
  /\ WakeAll(s, "DELETED")
  /\ SetLists(WaitToReadyAll(Lists, Fifo[s], ToSet(Fifo[s])))
  /\ State' = StateAfterWait(ToSet(Fifo[s]))
  /\ UNCHANGED <<bIsSchedLocked, RunningTask, nPrio, semaCounter>>

SemaTaskNext ==
  \E s \in Sema :
    \/ OS_SemaSignal(RunningTask, s)
    \/ \E ticks \in Timeout : OS_SemaWait(RunningTask, s, ticks)
    \/ \E start \in 0..SemaMax : OS_SemaReset(RunningTask, s, start)
    \/ OS_SemaDelete(RunningTask, s)

SemaIntNext == \E s \in Sema : OS_SemaSignalFromInt(s)

SemaNext ==
  \/ SchedNext /\ UNCHANGED semaCounter
  \/ SemaTaskNext
  \/ SemaIntNext

SemaSpec == SemaInit /\ [][SemaNext]_semaVars

-----------------------------------------------------------------------------
SemaTypeOK == TypeOK /\ semaCounter \in [Sema -> 0..SemaMax]

\* No lost wakeup: no task waits for a semaphore that has a token to give.
NoWaitWithToken == \A s \in Sema : semaCounter[s] > 0 => Fifo[s] = <<>>

\* The kernel implements the abstract semaphores: whatever list a task is on and
\* however a signal, a timeout, a reset and a wakeup interleave, a token is
\* granted to one waiter or counted, and a wait that timed out got none.
SemaAbstraction == INSTANCE SemaService WITH
  Client <- TCB, MaxTokens <- SemaMax,
  tokens <- semaCounter,
  waiting <- [s \in Sema |-> ToSet(Fifo[s])],
  result <- nReturnCode

ImplementsSemaService == SemaAbstraction!ServiceSpec

\* A token goes to the waiter that is most urgent, and among equals to the one
\* that has waited longest.
GrantInOrder ==
  [][\A s \in Sema : \A t \in ToSet(Fifo[s]) :
       (t \notin ToSet(Fifo'[s]) /\ nReturnCode'[t] = "OK")
          => t = Head(Fifo[s]) /\ \A u \in ToSet(Fifo'[s]) : nPrio[t] <= nPrio[u]]_semaVars

(***************************************************************************)
(* Fairness.  The tick interrupt keeps coming, interrupts keep signalling, *)
(* and a task that has the CPU gives it up: that is the contract of a      *)
(* cooperative scheduler.                                                  *)
(***************************************************************************)
SemaFairSpec ==
  /\ SemaSpec
  /\ WF_semaVars(HandleWaitList /\ UNCHANGED semaCounter)
  /\ \A s \in Sema : WF_semaVars(OS_SemaSignalFromInt(s))
  /\ \A t \in TCB : WF_semaVars(OS_TaskYield(t) /\ UNCHANGED semaCounter)
  /\ WF_semaVars(OS_Start /\ UNCHANGED semaCounter)

\* A task that waits for ever is served if tokens keep coming: with equal
\* priorities and fair signals an infinite wait ends.
SemaWaitEnds ==
  \A t \in Task : \A s \in Sema : t \in ToSet(Fifo[s]) ~> t \notin ToSet(Fifo[s])
=============================================================================
