------------------------------ MODULE TctsMutex ------------------------------
(***************************************************************************)
(* Mutexes of TCTS on top of its scheduler.  A mutex is recursive, nothing *)
(* checks that the caller of OS_MutexSignal owns it, and a task may exit   *)
(* while it owns one.                                                      *)
(***************************************************************************)
EXTENDS TctsSched

CONSTANTS
  Mutex,       \* the mutexes
  MaxRecursion \* bound: how often the owner may take a mutex

ASSUME MutexAssumption == Mutex \subseteq Object
ASSUME RecursionAssumption == MaxRecursion \in Nat \ {0}

VARIABLES
  Owner,       \* Owner of every mutex, or NULL
  mutexCounter \* nCounter of every mutex

mutexOnlyVars == <<Owner, mutexCounter>>
mutexVars == <<schedVars, Owner, mutexCounter>>

MutexInit ==
  /\ SchedInit
  /\ Owner = [m \in Mutex |-> NULL]
  /\ mutexCounter = [m \in Mutex |-> 0]

-----------------------------------------------------------------------------
\* Mutation of MutexHandOver: the waiter is woken but the mutex is left free (the
\* behaviour before the change of 08.06.2026).
MutexHandOverFree(m) ==
  /\ Fifo[m] # <<>>
  /\ mutexCounter[m] <= 1
  /\ Owner' = [Owner EXCEPT ![m] = NULL]
  /\ mutexCounter' = [mutexCounter EXCEPT ![m] = 0]
  /\ WakeFirst(m, "OK")
  /\ UNCHANGED <<bIsSchedLocked, nPrio>>

\* _OSMutexSignalFromInt, last level with a waiter: the mutex goes to the first
\* of the FIFO without ever being free.
MutexHandOver(m) ==
  /\ Fifo[m] # <<>>
  /\ mutexCounter[m] <= 1
  /\ Owner' = [Owner EXCEPT ![m] = Head(Fifo[m])]
  /\ mutexCounter' = [mutexCounter EXCEPT ![m] = 1]
  /\ WakeFirst(m, "OK")
  /\ UNCHANGED <<bIsSchedLocked, nPrio>>

\* Mutation of MutexCountDown: the counter is not checked.
MutexCountDownUnchecked(m) ==
  /\ mutexCounter[m] > 1 \/ Fifo[m] = <<>>
  /\ mutexCounter' = [mutexCounter EXCEPT ![m] = @ - 1]
  /\ Owner' = IF mutexCounter[m] = 1 THEN [Owner EXCEPT ![m] = NULL] ELSE Owner
  /\ UNCHANGED schedVars

\* An inner level, or no waiter; at 0 already the call returns OS_RC_ERROR.
MutexCountDown(m) ==
  /\ mutexCounter[m] > 1 \/ Fifo[m] = <<>>
  /\ mutexCounter' = [mutexCounter EXCEPT ![m] = IF @ > 0 THEN @ - 1 ELSE @]
  /\ Owner' = IF mutexCounter[m] = 1 THEN [Owner EXCEPT ![m] = NULL] ELSE Owner
  /\ UNCHANGED schedVars

OS_MutexSignal(t, m) ==
  /\ Caller(t)
  /\ \/ /\ MutexHandOver(m)
        /\ Reschedule(WaitToReady(Lists, Head(Fifo[m])), StateAfterWait({Head(Fifo[m])}))
     \/ MutexCountDown(m)

OS_MutexSignalFromInt(m) ==
  \/ /\ MutexHandOver(m)
     /\ SetLists(WaitToReady(Lists, Head(Fifo[m])))
     /\ State' = StateAfterWait({Head(Fifo[m])})
     /\ UNCHANGED RunningTask
  \/ MutexCountDown(m)

MutexTake(t, m) ==
  /\ Owner[m] \in {NULL, t}
  /\ mutexCounter[m] < MaxRecursion
  /\ Owner' = [Owner EXCEPT ![m] = t]
  /\ mutexCounter' = [mutexCounter EXCEPT ![m] = @ + 1]
  /\ UNCHANGED schedVars

\* A timeout of 0 polls.
OS_MutexWait(t, m, ticks) ==
  /\ Caller(t)
  /\ \/ MutexTake(t, m)
     \/ /\ Owner[m] \notin {NULL, t}
        /\ IF ticks = 0 THEN UNCHANGED schedVars ELSE WaitForObject(t, m, ticks)
        /\ UNCHANGED mutexOnlyVars

MutexTaskNext ==
  \E m \in Mutex :
    \/ OS_MutexSignal(RunningTask, m)
    \/ \E ticks \in Timeout : OS_MutexWait(RunningTask, m, ticks)

MutexIntNext == \E m \in Mutex : OS_MutexSignalFromInt(m)

MutexNext ==
  \/ SchedNext /\ UNCHANGED mutexOnlyVars
  \/ MutexTaskNext
  \/ MutexIntNext

MutexSpec == MutexInit /\ [][MutexNext]_mutexVars

-----------------------------------------------------------------------------
MutexTypeOK ==
  /\ TypeOK
  /\ Owner \in [Mutex -> Task \cup {NULL}]
  /\ mutexCounter \in [Mutex -> 0..MaxRecursion]

\* Owner and depth agree, and only an owned mutex has waiters, none of them the
\* owner: the hand-over in OS_MutexSignal leaves no free mutex with a queue.
MutexConsistent ==
  \A m \in Mutex :
    /\ Owner[m] = NULL <=> mutexCounter[m] = 0
    /\ Fifo[m] # <<>> => Owner[m] # NULL
    /\ Owner[m] \notin ToSet(Fifo[m])

\* The kernel implements the abstract mutexes.
MutexAbstraction == INSTANCE MutexService WITH
  Client <- TCB, Nobody <- NULL, MaxDepth <- MaxRecursion,
  owner <- Owner, depth <- mutexCounter,
  waiting <- [m \in Mutex |-> ToSet(Fifo[m])],
  result <- nReturnCode

ImplementsMutexService == MutexAbstraction!ServiceSpec

\* A mutex changes hands only when the last level is given back, and then goes to
\* the most urgent waiter: a newcomer cannot take it while somebody queues.
NoBarging ==
  [][\A m \in Mutex : (Owner'[m] # Owner[m] /\ Owner[m] # NULL) =>
       /\ mutexCounter[m] = 1
       /\ IF Fifo[m] = <<>> THEN Owner'[m] = NULL
          ELSE Owner'[m] = Head(Fifo[m]) /\ mutexCounter'[m] = 1]_mutexVars
=============================================================================
