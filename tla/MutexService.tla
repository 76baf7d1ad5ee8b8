---------------------------- MODULE MutexService -----------------------------
(***************************************************************************)
(* What a TCTS mutex promises: at most one owner, who may take it again; a *)
(* task that finds it owned waits until the mutex is handed to it or its   *)
(* wait times out.  A free mutex has no waiter, so nobody waits in vain.   *)
(* The kernel does not check who signals.                                  *)
(***************************************************************************)
EXTENDS Integers

CONSTANTS Client, Mutex, Nobody, MaxDepth

VARIABLES
  owner,   \* owner[m]: the task that holds m, or Nobody
  depth,   \* depth[m]: how often the owner has taken it
  waiting, \* waiting[m]: the tasks that wait for m
  result   \* result[c]: what the last wait of c that blocked returns

serviceVars == <<owner, depth, waiting, result>>

ServiceInit ==
  /\ owner = [m \in Mutex |-> Nobody]
  /\ depth = [m \in Mutex |-> 0]
  /\ waiting = [m \in Mutex |-> {}]
  /\ result = [c \in Client |-> "OK"]

IsWaiting(c) == \E m \in Mutex : c \in waiting[m]

\* The waits of the tasks in gone end with the given code; those of other tasks
\* go on.  The result of a task that does not wait is not the mutexes' concern.
Outcome(gone, code) ==
  \A c \in Client : /\ c \in gone => result'[c] = code
                    /\ IsWaiting(c) /\ c \notin gone => result'[c] = result[c]

Lock(c, m) ==
  /\ ~IsWaiting(c)
  /\ \/ owner[m] = Nobody /\ depth[m] = 0 /\ waiting[m] = {}
     \/ owner[m] = c /\ depth[m] \in 1..MaxDepth - 1
  /\ owner' = [owner EXCEPT ![m] = c]
  /\ depth' = [depth EXCEPT ![m] = @ + 1]
  /\ UNCHANGED waiting
  /\ Outcome({}, "OK")

Queue(c, m) ==
  /\ owner[m] \notin {Nobody, c}
  /\ ~IsWaiting(c)
  /\ waiting' = [waiting EXCEPT ![m] = @ \cup {c}]
  /\ UNCHANGED <<owner, depth>>
  /\ Outcome({c}, "ERROR")

\* One level is given back; the last one frees the mutex only if nobody waits.
Unlock(m) ==
  /\ depth[m] > 0
  /\ depth' = [depth EXCEPT ![m] = @ - 1]
  /\ \/ depth[m] > 1 /\ UNCHANGED owner
     \/ depth[m] = 1 /\ waiting[m] = {} /\ owner' = [owner EXCEPT ![m] = Nobody]
  /\ UNCHANGED waiting
  /\ Outcome({}, "OK")

HandOver(c, m) ==
  /\ depth[m] = 1
  /\ c \in waiting[m]
  /\ owner' = [owner EXCEPT ![m] = c]
  /\ waiting' = [waiting EXCEPT ![m] = @ \ {c}]
  /\ UNCHANGED depth
  /\ Outcome({c}, "OK")

Expire(gone) ==
  /\ \A c \in gone : IsWaiting(c)
  /\ waiting' = [m \in Mutex |-> waiting[m] \ gone]
  /\ UNCHANGED <<owner, depth>>
  /\ Outcome(gone, "TIMEOUT")

\* Expire({}) is a step of a task that waits for no mutex.
ServiceNext ==
  \/ \E c \in Client, m \in Mutex : Lock(c, m) \/ Queue(c, m) \/ HandOver(c, m)
  \/ \E m \in Mutex : Unlock(m)
  \/ \E gone \in SUBSET Client : Expire(gone)

ServiceSpec == ServiceInit /\ [][ServiceNext]_serviceVars
=============================================================================
