----------------------------- MODULE SemaService -----------------------------
(***************************************************************************)
(* What the semaphores of TCTS promise, without lists, ticks or scheduler: *)
(* a semaphore is a number of tokens; a task that finds none waits until   *)
(* it is granted one, gives up, or the semaphore is reset or deleted.  A   *)
(* token that is signalled is either counted or granted, never both, and   *)
(* never to a task whose wait has ended.                                   *)
(***************************************************************************)
EXTENDS Integers

CONSTANTS Client, Sema, MaxTokens

VARIABLES
  tokens,  \* tokens[s]: tokens nobody holds
  waiting, \* waiting[s]: the tasks that wait for a token of s
  result   \* result[c]: what the last wait of c that blocked returns

serviceVars == <<tokens, waiting, result>>

ServiceInit ==
  /\ tokens \in [Sema -> 0..MaxTokens]
  /\ waiting = [s \in Sema |-> {}]
  /\ result = [c \in Client |-> "OK"]

IsWaiting(c) == \E s \in Sema : c \in waiting[s]

\* The waits of the tasks in gone end with the given code; those of other tasks
\* go on.  The result of a task that does not wait is not the semaphores' concern.
Outcome(gone, code) ==
  \A c \in Client : /\ c \in gone => result'[c] = code
                    /\ IsWaiting(c) /\ c \notin gone => result'[c] = result[c]

Take(s) ==
  /\ tokens[s] > 0
  /\ tokens' = [tokens EXCEPT ![s] = @ - 1]
  /\ UNCHANGED waiting
  /\ Outcome({}, "OK")

\* Waiting starts only when there is no token.
Queue(c, s) ==
  /\ tokens[s] = 0
  /\ ~IsWaiting(c)
  /\ waiting' = [waiting EXCEPT ![s] = @ \cup {c}]
  /\ UNCHANGED tokens
  /\ Outcome({c}, "ERROR")

Post(s) ==
  /\ waiting[s] = {}
  /\ tokens[s] < MaxTokens
  /\ tokens' = [tokens EXCEPT ![s] = @ + 1]
  /\ UNCHANGED waiting
  /\ Outcome({}, "OK")

Grant(c, s) ==
  /\ c \in waiting[s]
  /\ waiting' = [waiting EXCEPT ![s] = @ \ {c}]
  /\ UNCHANGED tokens
  /\ Outcome({c}, "OK")

\* Several waits may time out in the same tick; no token moves.
Expire(gone) ==
  /\ \A c \in gone : IsWaiting(c)
  /\ waiting' = [s \in Sema |-> waiting[s] \ gone]
  /\ UNCHANGED tokens
  /\ Outcome(gone, "TIMEOUT")

Flush(s, code) ==
  /\ waiting' = [waiting EXCEPT ![s] = {}]
  /\ Outcome(waiting[s], code)

Reset(s, n) == Flush(s, "RESETED") /\ tokens' = [tokens EXCEPT ![s] = n]
Delete(s) == Flush(s, "DELETED") /\ UNCHANGED tokens

\* Expire({}) is a step of a task that waits for no semaphore.
ServiceNext ==
  \/ \E s \in Sema : Take(s) \/ Post(s) \/ Delete(s)
  \/ \E c \in Client, s \in Sema : Queue(c, s) \/ Grant(c, s)
  \/ \E gone \in SUBSET Client : Expire(gone)
  \/ \E s \in Sema, n \in 0..MaxTokens : Reset(s, n)

ServiceSpec == ServiceInit /\ [][ServiceNext]_serviceVars
=============================================================================
