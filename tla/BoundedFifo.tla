----------------------------- MODULE BoundedFifo -----------------------------
(***************************************************************************)
(* What a lwIP mailbox promises: a queue of at most Size messages, which   *)
(* are fetched once each and in the order in which they were posted.       *)
(***************************************************************************)
EXTENDS Integers, Sequences

CONSTANTS Client, Message, Size, Nothing

VARIABLES
  queue,  \* the messages in the mailbox
  fetched \* fetched[c]: the last message that c fetched, or Nothing

fifoVars == <<queue, fetched>>

FifoInit == queue = <<>> /\ fetched = [c \in Client |-> Nothing]

Put(m) ==
  /\ Len(queue) < Size
  /\ queue' = Append(queue, m)
  /\ UNCHANGED fetched

Get(c) ==
  /\ queue # <<>>
  /\ queue' = Tail(queue)
  /\ fetched' = [fetched EXCEPT ![c] = Head(queue)]

FifoNext == (\E m \in Message : Put(m)) \/ (\E c \in Client : Get(c))

FifoSpec == FifoInit /\ [][FifoNext]_fifoVars
=============================================================================
