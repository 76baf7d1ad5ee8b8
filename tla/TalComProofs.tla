---------------------------- MODULE TalComProofs -----------------------------
(***************************************************************************)
(* Proofs about the serial port, for any tasks, ring sizes and blocks.     *)
(***************************************************************************)
EXTENDS TalCom, SequenceTheorems, TLAPS

-----------------------------------------------------------------------------
(* Rings.                                                                    *)

\* What the remainder does to an index that has wrapped once at most.
LEMMA Wrap ==
  ASSUME NEW n \in Nat \ {0}, NEW x \in Nat, x < 2 * n
  PROVE  x % n = IF x < n THEN x ELSE x - n
<1>1. CASE x < n
  BY <1>1
<1>2. CASE n <= x
  BY <1>2
<1> QED
  BY <1>1, <1>2

\* The slot that is a places behind slot out.
Behind(out, a, size) == (out + a) % size

LEMMA BehindIs ==
  ASSUME NEW size \in Nat \ {0}, NEW out \in 0..size - 1, NEW a \in 0..size
  PROVE  Behind(out, a, size) = IF out + a < size THEN out + a ELSE out + a - size
<1> DEFINE x == out + a
<1>1. x \in Nat /\ x < 2 * size
  OBVIOUS
<1> HIDE DEF x
<1>2. x % size = IF x < size THEN x ELSE x - size
  BY <1>1, Wrap
<1> QED
  BY <1>2 DEF x, Behind

LEMMA BehindSlot ==
  ASSUME NEW size \in Nat \ {0}, NEW out \in 0..size - 1, NEW a \in 0..size
  PROVE  Behind(out, a, size) \in 0..size - 1
  BY BehindIs

LEMMA BehindZero ==
  ASSUME NEW size \in Nat \ {0}, NEW out \in 0..size - 1
  PROVE  Behind(out, 0, size) = out
<1>1. 0 \in 0..size
  OBVIOUS
<1> QED
  BY <1>1, BehindIs

\* Places that are less than a round apart are different slots.
LEMMA BehindDiffer ==
  ASSUME NEW size \in Nat \ {0}, NEW out \in 0..size - 1,
         NEW a \in 0..size - 1, NEW b \in 0..size - 1, a # b
  PROVE  Behind(out, a, size) # Behind(out, b, size)
<1>1. a \in 0..size /\ b \in 0..size
  OBVIOUS
<1>2. /\ Behind(out, a, size) = IF out + a < size THEN out + a ELSE out + a - size
      /\ Behind(out, b, size) = IF out + b < size THEN out + b ELSE out + b - size
  BY <1>1, BehindIs
<1> QED
  BY <1>2

\* The index that is stored next, or taken next, moves by one slot.
LEMMA IndexMoves ==
  ASSUME NEW size \in Nat \ {0}, NEW out \in 0..size - 1,
         NEW ring, ring.wMaxElementCount = size
  PROVE  /\ \A a \in 0..size - 1 :
              IndexAfter(ring, Behind(out, a, size)) = Behind(out, a + 1, size)
         /\ IndexAfter(ring, out) \in 0..size - 1
         /\ \A a \in 0..size - 1 :
              Behind(IndexAfter(ring, out), a, size) = Behind(out, a + 1, size)
<1> DEFINE next == IndexAfter(ring, out)
<1>1. \A a \in 0..size :
        Behind(out, a, size) = IF out + a < size THEN out + a ELSE out + a - size
  BY BehindIs
<1>2. next = (IF out + 1 = size THEN 0 ELSE out + 1) /\ next \in 0..size - 1
  BY DEF IndexAfter
<1> HIDE DEF next
<1>3. \A a \in 0..size :
        Behind(next, a, size) = IF next + a < size THEN next + a ELSE next + a - size
  BY <1>2, BehindIs
<1>4. ASSUME NEW a \in 0..size - 1
      PROVE  IndexAfter(ring, Behind(out, a, size)) = Behind(out, a + 1, size)
  <2>1. a \in 0..size /\ a + 1 \in 0..size
    OBVIOUS
  <2> QED
    BY <1>1, <2>1 DEF IndexAfter
<1>5. ASSUME NEW a \in 0..size - 1
      PROVE  Behind(next, a, size) = Behind(out, a + 1, size)
  <2>1. a \in 0..size /\ a + 1 \in 0..size
    OBVIOUS
  <2> QED
    BY <1>1, <1>2, <1>3, <2>1
<1> QED
  BY <1>2, <1>4, <1>5 DEF next

\* A ring of size slots that holds bytes of the set Byte.
RingRecord(size, Byte) ==
  [wMaxElementCount : {size}, wCount : 0..size, wInIndex : 0..size - 1,
   wOutIndex : 0..size - 1, pBuffer : [0..size - 1 -> Byte \cup {NULL}]]

IsRing(ring, size, Byte) ==
  /\ ring \in RingRecord(size, Byte)
  /\ ring.wInIndex = Behind(ring.wOutIndex, ring.wCount, size)
  /\ \A i \in 1..ring.wCount : ring.pBuffer[Behind(ring.wOutIndex, i - 1, size)] \in Byte

\* The content of a ring, slot by slot.
LEMMA ContentIs ==
  ASSUME NEW size \in Nat \ {0}, NEW Byte, NEW ring, IsRing(ring, size, Byte)
  PROVE  /\ Content(ring) \in Seq(Byte)
         /\ Len(Content(ring)) = ring.wCount
         /\ \A i \in 1..ring.wCount :
              Content(ring)[i] = ring.pBuffer[Behind(ring.wOutIndex, i - 1, size)]
<1> DEFINE n == ring.wCount
           at(i) == ring.pBuffer[Behind(ring.wOutIndex, i - 1, size)]
<1>1. n \in Nat /\ ring.wOutIndex \in Nat /\ ring.wMaxElementCount = size
  BY DEF IsRing, RingRecord
<1>2. \A i \in 1..n : ring.wOutIndex + i - 1 = ring.wOutIndex + (i - 1)
  BY <1>1
<1>3. Content(ring) = [i \in 1..n |-> at(i)]
  BY <1>1, <1>2 DEF Content, Behind
<1>4. \A i \in 1..n : at(i) \in Byte
  BY DEF IsRing, RingRecord
<1> HIDE DEF n, at
<1>5. [i \in 1..n |-> at(i)] \in [1..n -> Byte]
  BY <1>4
<1>6. Content(ring) \in Seq(Byte) /\ Len(Content(ring)) = n
  BY <1>1, <1>3, <1>5
<1>7. \A i \in 1..n : Content(ring)[i] = at(i)
  BY <1>3
<1> QED
  BY <1>6, <1>7 DEF n, at

\* The fields that RingAdd and RingGet change.
LEMMA RingRecordAdd ==
  ASSUME NEW size, NEW Byte, NEW ring \in RingRecord(size, Byte), NEW b,
         ring.wCount + 1 \in 0..size, IndexAfter(ring, ring.wInIndex) \in 0..size - 1,
         [ring.pBuffer EXCEPT ![ring.wInIndex] = b] \in [0..size - 1 -> Byte \cup {NULL}]
  PROVE  RingAdd(ring, b) \in RingRecord(size, Byte)
  BY DEF RingRecord, RingAdd

LEMMA RingRecordGet ==
  ASSUME NEW size, NEW Byte, NEW ring \in RingRecord(size, Byte),
         ring.wCount - 1 \in 0..size, IndexAfter(ring, ring.wOutIndex) \in 0..size - 1,
         [ring.pBuffer EXCEPT ![ring.wOutIndex] = NULL] \in [0..size - 1 -> Byte \cup {NULL}]
  PROVE  RingGet(ring) \in RingRecord(size, Byte)
  BY DEF RingRecord, RingGet

\* RingAdd appends a byte.
LEMMA RingAddAppends ==
  ASSUME NEW size \in Nat \ {0}, NEW Byte, NEW ring, IsRing(ring, size, Byte),
         ~RingFull(ring), NEW b \in Byte
  PROVE  /\ IsRing(RingAdd(ring, b), size, Byte)
         /\ Content(RingAdd(ring, b)) = Append(Content(ring), b)
         /\ RingAdd(ring, b).wCount = ring.wCount + 1
<1> DEFINE r == RingAdd(ring, b)
           n == ring.wCount
           out == ring.wOutIndex
           in == ring.wInIndex
<1>1. /\ n \in 0..size - 1 /\ n + 1 \in 0..size /\ out \in 0..size - 1 /\ in \in 0..size - 1
      /\ ring.wMaxElementCount = size
      /\ ring.pBuffer \in [0..size - 1 -> Byte \cup {NULL}]
      /\ in = Behind(out, n, size)
  BY DEF IsRing, RingRecord, RingFull
<1>2. /\ r.wMaxElementCount = size /\ r.wCount = n + 1 /\ r.wOutIndex = out
      /\ r.wInIndex = IndexAfter(ring, in)
      /\ r.pBuffer = [ring.pBuffer EXCEPT ![in] = b]
  BY DEF IsRing, RingRecord, RingAdd
<1>3. r.wInIndex = Behind(out, n + 1, size) /\ r.wInIndex \in 0..size - 1
  <2> HIDE DEF r, n, out, in
  <2>1. IndexAfter(ring, in) = Behind(out, n + 1, size)
    BY <1>1, IndexMoves
  <2>2. Behind(out, n + 1, size) \in 0..size - 1
    BY <1>1, BehindSlot
  <2> QED
    BY <1>2, <2>1, <2>2
<1>12. r \in RingRecord(size, Byte)
  <2>1. [ring.pBuffer EXCEPT ![in] = b] \in [0..size - 1 -> Byte \cup {NULL}]
    BY <1>1
  <2>2. ring \in RingRecord(size, Byte)
    BY DEF IsRing
  <2> QED
    BY <1>1, <1>2, <1>3, <2>1, <2>2, RingRecordAdd
<1> HIDE DEF r, n, out, in
<1>4. /\ r.pBuffer \in [0..size - 1 -> Byte \cup {NULL}] /\ r.pBuffer[in] = b
      /\ \A j \in 0..size - 1 : j # in => r.pBuffer[j] = ring.pBuffer[j]
  BY <1>1, <1>2
<1>5. \A i \in 1..n : r.pBuffer[Behind(out, i - 1, size)] = ring.pBuffer[Behind(out, i - 1, size)]
  <2> SUFFICES ASSUME NEW i \in 1..n
               PROVE  r.pBuffer[Behind(out, i - 1, size)] = ring.pBuffer[Behind(out, i - 1, size)]
    OBVIOUS
  <2>1. i - 1 \in 0..size - 1 /\ i - 1 # n /\ i - 1 \in 0..size
    BY <1>1
  <2>2. Behind(out, i - 1, size) \in 0..size - 1 /\ Behind(out, i - 1, size) # in
    BY <1>1, <2>1, BehindDiffer, BehindSlot
  <2> QED
    BY <1>4, <2>2
<1>6. r.pBuffer[Behind(out, (n + 1) - 1, size)] = b
  <2>1. (n + 1) - 1 = n
    BY <1>1
  <2> QED
    BY <1>1, <1>4, <2>1
<1>7. \A i \in 1..n : ring.pBuffer[Behind(out, i - 1, size)] \in Byte
  BY DEF IsRing, RingRecord, n, out
<1>8. IsRing(r, size, Byte)
  <2>1. \A i \in 1..n + 1 : r.pBuffer[Behind(out, i - 1, size)] \in Byte
    <3> SUFFICES ASSUME NEW i \in 1..n + 1 PROVE r.pBuffer[Behind(out, i - 1, size)] \in Byte
      OBVIOUS
    <3>1. i \in 1..n \/ i = n + 1
      BY <1>1
    <3> QED
      BY <1>5, <1>6, <1>7, <3>1
  <2> QED
    BY <1>2, <1>3, <1>12, <2>1 DEF IsRing
<1>9. /\ Content(ring) \in Seq(Byte) /\ Len(Content(ring)) = n
      /\ \A i \in 1..n : Content(ring)[i] = ring.pBuffer[Behind(out, i - 1, size)]
  BY ContentIs DEF n, out
<1>10. /\ Content(r) \in Seq(Byte) /\ Len(Content(r)) = n + 1
       /\ \A i \in 1..n + 1 : Content(r)[i] = r.pBuffer[Behind(out, i - 1, size)]
  BY <1>2, <1>8, ContentIs
<1>11. Content(r) = Append(Content(ring), b)
  <2> DEFINE q == Content(ring)
             a == Append(q, b)
  <2>1. a \in Seq(Byte) /\ Len(a) = n + 1 /\ a[n + 1] = b /\ \A i \in 1..n : a[i] = q[i]
    BY <1>1, <1>9
  <2>2. \A i \in 1..n : Content(r)[i] = q[i]
    <3> SUFFICES ASSUME NEW i \in 1..n PROVE Content(r)[i] = q[i]
      OBVIOUS
    <3>1. q[i] = ring.pBuffer[Behind(out, i - 1, size)]
      BY <1>9
    <3>2. i \in 1..n + 1
      BY <1>1
    <3>3. Content(r)[i] = r.pBuffer[Behind(out, i - 1, size)]
      BY <1>10, <3>2
    <3> QED
      BY <1>5, <3>1, <3>3
  <2>3. Content(r)[n + 1] = b
    <3>1. n + 1 \in 1..n + 1
      BY <1>1
    <3> QED
      BY <1>6, <1>10, <3>1
  <2> HIDE DEF q, a
  <2>4. \A i \in 1..n + 1 : i \in 1..n \/ i = n + 1
    BY <1>1
  <2>5. \A i \in 1..n + 1 : Content(r)[i] = a[i]
    BY <2>1, <2>2, <2>3, <2>4
  <2>6. Content(r) = a
    BY <1>10, <2>1, <2>5, SeqEqual
  <2> QED
    BY <2>6 DEF a, q
<1> QED
  BY <1>2, <1>8, <1>11 DEF r, n

\* RingGet takes the first byte, which RingNext returned.
LEMMA RingGetTakes ==
  ASSUME NEW size \in Nat \ {0}, NEW Byte, NEW ring, IsRing(ring, size, Byte),
         ring.wCount # 0
  PROVE  /\ IsRing(RingGet(ring), size, Byte)
         /\ Content(ring) # <<>>
         /\ RingNext(ring) = Head(Content(ring)) /\ RingNext(ring) \in Byte
         /\ Content(RingGet(ring)) = Tail(Content(ring))
         /\ RingGet(ring).wCount = ring.wCount - 1
<1> DEFINE r == RingGet(ring)
           n == ring.wCount
           out == ring.wOutIndex
           next == IndexAfter(ring, out)
<1>1. /\ n \in 1..size /\ out \in 0..size - 1
      /\ ring.wInIndex \in 0..size - 1
      /\ ring.wMaxElementCount = size
      /\ ring.pBuffer \in [0..size - 1 -> Byte \cup {NULL}]
      /\ ring.wInIndex = Behind(out, n, size)
  BY DEF IsRing, RingRecord
<1>2. /\ r.wMaxElementCount = size /\ r.wCount = n - 1 /\ r.wInIndex = ring.wInIndex
      /\ r.wOutIndex = next
      /\ r.pBuffer = [ring.pBuffer EXCEPT ![out] = NULL]
  BY DEF IsRing, RingRecord, RingGet
<1>3. RingNext(ring) = ring.pBuffer[out]
  BY DEF RingNext
<1>4. \A i \in 1..n : ring.pBuffer[Behind(out, i - 1, size)] \in Byte
  BY DEF IsRing, RingRecord
<1>5. /\ next \in 0..size - 1
      /\ \A a \in 0..size - 1 : Behind(next, a, size) = Behind(out, a + 1, size)
  <2> HIDE DEF n, out
  <2> QED
    BY <1>1, IndexMoves
<1>15. r \in RingRecord(size, Byte)
  <2>1. [ring.pBuffer EXCEPT ![out] = NULL] \in [0..size - 1 -> Byte \cup {NULL}]
    BY <1>1
  <2>2. ring \in RingRecord(size, Byte) /\ n - 1 \in 0..size
    BY <1>1 DEF IsRing
  <2> QED
    BY <1>1, <1>5, <2>1, <2>2, RingRecordGet
<1> HIDE DEF r, n, out, next
<1>6. r.wInIndex = Behind(next, n - 1, size)
  <2>1. n - 1 \in 0..size - 1 /\ (n - 1) + 1 = n
    BY <1>1
  <2> QED
    BY <1>1, <1>2, <1>5, <2>1
<1>7. r.pBuffer \in [0..size - 1 -> Byte \cup {NULL}]
      /\ \A j \in 0..size - 1 : j # out => r.pBuffer[j] = ring.pBuffer[j]
  BY <1>1, <1>2
<1>8. \A i \in 1..n - 1 : r.pBuffer[Behind(next, i - 1, size)] = ring.pBuffer[Behind(out, i, size)]
  <2> SUFFICES ASSUME NEW i \in 1..n - 1
               PROVE  r.pBuffer[Behind(next, i - 1, size)] = ring.pBuffer[Behind(out, i, size)]
    OBVIOUS
  <2>1. /\ i - 1 \in 0..size - 1 /\ (i - 1) + 1 = i /\ i \in 0..size - 1 /\ i # 0 /\ i \in 0..size
        /\ 0 \in 0..size - 1
    BY <1>1
  <2>2. Behind(next, i - 1, size) = Behind(out, i, size)
    BY <1>5, <2>1
  <2>3. Behind(out, i, size) # out /\ Behind(out, i, size) \in 0..size - 1
    <3>1. Behind(out, i, size) # Behind(out, 0, size)
      BY <1>1, <2>1, BehindDiffer
    <3>2. Behind(out, 0, size) = out
      BY <1>1, BehindZero
    <3>3. Behind(out, i, size) \in 0..size - 1
      BY <1>1, <2>1, BehindSlot
    <3> QED
      BY <3>1, <3>2, <3>3
  <2> QED
    BY <1>7, <2>2, <2>3
<1>9. \A i \in 1..n - 1 : i + 1 \in 1..n /\ (i + 1) - 1 = i
  BY <1>1
<1>10. IsRing(r, size, Byte)
  <2>1. \A i \in 1..n - 1 : r.pBuffer[Behind(next, i - 1, size)] \in Byte
    BY <1>4, <1>8, <1>9
  <2> QED
    BY <1>2, <1>6, <1>15, <2>1 DEF IsRing
<1>11. /\ Content(ring) \in Seq(Byte) /\ Len(Content(ring)) = n
       /\ \A i \in 1..n : Content(ring)[i] = ring.pBuffer[Behind(out, i - 1, size)]
  BY ContentIs DEF n, out
<1>12. /\ Content(r) \in Seq(Byte) /\ Len(Content(r)) = n - 1
       /\ \A i \in 1..n - 1 : Content(r)[i] = r.pBuffer[Behind(next, i - 1, size)]
  BY <1>2, <1>10, ContentIs
<1>13. /\ Content(ring) # <<>>
       /\ RingNext(ring) = Head(Content(ring)) /\ RingNext(ring) \in Byte
  <2>1. 1 \in 1..n /\ 1 - 1 = 0 /\ Behind(out, 0, size) = out
    BY <1>1, BehindZero
  <2>2. Content(ring)[1] = ring.pBuffer[out]
    BY <1>11, <2>1
  <2>3. Content(ring) # <<>> /\ Head(Content(ring)) = Content(ring)[1]
    BY <1>1, <1>11
  <2>4. ring.pBuffer[out] \in Byte
    BY <1>4, <2>1
  <2> QED
    BY <1>3, <2>2, <2>3, <2>4
<1>14. Content(r) = Tail(Content(ring))
  <2> DEFINE q == Content(ring)
             a == Tail(q)
  <2>1. a \in Seq(Byte) /\ Len(a) = n - 1 /\ \A i \in 1..n - 1 : a[i] = q[i + 1]
    BY <1>1, <1>11, <1>13, HeadTailProperties
  <2>2. \A i \in 1..n - 1 : Content(r)[i] = q[i + 1]
    <3> SUFFICES ASSUME NEW i \in 1..n - 1 PROVE Content(r)[i] = q[i + 1]
      OBVIOUS
    <3>1. q[i + 1] = ring.pBuffer[Behind(out, i, size)]
      BY <1>9, <1>11
    <3>2. Content(r)[i] = ring.pBuffer[Behind(out, i, size)]
      BY <1>8, <1>12
    <3> QED
      BY <3>1, <3>2
  <2> DEFINE c == Content(r)
  <2>3. c \in Seq(Byte) /\ Len(c) = n - 1
    BY <1>12
  <2> HIDE DEF q, a, c
  <2>4. Len(c) = Len(a)
    BY <2>1, <2>3
  <2>5. \A i \in 1..Len(c) : c[i] = a[i]
    BY <2>1, <2>2, <2>3 DEF c
  <2>6. c = a
    BY <2>1, <2>3, <2>4, <2>5, SeqEqual
  <2> QED
    BY <2>6 DEF a, c, q
<1> QED
  BY <1>2, <1>10, <1>13, <1>14 DEF r, n

-----------------------------------------------------------------------------
(* The inductive invariant.                                                  *)

LockedPlaces == SendPlaces \ {"lockTx"}
ReaderPlaces ==
  ReadPlaces \cup {"freeRxThenCount", "countThenFreeRx", "wait", "waitTest", "signalled",
                   "signalledTest", "count", "freeRx", "deleteSema", "createSema"}

\* Only the reader receives, and who waits for a semaphore is where one waits for it.
MayWait(t, s, place) ==
  \/ s = "TxSema" /\ place = "lockTx"
  \/ s = "Sema" /\ place \in ReadPlaces
  \/ s = "RxRdySema" /\ place \in {"signalled", "signalledTest", "freeRx", "idle"} /\ t = Reader
PlacesInv ==
  /\ pc \in [Task -> {"idle"} \cup SendPlaces \cup ReaderPlaces]
  /\ \A t \in Task : pc[t] \in ReaderPlaces => t = Reader
  /\ waiting \in [ComSema -> SUBSET Task]
  /\ \A s \in ComSema : \A t \in waiting[s] : MayWait(t, s, pc[t])
  /\ DOMAIN result = Task
  /\ tokens \in [ComSema -> 0..2 * RX_RING_BUFFER_SIZE]

\* The transmit lock: its token is there, or one task holds it.
HoldsTx(t) == pc[t] \in SendPlaces /\ t \notin waiting["TxSema"]
LockInv ==
  /\ tokens["TxSema"] \in {0, 1}
  /\ \A t \in Task : HoldsTx(t) => tokens["TxSema"] = 0
  /\ \A t, u \in Task : HoldsTx(t) /\ HoldsTx(u) => t = u

\* How far a task is with its block, and that a block that was found to fit still
\* fits.
BlockAt(t) ==
  IF pc[t] \notin SendPlaces THEN block[t] = NULL ELSE
    /\ block[t] \in TxByte /\ block[t].index \in Nat \ {0}
    /\ pc[t] = "lockTx" => block[t].index = 1
    /\ pc[t] \in {"putAll", "putByte", "full", "restart"} => block[t].index <= block[t].size
    /\ pc[t] = "putAll" =>
         TxRing.wCount + (block[t].size - block[t].index) < TX_RING_BUFFER_SIZE
    /\ pc[t] = "startTx" => block[t].index <= block[t].size + 1
    /\ pc[t] = "freeTx" => block[t].index > block[t].size
BlockInv ==
  /\ block \in [Task -> TxByte \cup {NULL}]
  /\ \A t \in Task : BlockAt(t)

\* The transmitter runs, or somebody is about to start it.
WillStart(t) == pc[t] \in {"putAll", "startTx"}
UartInv ==
  /\ IsRing(TxRing, TX_RING_BUFFER_SIZE, TxByte)
  /\ UART_THR \in TxByte \cup {NULL} /\ txLast \in TxByte \cup {NULL}
  /\ UART_INT_THR \in BOOLEAN
  /\ UART_THR # NULL => UART_INT_THR
  /\ TxRing.wCount > 0 => UART_INT_THR \/ \E t \in Task : WillStart(t)

\* The bytes on their way out: the last one handed to the UART, the last one of
\* all, and that each follows the one before it.
LastOut == IF UART_THR = NULL THEN txLast ELSE UART_THR
LastSent == IF TxRing.wCount = 0 THEN LastOut ELSE Content(TxRing)[TxRing.wCount]
Complete(a) == a = NULL \/ a.index = a.size
ChainInv ==
  /\ UART_THR # NULL => Follows(txLast, UART_THR)
  /\ TxRing.wCount > 0 => Follows(LastOut, Content(TxRing)[1])
  /\ \A i \in 1..TxRing.wCount - 1 : Follows(Content(TxRing)[i], Content(TxRing)[i + 1])

\* The holder of the lock goes on with its block; when it has sent all of it, and
\* when there is no holder, the last block is complete.
Unsent(t) == pc[t] \in LockedPlaces /\ block[t].index <= block[t].size
NextInv ==
  /\ \A t \in Task : Unsent(t) => Follows(LastSent, block[t])
  /\ (\A t \in Task : ~Unsent(t)) => Complete(LastSent)

\* The bytes received are numbered without a gap.
ReceivedInv ==
  /\ IsRing(RxRing, RX_RING_BUFFER_SIZE, Number)
  /\ bRxOverflow = FALSE /\ rxCount \in Number /\ rxLast \in Number
  /\ RxRing.wCount = 0 => rxCount = NumberAfter(rxLast)
  /\ RxRing.wCount > 0 => /\ Content(RxRing)[1] = NumberAfter(rxLast)
                          /\ rxCount = NumberAfter(Content(RxRing)[RxRing.wCount])
  /\ \A i \in 1..RxRing.wCount - 1 :
       Content(RxRing)[i + 1] = NumberAfter(Content(RxRing)[i])

\* How many bytes the semaphore may promise of the w in the ring, by where the
\* reader is.  Only tal_COMClearOverflow breaks the count, between its two resets.
CountPlaces == {"freeRxThenCount", "countThenFreeRx", "count"}
WaitPlaces == {"wait", "waitTest"}
AfterWait == {"signalled", "signalledTest"}
ClearPlaces == {"deleteSema", "createSema"}
Promise(place, sleeps, code, k, w) ==
  /\ sleeps => k = 0
  /\ place \in AfterWait /\ sleeps => w = 0
  /\ place \in AfterWait /\ ~sleeps /\ code = "OK" => k + 1 <= w
  /\ place \in AfterWait /\ ~sleeps => k <= w
  /\ place \in WaitPlaces => k = w
  /\ place \in CountPlaces => k <= w + 1
  /\ place \notin AfterWait \cup WaitPlaces \cup CountPlaces \cup ClearPlaces => k <= w
Sleeps == Reader \in waiting["RxRdySema"]
PromiseInv ==
  Promise(pc[Reader], Sleeps, result[Reader], tokens["RxRdySema"], RxRing.wCount)

ComInv ==
  /\ PlacesInv /\ LockInv /\ BlockInv /\ UartInv /\ ChainInv /\ NextInv
  /\ ReceivedInv /\ PromiseInv

-----------------------------------------------------------------------------
(* Places and semaphores.                                                    *)

\* What the kernel calls do.
Takes(t, s) ==
  /\ tokens[s] > 0 /\ tokens' = [tokens EXCEPT ![s] = @ - 1]
  /\ waiting' = waiting /\ result' = [result EXCEPT ![t] = "OK"]
Queues(t, s) ==
  /\ tokens[s] = 0 /\ tokens' = tokens
  /\ waiting' = [waiting EXCEPT ![s] = @ \cup {t}] /\ result' = [result EXCEPT ![t] = "ERROR"]
Posts(s) ==
  /\ waiting[s] = {} /\ tokens[s] < 2 * RX_RING_BUFFER_SIZE
  /\ tokens' = [tokens EXCEPT ![s] = @ + 1]
  /\ waiting' = waiting /\ result' = result
Grants(u, s) ==
  /\ u \in waiting[s] /\ tokens' = tokens
  /\ waiting' = [waiting EXCEPT ![s] = @ \ {u}] /\ result' = [result EXCEPT ![u] = "OK"]

LEMMA WaitEffect ==
  ASSUME NEW t, NEW s, OS_SemaWait(t, s)
  PROVE  Takes(t, s) \/ Queues(t, s)
  BY DEF OS_SemaWait, Kernel!Take, Kernel!Queue, Takes, Queues

LEMMA SignalEffect ==
  ASSUME NEW s, OS_SemaSignal(s)
  PROVE  Posts(s) \/ \E u \in waiting[s] : Grants(u, s)
  BY DEF OS_SemaSignal, Kernel!Post, Kernel!Grant, Posts, Grants

\* The semaphores keep their types, and only the caller may start to wait.
LEMMA KernelTypes ==
  ASSUME PlacesInv, NEW t \in Task, NEW s \in ComSema,
         OS_SemaWait(t, s) \/ OS_SemaSignal(s)
  PROVE  /\ waiting' \in [ComSema -> SUBSET Task]
         /\ tokens' \in [ComSema -> 0..2 * RX_RING_BUFFER_SIZE]
         /\ DOMAIN result' = Task
         /\ \A x \in ComSema : \A u \in waiting'[x] :
              u \in waiting[x] \/ (u = t /\ x = s /\ OS_SemaWait(t, s))
         /\ \A x \in ComSema \ {s} : waiting'[x] = waiting[x] /\ tokens'[x] = tokens[x]
<1>0. RX_RING_BUFFER_SIZE \in Nat \ {0}
  BY RingAssumption
<1>1. CASE OS_SemaWait(t, s) /\ Takes(t, s)
  BY <1>0, <1>1 DEF PlacesInv, Takes
<1>2. CASE OS_SemaWait(t, s) /\ Queues(t, s)
  BY <1>0, <1>2 DEF PlacesInv, Queues
<1>3. CASE Posts(s)
  BY <1>0, <1>3 DEF PlacesInv, Posts
<1>4. CASE \E u \in waiting[s] : Grants(u, s)
  BY <1>0, <1>4 DEF PlacesInv, Grants
<1> QED
  BY <1>1, <1>2, <1>3, <1>4, WaitEffect, SignalEffect

\* A task moves to a place.  Whoever was waiting waits where it did.
LEMMA TaskMoves ==
  ASSUME PlacesInv, NEW t \in Task, ~Blocked(t), NEW place, pc' = [pc EXCEPT ![t] = place],
         place \in {"idle"} \cup SendPlaces \cup ReaderPlaces,
         place \in ReaderPlaces => t = Reader,
         waiting' \in [ComSema -> SUBSET Task],
         tokens' \in [ComSema -> 0..2 * RX_RING_BUFFER_SIZE],
         DOMAIN result' = Task,
         \A s \in ComSema : \A u \in waiting'[s] :
           u \in waiting[s] \/ (u = t /\ MayWait(t, s, place))
  PROVE  /\ PlacesInv'
         /\ pc'[t] = place /\ \A u \in Task \ {t} : pc'[u] = pc[u]
<1>1. pc'[t] = place /\ \A u \in Task \ {t} : pc'[u] = pc[u]
  BY DEF PlacesInv
<1>2. \A s \in ComSema : t \notin waiting[s]
  BY DEF Blocked
<1>3. \A s \in ComSema : \A u \in waiting'[s] : MayWait(u, s, pc'[u])
  <2> SUFFICES ASSUME NEW s \in ComSema, NEW u \in waiting'[s] PROVE MayWait(u, s, pc'[u])
    OBVIOUS
  <2>1. CASE u \in waiting[s]
    <3>1. u # t /\ u \in Task /\ MayWait(u, s, pc[u])
      BY <1>2, <2>1 DEF PlacesInv
    <3> QED
      BY <1>1, <3>1
  <2>2. CASE u = t /\ MayWait(t, s, place)
    BY <1>1, <2>2
  <2> QED
    BY <2>1, <2>2
<1>4. /\ pc' \in [Task -> {"idle"} \cup SendPlaces \cup ReaderPlaces]
      /\ \A u \in Task : pc'[u] \in ReaderPlaces => u = Reader
  BY <1>1 DEF PlacesInv
<1> QED
  BY <1>1, <1>3, <1>4 DEF PlacesInv

\* Nobody moves, and nobody starts to wait.
LEMMA NobodyMoves ==
  ASSUME PlacesInv, pc' = pc,
         waiting' \in [ComSema -> SUBSET Task],
         tokens' \in [ComSema -> 0..2 * RX_RING_BUFFER_SIZE],
         DOMAIN result' = Task,
         \A s \in ComSema : waiting'[s] \subseteq waiting[s]
  PROVE  PlacesInv'
  BY DEF PlacesInv
-----------------------------------------------------------------------------
(* Bytes on their way out.                                                   *)

TxInv == LockInv /\ BlockInv /\ UartInv /\ ChainInv /\ NextInv
RxInv == ReceivedInv /\ PromiseInv

\* A byte that follows the last one goes into the ring.
LEMMA ByteIn ==
  ASSUME UartInv, ChainInv, ~RingFull(TxRing), NEW b \in TxByte, Follows(LastSent, b),
         TxRing' = RingAdd(TxRing, b), UNCHANGED <<uartVars, txLast>>
  PROVE  /\ IsRing(TxRing', TX_RING_BUFFER_SIZE, TxByte)
         /\ TxRing'.wCount = TxRing.wCount + 1
         /\ ChainInv'
         /\ LastSent' = b
<1> DEFINE q == Content(TxRing)
           r == TxRing'
           n == TxRing.wCount
<1>0. TX_RING_BUFFER_SIZE \in Nat \ {0} /\ n \in Nat
  BY RingAssumption DEF UartInv, IsRing, RingRecord
<1>1. /\ IsRing(r, TX_RING_BUFFER_SIZE, TxByte) /\ Content(r) = Append(q, b) /\ r.wCount = n + 1
      /\ q \in Seq(TxByte) /\ Len(q) = n
  BY <1>0, RingAddAppends, ContentIs DEF UartInv
<1>2. UART_THR' = UART_THR /\ txLast' = txLast /\ LastOut' = LastOut
  BY DEF uartVars, LastOut
<1>3. /\ UART_THR # NULL => Follows(txLast, UART_THR)
      /\ n > 0 => Follows(LastOut, q[1])
      /\ \A i \in 1..n - 1 : Follows(q[i], q[i + 1])
      /\ LastSent = IF n = 0 THEN LastOut ELSE q[n]
  BY DEF ChainInv, LastSent
<1> HIDE DEF q, r, n
<1>4. \A i \in 1..n : Content(r)[i] = q[i]
  BY <1>0, <1>1
<1>5. Content(r)[n + 1] = b
  BY <1>0, <1>1
<1>6. Follows(LastOut, Content(r)[1])
  <2>1. CASE n = 0
    BY <1>3, <1>5, <2>1
  <2>2. CASE n > 0
    BY <1>0, <1>3, <1>4, <2>2
  <2> QED
    BY <1>0, <2>1, <2>2
<1>7. \A i \in 1..n : Follows(Content(r)[i], Content(r)[i + 1])
  <2> SUFFICES ASSUME NEW i \in 1..n PROVE Follows(Content(r)[i], Content(r)[i + 1])
    OBVIOUS
  <2>1. Content(r)[i] = q[i]
    BY <1>4
  <2>2. CASE i = n
    BY <1>0, <1>3, <1>5, <2>1, <2>2
  <2>3. CASE i # n
    <3>1. i \in 1..n - 1 /\ i + 1 \in 1..n
      BY <1>0, <2>3
    <3> QED
      BY <1>3, <1>4, <2>1, <3>1
  <2> QED
    BY <2>2, <2>3
<1>8. r.wCount # 0 /\ (n + 1) - 1 = n
  BY <1>0, <1>1
<1>9. ChainInv'
  BY <1>1, <1>2, <1>3, <1>6, <1>7, <1>8 DEF ChainInv, r
<1>10. LastSent' = b
  BY <1>1, <1>5, <1>8 DEF LastSent, r
<1> QED
  BY <1>1, <1>9, <1>10 DEF r, n

\* The first byte of the ring goes into the empty holding register.
LEMMA ByteOut ==
  ASSUME UartInv, ChainInv, UART_THR = NULL, TxRing.wCount # 0,
         UART_THR' = RingNext(TxRing), TxRing' = RingGet(TxRing), txLast' = txLast
  PROVE  /\ IsRing(TxRing', TX_RING_BUFFER_SIZE, TxByte)
         /\ TxRing'.wCount = TxRing.wCount - 1
         /\ UART_THR' \in TxByte /\ UART_THR' # NULL
         /\ ChainInv'
         /\ LastSent' = LastSent
<1> DEFINE q == Content(TxRing)
           r == TxRing'
           n == TxRing.wCount
<1>0. TX_RING_BUFFER_SIZE \in Nat \ {0} /\ n \in Nat \ {0}
  BY RingAssumption DEF UartInv, IsRing, RingRecord
<1>1. /\ IsRing(r, TX_RING_BUFFER_SIZE, TxByte) /\ Content(r) = Tail(q) /\ r.wCount = n - 1
      /\ q \in Seq(TxByte) /\ Len(q) = n /\ q # <<>>
      /\ UART_THR' = Head(q) /\ UART_THR' \in TxByte
  BY <1>0, RingGetTakes, ContentIs DEF UartInv
<1>2. UART_THR' # NULL /\ LastOut = txLast /\ LastOut' = UART_THR'
  BY <1>1, NullAssumption DEF LastOut
<1>3. /\ Follows(LastOut, q[1])
      /\ \A i \in 1..n - 1 : Follows(q[i], q[i + 1])
      /\ LastSent = q[n]
  BY <1>0 DEF ChainInv, LastSent
<1>10. txLast' = txLast
  OBVIOUS
<1> HIDE DEF q, r, n
<1>4. UART_THR' = q[1] /\ \A i \in 1..n - 1 : Content(r)[i] = q[i + 1]
  BY <1>0, <1>1, HeadTailProperties
<1>5. Follows(txLast', UART_THR')
  BY <1>2, <1>3, <1>4, <1>10
<1>6. n - 1 > 0 => Follows(LastOut', Content(r)[1])
  <2>1. n - 1 > 0 => 1 \in 1..n - 1
    BY <1>0
  <2> QED
    BY <1>2, <1>3, <1>4, <2>1
<1>7. \A i \in 1..(n - 1) - 1 : Follows(Content(r)[i], Content(r)[i + 1])
  <2>1. \A i \in 1..(n - 1) - 1 : i \in 1..n - 1 /\ i + 1 \in 1..n - 1
    BY <1>0
  <2> QED
    BY <1>3, <1>4, <2>1
<1>8. ChainInv'
  BY <1>1, <1>2, <1>5, <1>6, <1>7 DEF ChainInv, r
<1>9. LastSent' = LastSent
  <2>1. CASE n = 1
    BY <1>1, <1>2, <1>3, <1>4, <2>1 DEF LastSent, r
  <2>2. CASE n # 1
    <3>1. n - 1 # 0 /\ n - 1 \in 1..n - 1 /\ (n - 1) + 1 = n
      BY <1>0, <2>2
    <3>2. Content(r)[n - 1] = q[n]
      BY <1>4, <3>1
    <3> QED
      BY <1>1, <1>3, <3>1, <3>2 DEF LastSent, r
  <2> QED
    BY <2>1, <2>2
<1> QED
  BY <1>1, <1>2, <1>8, <1>9 DEF r, n

\* cpu_COMStartTx hands over a byte only when the register is empty.
LEMMA StartEffect ==
  ASSUME UartInv, ChainInv, cpu_COMStartTx
  PROVE  /\ UartInv' /\ ChainInv' /\ LastSent' = LastSent
         /\ TxRing'.wCount \in Nat /\ TxRing'.wCount <= TxRing.wCount
         /\ UNCHANGED <<rxVars, semaVars>>
<1>0. TX_RING_BUFFER_SIZE \in Nat \ {0} /\ TxRing.wCount \in Nat
  BY RingAssumption DEF UartInv, IsRing, RingRecord
<1>1. CASE UART_INT_THR \/ TxRing.wCount = 0
  <2>1. UNCHANGED <<TxRing, UART_THR, UART_INT_THR, txLast>> /\ UNCHANGED <<rxVars, semaVars>>
    BY <1>1 DEF cpu_COMStartTx, uartVars
  <2>2. ChainInv' /\ LastSent' = LastSent
    BY <2>1 DEF ChainInv, LastSent, LastOut
  <2>3. UartInv'
    BY <1>0, <1>1, <2>1 DEF UartInv
  <2> QED
    BY <1>0, <2>1, <2>2, <2>3
<1>2. CASE ~UART_INT_THR /\ TxRing.wCount # 0
  <2>1. /\ UART_THR' = RingNext(TxRing) /\ TxRing' = RingGet(TxRing) /\ txLast' = txLast
        /\ UART_INT_THR' = TRUE /\ UNCHANGED <<rxVars, semaVars>>
    BY <1>2 DEF cpu_COMStartTx
  <2>2. UART_THR = NULL
    BY <1>2 DEF UartInv
  <2>3. /\ IsRing(TxRing', TX_RING_BUFFER_SIZE, TxByte)
        /\ TxRing'.wCount = TxRing.wCount - 1
        /\ UART_THR' \in TxByte
        /\ ChainInv' /\ LastSent' = LastSent
    BY <1>2, <2>1, <2>2, ByteOut
  <2>4. UartInv'
    BY <2>1, <2>3 DEF UartInv
  <2> QED
    BY <1>0, <1>2, <2>1, <2>3, <2>4
<1> QED
  BY <1>1, <1>2
-----------------------------------------------------------------------------
(* Sending.                                                                  *)

LEMMA TxTypes ==
  ASSUME BlockInv, UartInv
  PROVE  /\ TxRing.wCount \in 0..TX_RING_BUFFER_SIZE /\ TX_RING_BUFFER_SIZE \in Nat \ {0}
         /\ TxRing.wMaxElementCount = TX_RING_BUFFER_SIZE
         /\ \A t \in Task : pc[t] \in SendPlaces =>
              block[t] \in TxByte /\ block[t].index \in Nat \ {0} /\ block[t].size \in Nat \ {0}
<1>1. \A b \in TxByte : b.size \in Nat \ {0}
  BY BlockAssumption DEF TxByte
<1>2. \A t \in Task : pc[t] \in SendPlaces => block[t] \in TxByte /\ block[t].index \in Nat \ {0}
  BY DEF BlockInv, BlockAt
<1> QED
  BY <1>1, <1>2, RingAssumption DEF UartInv, IsRing, RingRecord

\* Whoever is behind "lockTx" holds the lock, so there is one such task at most.
LEMMA Holder ==
  ASSUME PlacesInv, LockInv, NEW t \in Task, pc[t] \in LockedPlaces
  PROVE  /\ HoldsTx(t) /\ ~Blocked(t) /\ tokens["TxSema"] = 0
         /\ \A u \in Task \ {t} : pc[u] \notin LockedPlaces /\ ~HoldsTx(u)
<1>1. \A u \in Task : pc[u] \in LockedPlaces => ~Blocked(u)
  BY DEF LockedPlaces, SendPlaces, Blocked, PlacesInv, MayWait, ReadPlaces
<1>2. \A u \in Task : pc[u] \in LockedPlaces => HoldsTx(u)
  BY <1>1 DEF HoldsTx, LockedPlaces, Blocked, ComSema
<1> QED
  BY <1>1, <1>2 DEF LockInv

\* A step that leaves sending alone.
LEMMA TxKept ==
  ASSUME TxInv, UNCHANGED <<txVars, block>>,
         tokens'["TxSema"] = tokens["TxSema"], waiting'["TxSema"] = waiting["TxSema"],
         \A u \in Task : pc'[u] = pc[u] \/ (pc[u] \notin SendPlaces /\ pc'[u] \notin SendPlaces)
  PROVE  TxInv'
<1>1. UNCHANGED <<TxRing, UART_THR, UART_INT_THR, txLast, block>>
  BY DEF txVars, uartVars
<1>2. /\ \A u \in Task : HoldsTx(u)' = HoldsTx(u)
      /\ \A u \in Task : WillStart(u) => WillStart(u)'
      /\ \A u \in Task : Unsent(u)' = Unsent(u)
  BY <1>1 DEF HoldsTx, WillStart, Unsent, LockedPlaces, SendPlaces
<1>3. LockInv'
  BY <1>2 DEF LockInv, TxInv
<1>4. BlockInv'
  <2> SUFFICES ASSUME NEW t \in Task PROVE BlockAt(t)'
    BY <1>1 DEF TxInv, BlockInv
  <2>1. BlockAt(t)
    BY DEF TxInv, BlockInv
  <2> QED
    BY <1>1, <2>1 DEF BlockAt, SendPlaces
<1>5. UartInv'
  BY <1>1, <1>2 DEF TxInv, UartInv
<1>6. ChainInv' /\ LastSent' = LastSent
  BY <1>1 DEF TxInv, ChainInv, LastSent, LastOut
<1>7. NextInv'
  BY <1>1, <1>2, <1>6 DEF TxInv, NextInv, Complete
<1> QED
  BY <1>3, <1>4, <1>5, <1>6, <1>7 DEF TxInv

\* The holder of the lock moves on and keeps it.
LEMMA HolderMoves ==
  ASSUME PlacesInv, LockInv, NEW t \in Task, HoldsTx(t), ~Blocked(t), NEW place,
         pc' = [pc EXCEPT ![t] = place], place \in SendPlaces, UNCHANGED semaVars
  PROVE  /\ PlacesInv' /\ LockInv'
         /\ pc'[t] = place /\ \A u \in Task \ {t} : pc'[u] = pc[u]
<1>1. UNCHANGED <<tokens, waiting, result>>
  BY DEF semaVars
<1>2. /\ PlacesInv'
      /\ pc'[t] = place /\ \A u \in Task \ {t} : pc'[u] = pc[u]
  <2>1. place \notin ReaderPlaces
    BY DEF SendPlaces, ReaderPlaces, ReadPlaces
  <2>2. /\ waiting' \in [ComSema -> SUBSET Task] /\ DOMAIN result' = Task
        /\ tokens' \in [ComSema -> 0..2 * RX_RING_BUFFER_SIZE]
        /\ \A s \in ComSema : \A u \in waiting'[s] : u \in waiting[s]
    BY <1>1 DEF PlacesInv
  <2> QED
    BY <2>1, <2>2, TaskMoves
<1>3. \A u \in Task : HoldsTx(u)' => HoldsTx(u)
  BY <1>1, <1>2 DEF HoldsTx
<1>4. LockInv'
  BY <1>1, <1>3 DEF LockInv
<1> QED
  BY <1>2, <1>4

\* What the holder of the lock does keeps the other tasks' blocks in order: they
\* have not begun with them.
LEMMA OthersBlocks ==
  ASSUME PlacesInv, LockInv, BlockInv, NEW t \in Task, HoldsTx(t),
         \A u \in Task \ {t} : pc'[u] = pc[u] /\ block'[u] = block[u]
  PROVE  \A u \in Task \ {t} : BlockAt(u)' /\ ~Unsent(u)'
<1> SUFFICES ASSUME NEW u \in Task \ {t} PROVE BlockAt(u)' /\ ~Unsent(u)'
  OBVIOUS
<1>1. ~HoldsTx(u)
  BY DEF LockInv
<1>2. pc[u] \notin LockedPlaces
  BY <1>1, Holder
<1>3. BlockAt(u)
  BY DEF BlockInv
<1> QED
  BY <1>2, <1>3 DEF BlockAt, Unsent, LockedPlaces, SendPlaces

\* A step of the holder, from its own part of the invariant.
LEMMA HolderKeeps ==
  ASSUME PlacesInv, TxInv, NEW t \in Task, HoldsTx(t), LockInv',
         \A u \in Task \ {t} : pc'[u] = pc[u] /\ block'[u] = block[u],
         block' \in [Task -> TxByte \cup {NULL}],
         UartInv', ChainInv', BlockAt(t)',
         Unsent(t)' => Follows(LastSent', block'[t]),
         ~Unsent(t)' => Complete(LastSent')
  PROVE  TxInv'
<1>1. \A u \in Task \ {t} : BlockAt(u)' /\ ~Unsent(u)'
  BY OthersBlocks DEF TxInv
<1>2. BlockInv'
  BY <1>1 DEF BlockInv
<1>3. \A u \in Task : Unsent(u)' => Follows(LastSent', block'[u])
  BY <1>1
<1>4. (\A u \in Task : ~Unsent(u)') => Complete(LastSent')
  OBVIOUS
<1>5. NextInv'
  BY <1>3, <1>4 DEF NextInv, Complete
<1> QED
  BY <1>2, <1>5 DEF TxInv
\* CheckSpace, and a retry that finds the ring still full, only move the holder.
LEMMA MoveOnly ==
  ASSUME PlacesInv, TxInv, NEW t \in Task, HoldsTx(t), ~Blocked(t), NEW place,
         pc' = [pc EXCEPT ![t] = place], UNCHANGED <<rxVars, txVars, semaVars, block>>,
         place \in {"putAll", "putByte", "full", "restart"},
         pc[t] \in {"lockTx", "putByte", "full", "restart"},
         place = "putAll" =>
           TxRing.wCount + (block[t].size - block[t].index) < TX_RING_BUFFER_SIZE
  PROVE  PlacesInv' /\ TxInv'
<1>0. /\ UNCHANGED <<TxRing, UART_THR, UART_INT_THR, txLast, block>> /\ UNCHANGED semaVars
      /\ place \in SendPlaces /\ place \in LockedPlaces /\ pc[t] \in SendPlaces
      /\ ~WillStart(t)
  BY DEF txVars, uartVars, SendPlaces, LockedPlaces, WillStart
<1>1. /\ PlacesInv' /\ LockInv' /\ pc'[t] = place
      /\ \A u \in Task \ {t} : pc'[u] = pc[u] /\ block'[u] = block[u]
  BY <1>0, HolderMoves DEF TxInv
<1>2. /\ block[t] \in TxByte /\ block[t].index \in Nat \ {0} /\ block[t].size \in Nat \ {0}
      /\ block[t].index <= block[t].size
      /\ pc[t] = "lockTx" => block[t].index = 1
  <2>1. block[t] \in TxByte /\ block[t].index \in Nat \ {0} /\ block[t].size \in Nat \ {0}
    BY <1>0, TxTypes DEF TxInv
  <2>2. BlockAt(t)
    BY DEF TxInv, BlockInv
  <2> QED
    BY <1>0, <2>1, <2>2 DEF BlockAt
<1>3. BlockAt(t)'
  BY <1>0, <1>1, <1>2 DEF BlockAt
<1>4. UartInv'
  BY <1>0, <1>1 DEF TxInv, UartInv, WillStart
<1>5. ChainInv' /\ LastSent' = LastSent
  BY <1>0 DEF TxInv, ChainInv, LastSent, LastOut
<1>6. Follows(LastSent, block[t])
  <2>1. CASE pc[t] = "lockTx"
    <3>1. \A u \in Task : ~Unsent(u)
      <4>1. \A u \in Task \ {t} : ~HoldsTx(u)
        BY DEF TxInv, LockInv
      <4>2. \A u \in Task : pc[u] \in LockedPlaces => HoldsTx(u)
        BY Holder DEF TxInv
      <4> QED
        BY <2>1, <4>1, <4>2 DEF Unsent, LockedPlaces
    <3>2. Complete(LastSent)
      BY <3>1 DEF TxInv, NextInv
    <3> QED
      BY <1>2, <2>1, <3>2 DEF Complete, Follows
  <2>2. CASE pc[t] # "lockTx"
    <3>1. Unsent(t)
      BY <1>0, <1>2, <2>2 DEF Unsent, LockedPlaces
    <3> QED
      BY <3>1 DEF TxInv, NextInv
  <2> QED
    BY <2>1, <2>2
<1>7. Unsent(t)'
  BY <1>0, <1>1, <1>2 DEF Unsent
<1>8. block' \in [Task -> TxByte \cup {NULL}]
  BY <1>0 DEF TxInv, BlockInv
<1>9. TxInv'
  BY <1>0, <1>1, <1>3, <1>4, <1>5, <1>6, <1>7, <1>8, HolderKeeps
<1> QED
  BY <1>1, <1>9

\* A byte of a block becomes the next one.
LEMMA NextByte ==
  ASSUME NEW b \in TxByte, b.index \in Nat \ {0}, b.index <= b.size, b.size \in Nat,
         NEW c, c = [b EXCEPT !.index = @ + 1]
  PROVE  /\ c \in TxByte /\ c.index = b.index + 1 /\ c.size = b.size
         /\ c.index <= c.size => Follows(b, c)
         /\ ~(c.index <= c.size) => Complete(b)
<1>1. c \in TxByte /\ c.index = b.index + 1 /\ c.size = b.size
  BY DEF TxByte
<1>2. b # NULL
  BY NullAssumption
<1>3. ASSUME c.index <= c.size PROVE Follows(b, c)
  <2>1. b.index # b.size
    BY <1>1, <1>3
  <2> QED
    BY <1>2, <2>1 DEF Follows
<1>4. ASSUME ~(c.index <= c.size) PROVE Complete(b)
  BY <1>1, <1>4 DEF Complete
<1> QED
  BY <1>1, <1>3, <1>4

\* The holder stores the next byte of its block.
LEMMA PutKeeps ==
  ASSUME PlacesInv, TxInv, NEW t \in Task, HoldsTx(t), ~Blocked(t), NEW place,
         pc' = [pc EXCEPT ![t] = place], PutByte(t), ~RingFull(TxRing),
         pc[t] \in {"putAll", "putByte", "full"}, place \in {"putAll", "startTx"},
         place = "putAll" => pc[t] = "putAll" /\ block[t].index # block[t].size
  PROVE  PlacesInv' /\ TxInv' /\ UNCHANGED <<rxVars, semaVars>>
<1> DEFINE b == block[t]
<1>0. /\ TxRing' = RingAdd(TxRing, b) /\ block' = [block EXCEPT ![t].index = @ + 1]
      /\ UNCHANGED <<uartVars, txLast>> /\ UNCHANGED <<rxVars, semaVars>> /\ UNCHANGED semaVars
      /\ place \in SendPlaces /\ place \in LockedPlaces /\ pc[t] \in SendPlaces
      /\ pc[t] \in LockedPlaces
  BY DEF PutByte, SendPlaces, LockedPlaces
<1>1. /\ PlacesInv' /\ LockInv' /\ pc'[t] = place
      /\ \A u \in Task \ {t} : pc'[u] = pc[u]
  BY <1>0, HolderMoves DEF TxInv
<1>2. /\ b \in TxByte /\ b.index \in Nat \ {0} /\ b.size \in Nat \ {0}
      /\ b.index <= b.size
      /\ pc[t] = "putAll" => TxRing.wCount + (b.size - b.index) < TX_RING_BUFFER_SIZE
  <2>1. b \in TxByte /\ b.index \in Nat \ {0} /\ b.size \in Nat \ {0}
    BY <1>0, TxTypes DEF TxInv
  <2>2. BlockAt(t)
    BY DEF TxInv, BlockInv
  <2> QED
    BY <1>0, <2>1, <2>2 DEF BlockAt
<1>3. /\ block'[t] = [b EXCEPT !.index = @ + 1]
      /\ \A u \in Task \ {t} : block'[u] = block[u]
  BY <1>0 DEF TxInv, BlockInv
<1>4. Unsent(t) /\ Follows(LastSent, b)
  <2>1. Unsent(t)
    BY <1>0, <1>2 DEF Unsent
  <2> QED
    BY <2>1 DEF TxInv, NextInv
<1> HIDE DEF b
<1>5. /\ block'[t] \in TxByte /\ block'[t].index = b.index + 1 /\ block'[t].size = b.size
      /\ block'[t].index <= block'[t].size => Follows(b, block'[t])
      /\ ~(block'[t].index <= block'[t].size) => Complete(b)
  BY <1>2, <1>3, NextByte
<1>6. /\ IsRing(TxRing', TX_RING_BUFFER_SIZE, TxByte)
      /\ TxRing'.wCount = TxRing.wCount + 1 /\ ChainInv' /\ LastSent' = b
  BY <1>0, <1>2, <1>4, ByteIn DEF TxInv
<1>7. TxRing.wCount \in 0..TX_RING_BUFFER_SIZE /\ TX_RING_BUFFER_SIZE \in Nat \ {0}
  BY TxTypes DEF TxInv
<1>8. UartInv'
  <2>1. WillStart(t)'
    BY <1>1 DEF WillStart
  <2> QED
    BY <1>0, <1>6, <2>1 DEF TxInv, UartInv, uartVars
<1>9. BlockAt(t)'
  <2>1. CASE place = "startTx"
    BY <1>0, <1>1, <1>2, <1>5, <2>1 DEF BlockAt
  <2>2. CASE place = "putAll"
    <3>1. block'[t].index <= block'[t].size
      BY <1>2, <1>5, <2>2 DEF b
    <3>2. TxRing'.wCount + (block'[t].size - block'[t].index) < TX_RING_BUFFER_SIZE
      <4> DEFINE w == TxRing.wCount
      <4>1. TxRing'.wCount = w + 1 /\ w \in Nat
        BY <1>6, <1>7
      <4>2. w + (b.size - b.index) < TX_RING_BUFFER_SIZE
        BY <1>2, <2>2
      <4> HIDE DEF w
      <4> QED
        BY <1>2, <1>5, <1>7, <4>1, <4>2
    <3> QED
      BY <1>0, <1>1, <1>2, <1>5, <2>2, <3>1, <3>2 DEF BlockAt
  <2> QED
    BY <2>1, <2>2
<1>10. block' \in [Task -> TxByte \cup {NULL}]
  BY <1>0, <1>5 DEF TxInv, BlockInv
<1>11. Unsent(t)' <=> block'[t].index <= block'[t].size
  BY <1>0, <1>1 DEF Unsent
<1>12. TxInv'
  BY <1>1, <1>3, <1>5, <1>6, <1>8, <1>9, <1>10, <1>11, HolderKeeps DEF TxInv
<1> QED
  BY <1>0, <1>1, <1>12

\* The holder calls cpu_COMStartTx.
LEMMA StartKeeps ==
  ASSUME PlacesInv, TxInv, NEW t \in Task, HoldsTx(t), ~Blocked(t), NEW place,
         pc' = [pc EXCEPT ![t] = place], cpu_COMStartTx, UNCHANGED block,
         \/ pc[t] = "restart" /\ place = "full"
         \/ pc[t] = "startTx" /\ place = "freeTx" /\ block[t].index > block[t].size
         \/ pc[t] = "startTx" /\ place = "putByte" /\ ~(block[t].index > block[t].size)
  PROVE  PlacesInv' /\ TxInv' /\ UNCHANGED <<rxVars, semaVars>>
<1>0. /\ UartInv' /\ ChainInv' /\ LastSent' = LastSent
      /\ UNCHANGED <<rxVars, semaVars>> /\ UNCHANGED semaVars
      /\ place \in SendPlaces /\ place \in LockedPlaces /\ pc[t] \in SendPlaces
      /\ pc[t] \in LockedPlaces
  BY StartEffect DEF TxInv, SendPlaces, LockedPlaces
<1>1. /\ PlacesInv' /\ LockInv' /\ pc'[t] = place
      /\ \A u \in Task \ {t} : pc'[u] = pc[u] /\ block'[u] = block[u]
  BY <1>0, HolderMoves DEF TxInv
<1>2. /\ block[t] \in TxByte /\ block[t].index \in Nat \ {0} /\ block[t].size \in Nat \ {0}
      /\ pc[t] = "restart" => block[t].index <= block[t].size
  <2>1. block[t] \in TxByte /\ block[t].index \in Nat \ {0} /\ block[t].size \in Nat \ {0}
    BY <1>0, TxTypes DEF TxInv
  <2>2. BlockAt(t)
    BY DEF TxInv, BlockInv
  <2> QED
    BY <1>0, <2>1, <2>2 DEF BlockAt
<1>3. BlockAt(t)'
  BY <1>0, <1>1, <1>2 DEF BlockAt
<1>4. Unsent(t)' <=> Unsent(t)
  BY <1>0, <1>1 DEF Unsent
<1>5. Unsent(t)' => Follows(LastSent', block'[t])
  BY <1>0, <1>4 DEF TxInv, NextInv
<1>6. ~Unsent(t)' => Complete(LastSent')
  <2>1. \A u \in Task \ {t} : ~Unsent(u)
    BY <1>0, Holder DEF TxInv, Unsent
  <2>2. ~Unsent(t) => Complete(LastSent)
    BY <2>1 DEF TxInv, NextInv
  <2> QED
    BY <1>0, <1>4, <2>2
<1>7. block' \in [Task -> TxByte \cup {NULL}]
  BY DEF TxInv, BlockInv
<1>8. TxInv'
  BY <1>0, <1>1, <1>3, <1>5, <1>6, <1>7, HolderKeeps
<1> QED
  BY <1>0, <1>1, <1>8
\* A task that is not in a call waits for no lock: the waits of "idle" are for a
\* received byte.
LEMMA LockTxKeeps ==
  ASSUME PlacesInv, TxInv, NEW t \in Task, NEW n \in BlockSize, LockTx(t, n)
  PROVE  PlacesInv' /\ TxInv'
<1> DEFINE b == [from |-> t, index |-> 1, size |-> n]
<1>0. /\ pc[t] = "idle" /\ ~Blocked(t) /\ pc' = [pc EXCEPT ![t] = "lockTx"]
      /\ block' = [block EXCEPT ![t] = b] /\ OS_SemaWait(t, "TxSema")
      /\ UNCHANGED <<TxRing, UART_THR, UART_INT_THR, txLast>>
      /\ "TxSema" \in ComSema
      /\ n \in Nat \ {0}
  BY BlockAssumption DEF LockTx, At, Goto, txVars, uartVars, ComSema
<1>1. b \in TxByte /\ b.index = 1 /\ b.size = n
  BY DEF TxByte
<1> HIDE DEF b
<1>2. /\ waiting' \in [ComSema -> SUBSET Task] /\ DOMAIN result' = Task
      /\ tokens' \in [ComSema -> 0..2 * RX_RING_BUFFER_SIZE]
      /\ \A x \in ComSema : \A u \in waiting'[x] : u \in waiting[x] \/ (u = t /\ x = "TxSema")
  BY <1>0, KernelTypes
<1>3. /\ PlacesInv' /\ pc'[t] = "lockTx"
      /\ \A u \in Task \ {t} : pc'[u] = pc[u]
  <2>1. /\ "lockTx" \in SendPlaces /\ "lockTx" \notin ReaderPlaces
        /\ MayWait(t, "TxSema", "lockTx")
    BY DEF SendPlaces, ReaderPlaces, ReadPlaces, MayWait
  <2>2. \A x \in ComSema : \A u \in waiting'[x] :
          u \in waiting[x] \/ (u = t /\ MayWait(t, x, "lockTx"))
    BY <1>2, <2>1
  <2> QED
    BY <1>0, <1>2, <2>1, <2>2, TaskMoves
<1>4. /\ block'[t] = b /\ block' \in [Task -> TxByte \cup {NULL}]
      /\ \A u \in Task \ {t} : block'[u] = block[u]
  BY <1>0, <1>1 DEF TxInv, BlockInv
<1>5. ~HoldsTx(t)
  BY <1>0 DEF HoldsTx, SendPlaces
<1>6. LockInv'
  <2>1. CASE Takes(t, "TxSema")
    <3>1. tokens["TxSema"] = 1 /\ tokens'["TxSema"] = 0 /\ waiting' = waiting
      BY <2>1, <1>0 DEF Takes, TxInv, LockInv, PlacesInv
    <3>2. \A u \in Task : ~HoldsTx(u)
      BY <3>1 DEF TxInv, LockInv
    <3>3. \A u \in Task : HoldsTx(u)' => u = t
      BY <1>3, <3>1, <3>2 DEF HoldsTx
    <3> QED
      BY <3>1, <3>3 DEF LockInv
  <2>2. CASE Queues(t, "TxSema")
    <3>1. /\ tokens' = tokens /\ tokens["TxSema"] = 0
          /\ waiting'["TxSema"] = waiting["TxSema"] \cup {t}
      BY <1>0, <2>2 DEF Queues, PlacesInv
    <3>2. \A u \in Task : HoldsTx(u)' => HoldsTx(u)
      BY <1>3, <3>1 DEF HoldsTx
    <3> QED
      BY <3>1, <3>2 DEF TxInv, LockInv
  <2> QED
    BY <1>0, <2>1, <2>2, WaitEffect
<1>7. BlockInv'
  <2>1. BlockAt(t)'
    BY <1>1, <1>3, <1>4 DEF BlockAt, SendPlaces
  <2>2. ASSUME NEW u \in Task \ {t} PROVE BlockAt(u)'
    <3>1. BlockAt(u)
      BY DEF TxInv, BlockInv
    <3> QED
      BY <1>0, <1>3, <1>4, <3>1 DEF BlockAt
  <2> QED
    BY <1>4, <2>1, <2>2 DEF BlockInv
<1>8. \A u \in Task : (WillStart(u) => WillStart(u)') /\ (Unsent(u)' <=> Unsent(u))
  <2>1. ~WillStart(t) /\ ~Unsent(t) /\ ~Unsent(t)'
    BY <1>0, <1>3 DEF WillStart, Unsent, LockedPlaces, SendPlaces
  <2>2. \A u \in Task \ {t} : WillStart(u)' = WillStart(u) /\ Unsent(u)' = Unsent(u)
    BY <1>3, <1>4 DEF WillStart, Unsent
  <2> QED
    BY <2>1, <2>2
<1>9. UartInv'
  BY <1>0, <1>8 DEF TxInv, UartInv
<1>10. ChainInv' /\ LastSent' = LastSent
  BY <1>0 DEF TxInv, ChainInv, LastSent, LastOut
<1>11. NextInv'
  <2>1. \A u \in Task : Unsent(u)' => Follows(LastSent', block'[u])
    <3> SUFFICES ASSUME NEW u \in Task, Unsent(u)' PROVE Follows(LastSent', block'[u])
      OBVIOUS
    <3>1. u # t /\ Unsent(u)
      BY <1>3, <1>8 DEF Unsent, LockedPlaces
    <3> QED
      BY <1>4, <1>10, <3>1 DEF TxInv, NextInv
  <2>2. (\A u \in Task : ~Unsent(u)') => Complete(LastSent')
    BY <1>8, <1>10 DEF TxInv, NextInv
  <2> QED
    BY <2>1, <2>2 DEF NextInv, Complete
<1> QED
  BY <1>3, <1>6, <1>7, <1>9, <1>10, <1>11 DEF TxInv

\* The lock goes back, or to a task that waits for it.
LEMMA FreeTxKeeps ==
  ASSUME PlacesInv, TxInv, NEW t \in Task, FreeTx(t)
  PROVE  PlacesInv' /\ TxInv'
<1>0. /\ pc[t] = "freeTx" /\ ~Blocked(t) /\ pc' = [pc EXCEPT ![t] = "idle"]
      /\ block' = [block EXCEPT ![t] = NULL] /\ OS_SemaSignal("TxSema")
      /\ UNCHANGED <<TxRing, UART_THR, UART_INT_THR, txLast>>
      /\ "TxSema" \in ComSema /\ pc[t] \in LockedPlaces
  BY DEF FreeTx, At, Goto, txVars, uartVars, ComSema, LockedPlaces, SendPlaces
<1>2. /\ waiting' \in [ComSema -> SUBSET Task] /\ DOMAIN result' = Task
      /\ tokens' \in [ComSema -> 0..2 * RX_RING_BUFFER_SIZE]
      /\ \A x \in ComSema : \A u \in waiting'[x] : u \in waiting[x]
  <2>1. /\ waiting' \in [ComSema -> SUBSET Task] /\ DOMAIN result' = Task
        /\ tokens' \in [ComSema -> 0..2 * RX_RING_BUFFER_SIZE]
        /\ \A x \in ComSema \ {"TxSema"} : waiting'[x] = waiting[x]
    BY <1>0, KernelTypes
  <2>2. waiting'["TxSema"] \subseteq waiting["TxSema"]
    BY <1>0, SignalEffect DEF Posts, Grants, PlacesInv
  <2> QED
    BY <2>1, <2>2
<1>3. /\ PlacesInv' /\ pc'[t] = "idle"
      /\ \A u \in Task \ {t} : pc'[u] = pc[u]
  BY <1>0, <1>2, TaskMoves DEF ReaderPlaces, ReadPlaces
<1>4. /\ block'[t] = NULL /\ block' \in [Task -> TxByte \cup {NULL}]
      /\ \A u \in Task \ {t} : block'[u] = block[u]
  BY <1>0 DEF TxInv, BlockInv
<1>5. /\ HoldsTx(t) /\ tokens["TxSema"] = 0
      /\ \A u \in Task \ {t} : pc[u] \notin LockedPlaces /\ ~HoldsTx(u)
  BY <1>0, Holder DEF TxInv
<1>6. LockInv'
  <2>1. ~HoldsTx(t)'
    BY <1>3 DEF HoldsTx, SendPlaces
  <2>2. CASE Posts("TxSema")
    <3>1. tokens'["TxSema"] = 1 /\ waiting' = waiting
      BY <1>0, <1>5, <2>2 DEF Posts, PlacesInv
    <3>2. \A u \in Task : ~HoldsTx(u)'
      BY <1>3, <1>5, <2>1, <3>1 DEF HoldsTx
    <3> QED
      BY <3>1, <3>2 DEF LockInv
  <2>3. ASSUME NEW v \in waiting["TxSema"], Grants(v, "TxSema") PROVE LockInv'
    <3>1. tokens' = tokens /\ waiting'["TxSema"] = waiting["TxSema"] \ {v}
      BY <1>0, <2>3 DEF Grants, PlacesInv
    <3>2. \A u \in Task : HoldsTx(u)' => u = v
      BY <1>3, <1>5, <2>1, <3>1 DEF HoldsTx
    <3> QED
      BY <1>5, <3>1, <3>2 DEF LockInv
  <2> QED
    BY <1>0, <2>2, <2>3, SignalEffect
<1>7. BlockInv'
  <2>1. BlockAt(t)'
    BY <1>3, <1>4 DEF BlockAt, SendPlaces
  <2>2. \A u \in Task \ {t} : BlockAt(u)'
    BY <1>3, <1>4, <1>5, OthersBlocks DEF TxInv
  <2> QED
    BY <1>4, <2>1, <2>2 DEF BlockInv
<1>8. \A u \in Task : (WillStart(u) => WillStart(u)') /\ ~Unsent(u)' /\ ~Unsent(u)
  <2>1. BlockAt(t) /\ block[t].index \in Nat /\ block[t].size \in Nat
    BY <1>0, TxTypes DEF TxInv, BlockInv, SendPlaces
  <2>2. ~WillStart(t) /\ ~Unsent(t) /\ ~Unsent(t)'
    BY <1>0, <1>3, <2>1 DEF WillStart, Unsent, LockedPlaces, SendPlaces, BlockAt
  <2>3. \A u \in Task \ {t} : WillStart(u)' = WillStart(u) /\ ~Unsent(u)' /\ ~Unsent(u)
    BY <1>3, <1>5 DEF WillStart, Unsent
  <2> QED
    BY <2>2, <2>3
<1>9. UartInv'
  BY <1>0, <1>8 DEF TxInv, UartInv
<1>10. ChainInv' /\ LastSent' = LastSent
  BY <1>0 DEF TxInv, ChainInv, LastSent, LastOut
<1>11. NextInv'
  BY <1>8, <1>10 DEF TxInv, NextInv, Complete
<1> QED
  BY <1>3, <1>6, <1>7, <1>9, <1>10, <1>11 DEF TxInv

\* The interrupt takes bytes out of the ring, the UART out of the register.
LEMMA UartSteps ==
  ASSUME PlacesInv, TxInv, TransmitInterrupt \/ ShiftOut
  PROVE  TxInv'
<1>0. /\ UNCHANGED <<tokens, waiting, result, pc, block>>
      /\ TxRing.wCount \in 0..TX_RING_BUFFER_SIZE /\ TX_RING_BUFFER_SIZE \in Nat \ {0}
  BY TxTypes DEF TransmitInterrupt, ShiftOut, semaVars, TxInv
<1>1. /\ LockInv' /\ \A u \in Task : WillStart(u)' = WillStart(u) /\ Unsent(u)' = Unsent(u)
  BY <1>0 DEF TxInv, LockInv, HoldsTx, WillStart, Unsent
<1>2. ASSUME TxRing'.wCount \in Nat, TxRing'.wCount <= TxRing.wCount PROVE BlockInv'
  <2> SUFFICES ASSUME NEW t \in Task PROVE BlockAt(t)'
    BY <1>0 DEF TxInv, BlockInv
  <2>1. BlockAt(t)
    BY DEF TxInv, BlockInv
  <2>2. ASSUME NEW i \in Nat, NEW n \in Nat, TxRing.wCount + (n - i) < TX_RING_BUFFER_SIZE
        PROVE  TxRing'.wCount + (n - i) < TX_RING_BUFFER_SIZE
    BY <1>0, <1>2, <2>2
  <2>3. pc[t] \in SendPlaces => block[t].index \in Nat /\ block[t].size \in Nat
    BY TxTypes DEF TxInv
  <2>4. pc[t] \in SendPlaces /\ pc[t] = "putAll" =>
          TxRing'.wCount + (block[t].size - block[t].index) < TX_RING_BUFFER_SIZE
    BY <2>1, <2>2, <2>3 DEF BlockAt
  <2> QED
    BY <1>0, <2>1, <2>4 DEF BlockAt
<1>3. ASSUME LastSent' = LastSent PROVE NextInv'
  BY <1>0, <1>1, <1>3 DEF TxInv, NextInv, Complete
<1>4. CASE TransmitInterrupt /\ TxRing.wCount = 0
  <2>1. UART_INT_THR' = FALSE /\ UNCHANGED <<TxRing, UART_THR, txLast>> /\ UART_THR = NULL
    BY <1>4 DEF TransmitInterrupt
  <2>2. ChainInv' /\ LastSent' = LastSent
    BY <2>1 DEF TxInv, ChainInv, LastSent, LastOut
  <2>3. UartInv'
    <3>1. TxRing'.wCount = 0
      BY <1>4, <2>1
    <3>2. UART_INT_THR' \in BOOLEAN
      BY <2>1
    <3>3. ~(0 > 0)
      OBVIOUS
    <3> QED
      BY <2>1, <3>1, <3>2, <3>3 DEF TxInv, UartInv
  <2> QED
    BY <1>0, <1>1, <1>2, <1>3, <2>1, <2>2, <2>3 DEF TxInv
<1>5. CASE TransmitInterrupt /\ TxRing.wCount # 0
  <2>1. /\ UART_THR' = RingNext(TxRing) /\ TxRing' = RingGet(TxRing) /\ txLast' = txLast
        /\ UART_INT_THR /\ UART_INT_THR' = UART_INT_THR /\ UART_THR = NULL
    BY <1>5 DEF TransmitInterrupt
  <2>2. /\ IsRing(TxRing', TX_RING_BUFFER_SIZE, TxByte)
        /\ TxRing'.wCount = TxRing.wCount - 1
        /\ UART_THR' \in TxByte
        /\ ChainInv' /\ LastSent' = LastSent
    BY <1>5, <2>1, ByteOut DEF TxInv
  <2>3. UartInv'
    BY <2>1, <2>2 DEF TxInv, UartInv
  <2>4. TxRing'.wCount \in Nat /\ TxRing'.wCount <= TxRing.wCount
    BY <1>0, <1>5, <2>2
  <2> QED
    BY <1>1, <1>2, <1>3, <2>2, <2>3, <2>4 DEF TxInv
<1>6. CASE ShiftOut
  <2>1. /\ UART_THR # NULL /\ UART_THR' = NULL
        /\ txLast' = IF UART_THR.index = UART_THR.size THEN NULL ELSE UART_THR
        /\ UNCHANGED <<TxRing, UART_INT_THR>> /\ UART_THR \in TxByte
    BY <1>6 DEF ShiftOut, TxInv, UartInv
  <2>2. /\ \A b : Follows(txLast', b) <=> Follows(UART_THR, b)
        /\ Complete(txLast') <=> Complete(UART_THR)
    BY <2>1 DEF Follows, Complete
  <2>3. LastOut = UART_THR /\ LastOut' = txLast'
    BY <2>1 DEF LastOut
  <2>4. UartInv'
    BY <1>1, <2>1 DEF TxInv, UartInv
  <2>5. ChainInv'
    BY <2>1, <2>2, <2>3 DEF TxInv, ChainInv
  <2>6. /\ \A b : Follows(LastSent', b) <=> Follows(LastSent, b)
        /\ Complete(LastSent') <=> Complete(LastSent)
    BY <2>1, <2>2, <2>3 DEF LastSent
  <2>7. NextInv'
    <3>1. \A u \in Task : Unsent(u)' => Follows(LastSent', block'[u])
      BY <1>0, <1>1, <2>6 DEF TxInv, NextInv
    <3>2. (\A u \in Task : ~Unsent(u)') => Complete(LastSent')
      BY <1>1, <2>6 DEF TxInv, NextInv
    <3> QED
      BY <3>1, <3>2 DEF NextInv, Complete
  <2>8. BlockInv'
    BY <1>0, <1>2, <2>1
  <2> QED
    BY <1>1, <2>4, <2>5, <2>7, <2>8 DEF TxInv
<1> QED
  BY <1>4, <1>5, <1>6
-----------------------------------------------------------------------------
(* Receiving.                                                                *)

\* Where the semaphore may promise what is in the ring, and no more.
PlainPlaces ==
  {"idle", "freeRx"} \cup SendPlaces \cup ReadPlaces

LEMMA PromiseKinds ==
  ASSUME NEW sleeps \in BOOLEAN, NEW code, NEW k, NEW w
  PROVE  /\ \A place \in PlainPlaces :
              Promise(place, sleeps, code, k, w) <=> (sleeps => k = 0) /\ k <= w
         /\ \A place \in CountPlaces :
              Promise(place, sleeps, code, k, w) <=> (sleeps => k = 0) /\ k <= w + 1
         /\ \A place \in WaitPlaces :
              Promise(place, sleeps, code, k, w) <=> (sleeps => k = 0) /\ k = w
         /\ \A place \in ClearPlaces :
              Promise(place, sleeps, code, k, w) <=> (sleeps => k = 0)
         /\ \A place \in AfterWait :
              Promise(place, sleeps, code, k, w) <=>
                /\ sleeps => k = 0 /\ w = 0
                /\ ~sleeps => k <= w /\ (code = "OK" => k + 1 <= w)
<1>1. /\ \A place \in PlainPlaces :
           place \notin CountPlaces \cup WaitPlaces \cup ClearPlaces \cup AfterWait
      /\ \A place \in CountPlaces : place \notin WaitPlaces \cup ClearPlaces \cup AfterWait
      /\ \A place \in WaitPlaces : place \notin CountPlaces \cup ClearPlaces \cup AfterWait
      /\ \A place \in ClearPlaces : place \notin CountPlaces \cup WaitPlaces \cup AfterWait
      /\ \A place \in AfterWait : place \notin CountPlaces \cup WaitPlaces \cup ClearPlaces
  BY DEF PlainPlaces, CountPlaces, WaitPlaces, ClearPlaces, AfterWait, SendPlaces, ReadPlaces
<1> HIDE DEF PlainPlaces, CountPlaces, WaitPlaces, ClearPlaces, AfterWait
<1> QED
  BY <1>1 DEF Promise

LEMMA RxTypes ==
  ASSUME PlacesInv, ReceivedInv
  PROVE  /\ RxRing.wCount \in 0..RX_RING_BUFFER_SIZE /\ RX_RING_BUFFER_SIZE \in Nat \ {0}
         /\ RxRing.wMaxElementCount = RX_RING_BUFFER_SIZE
         /\ tokens["RxRdySema"] \in Nat /\ Sleeps \in BOOLEAN /\ Reader \in Task
         /\ "RxRdySema" \in ComSema /\ "Sema" \in ComSema /\ "TxSema" \in ComSema
<1>1. "RxRdySema" \in ComSema /\ "Sema" \in ComSema /\ "TxSema" \in ComSema
  BY DEF ComSema
<1>2. tokens["RxRdySema"] \in 0..2 * RX_RING_BUFFER_SIZE
  BY <1>1 DEF PlacesInv
<1> QED
  BY <1>1, <1>2, RingAssumption, ReaderAssumption DEF ReceivedInv, IsRing, RingRecord, Sleeps

\* A step that leaves the ring and its semaphore alone: what the reader may rely
\* on is the same at its old place and at its new one.
LEMMA RxKept ==
  ASSUME PlacesInv, RxInv, UNCHANGED rxVars,
         tokens'["RxRdySema"] = tokens["RxRdySema"],
         waiting'["RxRdySema"] = waiting["RxRdySema"],
         \/ pc'[Reader] = pc[Reader] /\ result'[Reader] = result[Reader]
         \/ pc[Reader] \in PlainPlaces /\ pc'[Reader] \in PlainPlaces
         \/ pc[Reader] \in CountPlaces /\ pc'[Reader] \in CountPlaces
  PROVE  RxInv'
<1>1. UNCHANGED <<RxRing, bRxOverflow, rxCount, rxLast>> /\ Sleeps' = Sleeps
  BY DEF rxVars, Sleeps
<1>2. ReceivedInv'
  BY <1>1 DEF RxInv, ReceivedInv
<1>3. PromiseInv'
  <2> DEFINE k == tokens["RxRdySema"]
             w == RxRing.wCount
  <2>1. Promise(pc[Reader], Sleeps, result[Reader], k, w)
    BY DEF RxInv, PromiseInv
  <2>2. PromiseInv' <=> Promise(pc'[Reader], Sleeps, result'[Reader], k, w)
    BY <1>1 DEF PromiseInv
  <2>3. Sleeps \in BOOLEAN
    BY RxTypes DEF RxInv
  <2> HIDE DEF k, w
  <2>4. CASE pc'[Reader] = pc[Reader] /\ result'[Reader] = result[Reader]
    BY <2>1, <2>2, <2>4
  <2>5. CASE pc[Reader] \in PlainPlaces /\ pc'[Reader] \in PlainPlaces
    BY <2>1, <2>2, <2>3, <2>5, PromiseKinds
  <2>6. CASE pc[Reader] \in CountPlaces /\ pc'[Reader] \in CountPlaces
    BY <2>1, <2>2, <2>3, <2>6, PromiseKinds
  <2> QED
    BY <2>4, <2>5, <2>6
<1> QED
  BY <1>2, <1>3 DEF RxInv

\* Waiting for a lock, and giving it back, is no concern of the received bytes.
LEMMA LockKeepsRx ==
  ASSUME PlacesInv, RxInv, UNCHANGED rxVars, NEW t \in Task, NEW s \in {"Sema", "TxSema"},
         OS_SemaWait(t, s) \/ OS_SemaSignal(s),
         \A u \in Task \ {t} : pc'[u] = pc[u],
         OS_SemaWait(t, s) => pc[t] \in PlainPlaces /\ pc'[t] \in PlainPlaces,
         \/ pc'[t] = pc[t]
         \/ pc[t] \in PlainPlaces /\ pc'[t] \in PlainPlaces
         \/ pc[t] \in CountPlaces /\ pc'[t] \in CountPlaces,
         ~Blocked(t)
  PROVE  RxInv'
<1>1. s \in ComSema /\ "RxRdySema" \in ComSema \ {s}
  BY DEF ComSema
<1>2. tokens'["RxRdySema"] = tokens["RxRdySema"] /\ waiting'["RxRdySema"] = waiting["RxRdySema"]
  BY <1>1, KernelTypes
<1>3. Reader \in Task
  BY ReaderAssumption
<1>4. CASE OS_SemaWait(t, s)
  <2>1. \A u \in Task \ {t} : result'[u] = result[u]
    BY <1>4, WaitEffect DEF Takes, Queues, PlacesInv
  <2> QED
    BY <1>2, <1>3, <1>4, <2>1, RxKept
<1>5. CASE Posts(s)
  BY <1>2, <1>3, <1>5, RxKept DEF Posts
<1>6. ASSUME NEW v \in waiting[s], Grants(v, s) PROVE RxInv'
  <2>1. v \in Task /\ v # t /\ pc'[v] = pc[v] /\ pc[v] \in PlainPlaces
    <3>1. v \in Task /\ v # t
      BY <1>1 DEF PlacesInv, Blocked
    <3>2. MayWait(v, s, pc[v])
      BY <1>1 DEF PlacesInv
    <3>3. pc[v] \in PlainPlaces
      BY <3>2 DEF MayWait, PlainPlaces, SendPlaces
    <3> QED
      BY <3>1, <3>3
  <2>2. \A u \in Task \ {v} : result'[u] = result[u]
    BY <1>6 DEF Grants, PlacesInv
  <2>3. CASE Reader = v
    BY <1>2, <2>1, <2>3, RxKept
  <2>4. CASE Reader # v
    BY <1>2, <1>3, <2>2, <2>4, RxKept
  <2> QED
    BY <2>3, <2>4
<1> QED
  BY <1>4, <1>5, <1>6, SignalEffect
\* Numbers go round.
LEMMA NumberTypes ==
  /\ \A n \in Number : NumberAfter(n) \in Number
  /\ NumberAfter(RX_RING_BUFFER_SIZE + 1) = 0
  /\ 0 \in Number /\ RX_RING_BUFFER_SIZE + 1 \in Number
<1> DEFINE m == RX_RING_BUFFER_SIZE + 2
<1>0. RX_RING_BUFFER_SIZE \in Nat \ {0}
  BY RingAssumption
<1>1. m \in Nat \ {0} /\ Number = 0..m - 1 /\ m = (RX_RING_BUFFER_SIZE + 1) + 1
  BY <1>0 DEF Number
<1>2. \A n : NumberAfter(n) = (n + 1) % m
  BY DEF NumberAfter
<1> HIDE DEF m
<1>3. ASSUME NEW n \in Number PROVE (n + 1) % m \in Number
  <2> DEFINE x == n + 1
  <2>1. x \in Nat /\ x < 2 * m /\ x <= m
    BY <1>1
  <2> HIDE DEF x
  <2>2. x % m = IF x < m THEN x ELSE x - m
    BY <1>1, <2>1, Wrap
  <2> DEFINE y == x % m
  <2>3. y = IF x < m THEN x ELSE x - m
    BY <2>2
  <2> HIDE DEF y
  <2>4. y \in 0..m - 1
    BY <1>1, <2>1, <2>3
  <2> QED
    BY <1>1, <2>4 DEF x, y
<1>4. m % m = 0
  BY <1>1, Wrap
<1>5. 0 \in Number /\ RX_RING_BUFFER_SIZE + 1 \in Number
  BY <1>0 DEF Number
<1> QED
  BY <1>1, <1>2, <1>3, <1>4, <1>5

\* A received byte goes into the ring.
LEMMA ReceivedByteIn ==
  ASSUME ReceivedInv, ~RingFull(RxRing), RxRing' = RingAdd(RxRing, rxCount),
         rxCount' = NumberAfter(rxCount), UNCHANGED <<bRxOverflow, rxLast>>
  PROVE  ReceivedInv' /\ RxRing'.wCount = RxRing.wCount + 1
<1> DEFINE q == Content(RxRing)
           r == RxRing'
           n == RxRing.wCount
<1>0. /\ RX_RING_BUFFER_SIZE \in Nat \ {0} /\ n \in Nat /\ rxCount \in Number
      /\ rxCount' \in Number /\ rxLast' = rxLast /\ bRxOverflow' = bRxOverflow
  BY RingAssumption, NumberTypes DEF ReceivedInv, IsRing, RingRecord
<1>1. /\ IsRing(r, RX_RING_BUFFER_SIZE, Number) /\ Content(r) = Append(q, rxCount)
      /\ r.wCount = n + 1 /\ q \in Seq(Number) /\ Len(q) = n
  BY <1>0, RingAddAppends, ContentIs DEF ReceivedInv
<1>2. /\ n = 0 => rxCount = NumberAfter(rxLast)
      /\ n > 0 => q[1] = NumberAfter(rxLast) /\ rxCount = NumberAfter(q[n])
      /\ \A i \in 1..n - 1 : q[i + 1] = NumberAfter(q[i])
      /\ bRxOverflow = FALSE /\ rxLast \in Number
  BY DEF ReceivedInv
<1> HIDE DEF q, r, n
<1>3. (\A i \in 1..n : Content(r)[i] = q[i]) /\ Content(r)[n + 1] = rxCount
  BY <1>0, <1>1
<1>4. Content(r)[1] = NumberAfter(rxLast)
  <2>1. CASE n = 0
    BY <1>2, <1>3, <2>1
  <2>2. CASE n # 0
    <3>1. n > 0 /\ 1 \in 1..n
      BY <1>0, <2>2
    <3> QED
      BY <1>2, <1>3, <3>1
  <2> QED
    BY <2>1, <2>2
<1>5. \A i \in 1..n : Content(r)[i + 1] = NumberAfter(Content(r)[i])
  <2> SUFFICES ASSUME NEW i \in 1..n PROVE Content(r)[i + 1] = NumberAfter(Content(r)[i])
    OBVIOUS
  <2>1. Content(r)[i] = q[i]
    BY <1>3
  <2>2. CASE i = n
    <3>1. n > 0
      BY <1>0
    <3> QED
      BY <1>2, <1>3, <2>1, <2>2, <3>1
  <2>3. CASE i # n
    <3>1. i \in 1..n - 1 /\ i + 1 \in 1..n
      BY <1>0, <2>3
    <3> QED
      BY <1>2, <1>3, <2>1, <3>1
  <2> QED
    BY <2>2, <2>3
<1>6. r.wCount # 0 /\ (n + 1) - 1 = n /\ rxCount' = NumberAfter(Content(r)[r.wCount])
  BY <1>0, <1>1, <1>3
<1>7. ReceivedInv'
  BY <1>0, <1>1, <1>2, <1>4, <1>5, <1>6 DEF ReceivedInv, r
<1> QED
  BY <1>1, <1>7 DEF r, n

\* The reader gets the first byte of the ring.
LEMMA ReceivedByteOut ==
  ASSUME ReceivedInv, GetRxData
  PROVE  ReceivedInv' /\ RxRing.wCount # 0 /\ RxRing'.wCount = RxRing.wCount - 1
<1> DEFINE q == Content(RxRing)
           r == RxRing'
           n == RxRing.wCount
<1>0. /\ RX_RING_BUFFER_SIZE \in Nat \ {0} /\ n \in Nat \ {0} /\ rxCount \in Number
      /\ rxCount' = rxCount /\ rxLast' = RingNext(RxRing) /\ bRxOverflow' = bRxOverflow
      /\ r = RingGet(RxRing) /\ RxRing.wCount # 0
  BY RingAssumption DEF ReceivedInv, IsRing, RingRecord, GetRxData
<1>1. /\ IsRing(r, RX_RING_BUFFER_SIZE, Number) /\ Content(r) = Tail(q)
      /\ r.wCount = n - 1 /\ q \in Seq(Number) /\ Len(q) = n /\ q # <<>>
      /\ rxLast' = Head(q) /\ rxLast' \in Number
  <2>1. IsRing(RxRing, RX_RING_BUFFER_SIZE, Number)
    BY DEF ReceivedInv
  <2>2. /\ IsRing(RingGet(RxRing), RX_RING_BUFFER_SIZE, Number) /\ q # <<>>
        /\ RingNext(RxRing) = Head(q) /\ RingNext(RxRing) \in Number
        /\ Content(RingGet(RxRing)) = Tail(q) /\ RingGet(RxRing).wCount = n - 1
    BY <1>0, <2>1, RingGetTakes
  <2>3. q \in Seq(Number) /\ Len(q) = n
    BY <1>0, <2>1, ContentIs
  <2> QED
    BY <1>0, <2>2, <2>3
<1>2. /\ rxCount = NumberAfter(q[n])
      /\ \A i \in 1..n - 1 : q[i + 1] = NumberAfter(q[i])
      /\ bRxOverflow = FALSE
  BY <1>0 DEF ReceivedInv
<1> HIDE DEF q, r, n
<1>3. rxLast' = q[1] /\ \A i \in 1..n - 1 : Content(r)[i] = q[i + 1]
  BY <1>0, <1>1, HeadTailProperties
<1>4. n - 1 = 0 => rxCount' = NumberAfter(rxLast')
  BY <1>0, <1>2, <1>3
<1>5. n - 1 > 0 => /\ Content(r)[1] = NumberAfter(rxLast')
                   /\ rxCount' = NumberAfter(Content(r)[n - 1])
  <2>1. n - 1 > 0 => 1 \in 1..n - 1 /\ n - 1 \in 1..n - 1 /\ (n - 1) + 1 = n
    BY <1>0
  <2> QED
    BY <1>0, <1>2, <1>3, <2>1
<1>6. \A i \in 1..(n - 1) - 1 : Content(r)[i + 1] = NumberAfter(Content(r)[i])
  <2>1. \A i \in 1..(n - 1) - 1 : i \in 1..n - 1 /\ i + 1 \in 1..n - 1
    BY <1>0
  <2> QED
    BY <1>2, <1>3, <2>1
<1>7. ReceivedInv'
  BY <1>0, <1>1, <1>2, <1>4, <1>5, <1>6 DEF ReceivedInv, r
<1> QED
  BY <1>0, <1>1, <1>7 DEF r, n

\* An empty ring.
LEMMA EmptyRing ==
  ASSUME NEW size \in Nat \ {0}, NEW Byte
  PROVE  IsRing(RingReset(size), size, Byte) /\ RingReset(size).wCount = 0
<1>1. RingReset(size) \in RingRecord(size, Byte)
  BY DEF RingReset, RingRecord
<1>2. 0 = Behind(0, 0, size)
  <2>1. 0 \in 0..size - 1
    OBVIOUS
  <2> QED
    BY <2>1, BehindZero
<1> QED
  BY <1>1, <1>2 DEF IsRing, RingReset
\* The reader moves on in a receiving call.  It may start to wait where it goes to.
LEMMA ReaderMoves ==
  ASSUME PlacesInv, TxInv, ~Blocked(Reader), pc[Reader] \notin SendPlaces,
         NEW place \in {"idle"} \cup ReaderPlaces, pc' = [pc EXCEPT ![Reader] = place],
         UNCHANGED <<txVars, block>>,
         NEW s \in {"Sema", "RxRdySema"},
         OS_SemaWait(Reader, s) \/ OS_SemaSignal(s) \/ UNCHANGED semaVars,
         OS_SemaWait(Reader, s) => MayWait(Reader, s, place)
  PROVE  /\ PlacesInv' /\ TxInv' /\ pc'[Reader] = place
         /\ \A u \in Task \ {Reader} : pc'[u] = pc[u]
<1>0. Reader \in Task /\ s \in ComSema /\ "TxSema" \in ComSema \ {s} /\ place \notin SendPlaces
  BY ReaderAssumption DEF ComSema, SendPlaces, ReaderPlaces, ReadPlaces
<1>1. /\ waiting' \in [ComSema -> SUBSET Task] /\ DOMAIN result' = Task
      /\ tokens' \in [ComSema -> 0..2 * RX_RING_BUFFER_SIZE]
      /\ \A x \in ComSema : \A u \in waiting'[x] :
           u \in waiting[x] \/ (u = Reader /\ MayWait(Reader, x, place))
      /\ waiting'["TxSema"] = waiting["TxSema"] /\ tokens'["TxSema"] = tokens["TxSema"]
  <2>1. CASE UNCHANGED semaVars
    BY <2>1 DEF semaVars, PlacesInv
  <2>2. CASE OS_SemaWait(Reader, s) \/ OS_SemaSignal(s)
    <3>1. /\ waiting' \in [ComSema -> SUBSET Task] /\ DOMAIN result' = Task
          /\ tokens' \in [ComSema -> 0..2 * RX_RING_BUFFER_SIZE]
          /\ \A x \in ComSema : \A u \in waiting'[x] :
               u \in waiting[x] \/ (u = Reader /\ x = s /\ OS_SemaWait(Reader, s))
          /\ \A x \in ComSema \ {s} : waiting'[x] = waiting[x] /\ tokens'[x] = tokens[x]
      BY <1>0, <2>2, KernelTypes
    <3> QED
      BY <1>0, <3>1
  <2> QED
    BY <2>1, <2>2
<1>2. /\ PlacesInv' /\ pc'[Reader] = place
      /\ \A u \in Task \ {Reader} : pc'[u] = pc[u]
  BY <1>0, <1>1, TaskMoves
<1>3. TxInv'
  <2>1. \A u \in Task : pc'[u] = pc[u] \/ (pc[u] \notin SendPlaces /\ pc'[u] \notin SendPlaces)
    BY <1>0, <1>2
  <2> QED
    BY <1>1, <2>1, TxKept
<1> QED
  BY <1>2, <1>3

\* The places by their names.
LEMMA PlaceNames ==
  /\ ReadPlaces \subseteq PlainPlaces /\ {"idle", "freeRx", "lockTx"} \subseteq PlainPlaces
  /\ SendPlaces \subseteq PlainPlaces
  /\ ReadPlaces \cup CountPlaces \cup WaitPlaces \cup AfterWait \cup ClearPlaces
       \cup {"freeRx"} \subseteq ReaderPlaces
  /\ \A place \in {"idle"} \cup ReaderPlaces : place \notin SendPlaces
  /\ {"ReceiveChar", "ReceiveCharWait", "ReceiveCharTest", "ReceiveCharTestWait",
      "ClearOverflow"} \subseteq ReadPlaces
  /\ {"freeRxThenCount", "countThenFreeRx", "count"} \subseteq CountPlaces
  /\ {"wait", "waitTest"} \subseteq WaitPlaces /\ {"signalled", "signalledTest"} \subseteq AfterWait
  /\ {"deleteSema", "createSema"} \subseteq ClearPlaces
  BY DEF PlainPlaces, ReaderPlaces, ReadPlaces, SendPlaces, CountPlaces, WaitPlaces, AfterWait,
         ClearPlaces

\* A step that signals does not wait.
LEMMA SignalIsNoWait ==
  ASSUME PlacesInv, NEW t \in Task, ~Blocked(t), NEW s \in ComSema, OS_SemaSignal(s)
  PROVE  ~OS_SemaWait(t, s)
<1> SUFFICES ASSUME OS_SemaWait(t, s) PROVE FALSE
  OBVIOUS
<1>1. Takes(t, s) \/ Queues(t, s)
  BY WaitEffect
<1>2. Posts(s) \/ \E u \in waiting[s] : Grants(u, s)
  BY SignalEffect
<1> QED
  BY <1>1, <1>2 DEF Takes, Queues, Posts, Grants, PlacesInv

\* A call begins with the lock.
LEMMA LockRxKeeps ==
  ASSUME ComInv, NEW call \in ReadPlaces, LockRx(Reader, call)
  PROVE  ComInv'
<1>0. /\ PlacesInv /\ TxInv /\ RxInv /\ Reader \in Task
      /\ pc[Reader] = "idle" /\ ~Blocked(Reader) /\ pc' = [pc EXCEPT ![Reader] = call]
      /\ UNCHANGED <<txVars, block>> /\ UNCHANGED rxVars /\ OS_SemaWait(Reader, "Sema")
  BY ReaderAssumption DEF ComInv, TxInv, RxInv, LockRx, At, UseRx, Goto
<1>1. /\ pc[Reader] \notin SendPlaces /\ call \in {"idle"} \cup ReaderPlaces
      /\ pc[Reader] \in PlainPlaces /\ call \in PlainPlaces /\ MayWait(Reader, "Sema", call)
  BY <1>0, PlaceNames DEF MayWait
<1>2. /\ PlacesInv' /\ TxInv' /\ pc'[Reader] = call
      /\ \A u \in Task \ {Reader} : pc'[u] = pc[u]
  BY <1>0, <1>1, ReaderMoves
<1>3. RxInv'
  BY <1>0, <1>1, <1>2, LockKeepsRx
<1> QED
  BY <1>2, <1>3 DEF ComInv, TxInv, RxInv

\* A call ends with the lock.
LEMMA FreeRxKeeps ==
  ASSUME ComInv, NEW t \in Task, FreeRx(t)
  PROVE  ComInv'
<1>0. /\ PlacesInv /\ TxInv /\ RxInv /\ Reader \in Task /\ t = Reader
      /\ ~Blocked(Reader) /\ UNCHANGED <<txVars, block>> /\ UNCHANGED rxVars
      /\ OS_SemaSignal("Sema")
      /\ \/ pc[Reader] = "freeRx" /\ pc' = [pc EXCEPT ![Reader] = "idle"]
         \/ pc[Reader] = "freeRxThenCount" /\ pc' = [pc EXCEPT ![Reader] = "count"]
  BY DEF ComInv, TxInv, RxInv, FreeRx, At, UseRx, Goto
<1>1. PICK place \in {"idle", "count"} :
        /\ pc' = [pc EXCEPT ![Reader] = place]
        /\ \/ pc[Reader] = "freeRx" /\ place = "idle"
           \/ pc[Reader] = "freeRxThenCount" /\ place = "count"
  BY <1>0
<1>2. /\ pc[Reader] \notin SendPlaces /\ place \in {"idle"} \cup ReaderPlaces
      /\ \/ pc[Reader] \in PlainPlaces /\ place \in PlainPlaces
         \/ pc[Reader] \in CountPlaces /\ place \in CountPlaces
  BY <1>1, PlaceNames
<1>3. ~OS_SemaWait(Reader, "Sema")
  BY <1>0, SignalIsNoWait DEF ComSema
<1>4. /\ PlacesInv' /\ TxInv' /\ pc'[Reader] = place
      /\ \A u \in Task \ {Reader} : pc'[u] = pc[u]
  BY <1>0, <1>1, <1>2, <1>3, ReaderMoves
<1>5. RxInv'
  BY <1>0, <1>2, <1>3, <1>4, LockKeepsRx
<1> QED
  BY <1>4, <1>5 DEF ComInv, TxInv, RxInv
\* What the reader relies on, when it moves on from a call that waits no longer.
LEMMA ReaderPromise ==
  ASSUME ComInv, ~Blocked(Reader)
  PROVE  /\ ~Sleeps
         /\ pc[Reader] \in PlainPlaces => tokens["RxRdySema"] <= RxRing.wCount
         /\ pc[Reader] \in CountPlaces => tokens["RxRdySema"] <= RxRing.wCount + 1
         /\ pc[Reader] \in WaitPlaces => tokens["RxRdySema"] = RxRing.wCount
         /\ pc[Reader] \in AfterWait =>
              /\ tokens["RxRdySema"] <= RxRing.wCount
              /\ result[Reader] = "OK" => tokens["RxRdySema"] + 1 <= RxRing.wCount
<1> DEFINE k == tokens["RxRdySema"]
           w == RxRing.wCount
<1>1. ~Sleeps /\ Sleeps \in BOOLEAN
  BY DEF Sleeps, Blocked, ComSema
<1>2. Promise(pc[Reader], Sleeps, result[Reader], k, w)
  BY DEF ComInv, PromiseInv
<1> HIDE DEF k, w
<1>3. /\ pc[Reader] \in PlainPlaces => k <= w
      /\ pc[Reader] \in CountPlaces => k <= w + 1
      /\ pc[Reader] \in WaitPlaces => k = w
      /\ pc[Reader] \in AfterWait => k <= w /\ (result[Reader] = "OK" => k + 1 <= w)
  BY <1>1, <1>2, PromiseKinds
<1> QED
  BY <1>1, <1>3 DEF k, w

\* A receiving step that calls no kernel function.
LEMMA NoCallKeeps ==
  ASSUME ComInv, ~Blocked(Reader), pc[Reader] \notin SendPlaces,
         NEW place \in {"idle"} \cup ReaderPlaces, pc' = [pc EXCEPT ![Reader] = place],
         UNCHANGED <<txVars, block>>, UNCHANGED semaVars, ReceivedInv',
         \/ place \in PlainPlaces /\ tokens["RxRdySema"] <= RxRing'.wCount
         \/ place \in CountPlaces /\ tokens["RxRdySema"] <= RxRing'.wCount + 1
         \/ place \in WaitPlaces /\ tokens["RxRdySema"] = RxRing'.wCount
         \/ place \in ClearPlaces
  PROVE  ComInv'
<1>0. PlacesInv /\ TxInv /\ UNCHANGED <<tokens, waiting, result>>
  BY DEF ComInv, TxInv, semaVars
<1>1. /\ PlacesInv' /\ TxInv' /\ pc'[Reader] = place
  <2>1. ~OS_SemaWait(Reader, "Sema")
    <3>1. "Sema" \in ComSema /\ Reader \in Task
      BY ReaderAssumption DEF ComSema
    <3> SUFFICES ASSUME OS_SemaWait(Reader, "Sema") PROVE FALSE
      OBVIOUS
    <3>2. Takes(Reader, "Sema") \/ Queues(Reader, "Sema")
      BY WaitEffect
    <3>3. Reader \notin waiting["Sema"]
      BY <3>1 DEF Blocked
    <3> QED
      BY <1>0, <3>1, <3>2, <3>3 DEF Takes, Queues, PlacesInv
  <2> QED
    BY <1>0, <2>1, ReaderMoves
<1>2. ~Sleeps /\ ~Sleeps'
  BY <1>0, ReaderPromise DEF Sleeps
<1>3. PromiseInv'
  <2> DEFINE k == tokens["RxRdySema"]
             w == RxRing'.wCount
  <2>1. PromiseInv' <=> Promise(place, FALSE, result'[Reader], k, w)
    <3>1. Sleeps' = FALSE
      BY <1>2 DEF Sleeps
    <3> QED
      BY <1>0, <1>1, <3>1 DEF PromiseInv
  <2> HIDE DEF k, w
  <2>2. \/ place \in PlainPlaces /\ k <= w
        \/ place \in CountPlaces /\ k <= w + 1
        \/ place \in WaitPlaces /\ k = w
        \/ place \in ClearPlaces
    BY DEF k, w
  <2>3. Promise(place, FALSE, result'[Reader], k, w)
    BY <2>2, PromiseKinds
  <2> QED
    BY <2>1, <2>3
<1> QED
  BY <1>1, <1>3 DEF ComInv, TxInv, RxInv
\* GetRxData by a task that waits no longer for it.
LEMMA GetAvailableKeeps ==
  ASSUME ComInv, NEW t \in Task, GetAvailable(t)
  PROVE  ComInv'
<1>0. /\ ~Blocked(Reader) /\ UNCHANGED <<txVars, block>> /\ UNCHANGED semaVars /\ GetRxData
      /\ \/ pc[Reader] = "ReceiveChar" /\ pc' = [pc EXCEPT ![Reader] = "freeRxThenCount"]
         \/ pc[Reader] = "ReceiveCharWait" /\ pc' = [pc EXCEPT ![Reader] = "countThenFreeRx"]
  BY DEF GetAvailable, At, UseRx, Goto, GetRxData
<1>1. PICK place \in CountPlaces : pc' = [pc EXCEPT ![Reader] = place]
  BY <1>0, PlaceNames
<1>2. /\ pc[Reader] \in PlainPlaces /\ pc[Reader] \notin SendPlaces
      /\ place \in {"idle"} \cup ReaderPlaces
  BY <1>0, <1>1, PlaceNames
<1>3. ReceivedInv' /\ RxRing'.wCount = RxRing.wCount - 1
  BY <1>0, ReceivedByteOut DEF ComInv
<1>4. tokens["RxRdySema"] <= RxRing'.wCount + 1
  <2>1. tokens["RxRdySema"] <= RxRing.wCount
    BY <1>0, <1>2, ReaderPromise
  <2>2. RxRing.wCount \in Nat
    BY RxTypes DEF ComInv
  <2> QED
    BY <1>3, <2>1, <2>2
<1> QED
  BY <1>0, <1>1, <1>2, <1>3, <1>4, NoCallKeeps

LEMMA GetNothingKeeps ==
  ASSUME ComInv, NEW t \in Task, GetNothing(t)
  PROVE  ComInv'
<1>0. /\ ~Blocked(Reader) /\ UNCHANGED <<txVars, block>> /\ UNCHANGED semaVars
      /\ UNCHANGED rxVars /\ RxRing.wCount = 0
      /\ \/ pc[Reader] = "ReceiveChar" /\ pc' = [pc EXCEPT ![Reader] = "freeRx"]
         \/ pc[Reader] = "ReceiveCharWait" /\ pc' = [pc EXCEPT ![Reader] = "wait"]
  BY DEF GetNothing, At, UseRx, Goto
<1>1. PICK place \in {"freeRx", "wait"} : pc' = [pc EXCEPT ![Reader] = place]
  BY <1>0
<1>2. /\ pc[Reader] \in PlainPlaces /\ pc[Reader] \notin SendPlaces
      /\ place \in {"idle"} \cup ReaderPlaces
      /\ place \in PlainPlaces \/ place \in WaitPlaces
  BY <1>0, <1>1, PlaceNames
<1>3. ReceivedInv' /\ RxRing'.wCount = RxRing.wCount
  BY <1>0 DEF ComInv, ReceivedInv, rxVars
<1>4. tokens["RxRdySema"] = RxRing'.wCount
  <2>1. tokens["RxRdySema"] <= RxRing.wCount
    BY <1>0, <1>2, ReaderPromise
  <2>2. tokens["RxRdySema"] \in Nat
    BY RxTypes DEF ComInv
  <2> QED
    BY <1>0, <1>3, <2>1, <2>2
<1>5. tokens["RxRdySema"] <= RxRing'.wCount
  BY <1>0, <1>3, <1>4
<1> QED
  BY <1>0, <1>1, <1>2, <1>3, <1>4, <1>5, NoCallKeeps

LEMMA LookForByteKeeps ==
  ASSUME ComInv, NEW t \in Task, LookForByte(t)
  PROVE  ComInv'
<1>0. /\ ~Blocked(Reader) /\ UNCHANGED <<txVars, block>> /\ UNCHANGED semaVars
      /\ UNCHANGED rxVars /\ pc[Reader] \in {"ReceiveCharTest", "ReceiveCharTestWait"}
  BY DEF LookForByte, At, UseRx
<1>1. PICK place \in {"freeRx", "waitTest"} :
        /\ pc' = [pc EXCEPT ![Reader] = place]
        /\ place = "waitTest" => RxRing.wCount = 0
  BY DEF LookForByte, At, UseRx, Goto
<1>2. /\ pc[Reader] \in PlainPlaces /\ pc[Reader] \notin SendPlaces
      /\ place \in {"idle"} \cup ReaderPlaces
      /\ place \in PlainPlaces \/ (place \in WaitPlaces /\ RxRing.wCount = 0)
  <2>1. pc[Reader] \in PlainPlaces /\ pc[Reader] \notin SendPlaces
    BY <1>0, PlaceNames DEF SendPlaces
  <2>2. /\ "freeRx" \in PlainPlaces /\ "waitTest" \in WaitPlaces
        /\ "freeRx" \in ReaderPlaces /\ "waitTest" \in ReaderPlaces
    BY PlaceNames
  <2> QED
    BY <1>1, <2>1, <2>2
<1>3. ReceivedInv' /\ RxRing'.wCount = RxRing.wCount
  BY <1>0 DEF ComInv, ReceivedInv, rxVars
<1>4. /\ tokens["RxRdySema"] <= RxRing'.wCount
      /\ RxRing.wCount = 0 => tokens["RxRdySema"] = RxRing'.wCount
  <2>1. tokens["RxRdySema"] <= RxRing.wCount
    BY <1>0, <1>2, ReaderPromise
  <2>2. tokens["RxRdySema"] \in Nat
    BY RxTypes DEF ComInv
  <2> QED
    BY <1>0, <1>3, <2>1, <2>2
<1>5. \/ place \in PlainPlaces /\ tokens["RxRdySema"] <= RxRing'.wCount
      \/ place \in WaitPlaces /\ tokens["RxRdySema"] = RxRing'.wCount
  BY <1>2, <1>4
<1>6. pc' = [pc EXCEPT ![Reader] = place]
  BY <1>1
<1> QED
  BY <1>0, <1>2, <1>3, <1>5, <1>6, NoCallKeeps

\* The wait for a byte is over: there is one when the semaphore said so.
LEMMA GetSignalledKeeps ==
  ASSUME ComInv, NEW t \in Task, GetSignalled(t)
  PROVE  ComInv'
<1>0. /\ ~Blocked(Reader) /\ UNCHANGED <<txVars, block>>
      /\ pc[Reader] = "signalled" /\ pc' = [pc EXCEPT ![Reader] = "freeRx"]
      /\ IF result[Reader] = "OK" /\ RxRing.wCount # 0 THEN GetRxData
         ELSE UNCHANGED <<rxVars, semaVars>>
  BY DEF GetSignalled, At, UseRx, Goto
<1>1. /\ pc[Reader] \in AfterWait /\ pc[Reader] \notin SendPlaces
      /\ "freeRx" \in {"idle"} \cup ReaderPlaces /\ "freeRx" \in PlainPlaces
  BY <1>0, PlaceNames DEF SendPlaces
<1>2. /\ tokens["RxRdySema"] <= RxRing.wCount
      /\ result[Reader] = "OK" => tokens["RxRdySema"] + 1 <= RxRing.wCount
      /\ RxRing.wCount \in Nat /\ tokens["RxRdySema"] \in Nat
  BY <1>0, <1>1, ReaderPromise, RxTypes DEF ComInv
<1>3. /\ ReceivedInv' /\ UNCHANGED semaVars
      /\ \/ RxRing'.wCount = RxRing.wCount
         \/ RxRing'.wCount = RxRing.wCount - 1 /\ result[Reader] = "OK"
  <2>1. CASE result[Reader] = "OK" /\ RxRing.wCount # 0
    BY <1>0, <2>1, ReceivedByteOut DEF ComInv, GetRxData
  <2>2. CASE ~(result[Reader] = "OK" /\ RxRing.wCount # 0)
    BY <1>0, <2>2 DEF ComInv, ReceivedInv, rxVars
  <2> QED
    BY <2>1, <2>2
<1>4. tokens["RxRdySema"] <= RxRing'.wCount
  BY <1>2, <1>3
<1> QED
  BY <1>0, <1>1, <1>3, <1>4, NoCallKeeps

\* The ring is reset; from here to the reset of the semaphore nothing is promised.
LEMMA ClearRingKeeps ==
  ASSUME ComInv, NEW t \in Task, ClearRing(t)
  PROVE  ComInv'
<1>0. /\ ~Blocked(Reader) /\ UNCHANGED <<txVars, block>> /\ UNCHANGED semaVars
      /\ pc[Reader] = "ClearOverflow" /\ pc' = [pc EXCEPT ![Reader] = "deleteSema"]
      /\ RxRing' = RingReset(RX_RING_BUFFER_SIZE)
      /\ rxCount' = 0 /\ rxLast' = RX_RING_BUFFER_SIZE + 1 /\ bRxOverflow' = bRxOverflow
  BY DEF ClearRing, At, UseRx, Goto
<1>1. /\ pc[Reader] \notin SendPlaces
      /\ "deleteSema" \in {"idle"} \cup ReaderPlaces /\ "deleteSema" \in ClearPlaces
  BY <1>0, PlaceNames DEF SendPlaces
<1>2. ReceivedInv'
  <2>1. IsRing(RxRing', RX_RING_BUFFER_SIZE, Number) /\ RxRing'.wCount = 0
    BY <1>0, EmptyRing, RingAssumption
  <2>2. 1..0 - 1 = {}
    OBVIOUS
  <2>3. bRxOverflow = FALSE
    BY DEF ComInv, ReceivedInv
  <2>4. rxCount' = NumberAfter(rxLast') /\ rxCount' \in Number /\ rxLast' \in Number
    BY <1>0, NumberTypes
  <2>5. ~(0 > 0)
    OBVIOUS
  <2> QED
    BY <1>0, <2>1, <2>2, <2>3, <2>4, <2>5 DEF ReceivedInv
<1> QED
  BY <1>0, <1>1, <1>2, NoCallKeeps

\* The semaphore is deleted, then created with no token.
LEMMA ClearSemaKeeps ==
  ASSUME ComInv, NEW t \in Task, ClearSema(t)
  PROVE  ComInv'
<1>0. /\ ~Blocked(Reader) /\ UNCHANGED <<txVars, block>>
      /\ RxRing' = RxRing /\ rxCount' = rxCount /\ rxLast' = rxLast /\ bRxOverflow = FALSE
      /\ PlacesInv /\ TxInv /\ Reader \in Task
      /\ "RxRdySema" \in ComSema /\ "TxSema" \in ComSema
  BY ReaderAssumption
  DEF ClearSema, At, UseRx, ComInv, TxInv, ReceivedInv, ComSema
<1>1. PICK place \in {"createSema", "freeRx"} :
        /\ pc' = [pc EXCEPT ![Reader] = place] /\ pc[Reader] \in ClearPlaces
        /\ result' = result /\ bRxOverflow' = FALSE
        /\ \A s \in ComSema : waiting'[s] = IF s = "RxRdySema" THEN waiting'[s] ELSE waiting[s]
        /\ \/ /\ place = "createSema" /\ tokens' = tokens
              /\ waiting' = [waiting EXCEPT !["RxRdySema"] = {}]
           \/ /\ place = "freeRx" /\ waiting' = waiting
              /\ tokens' = [tokens EXCEPT !["RxRdySema"] = 0]
  BY <1>0, PlaceNames
  DEF ClearSema, At, UseRx, Goto, Kernel!Delete, Kernel!Flush, PlacesInv
<1>2. /\ pc[Reader] \notin SendPlaces /\ place \in {"idle"} \cup ReaderPlaces
      /\ place \notin SendPlaces
  BY <1>1, PlaceNames DEF SendPlaces, ClearPlaces
<1>3. /\ waiting' \in [ComSema -> SUBSET Task] /\ DOMAIN result' = Task
      /\ tokens' \in [ComSema -> 0..2 * RX_RING_BUFFER_SIZE]
      /\ \A s \in ComSema : \A u \in waiting'[s] : u \in waiting[s]
      /\ waiting'["TxSema"] = waiting["TxSema"] /\ tokens'["TxSema"] = tokens["TxSema"]
  BY <1>0, <1>1, RingAssumption DEF PlacesInv
<1>4. /\ PlacesInv' /\ pc'[Reader] = place
      /\ \A u \in Task \ {Reader} : pc'[u] = pc[u]
  BY <1>0, <1>1, <1>2, <1>3, TaskMoves
<1>5. TxInv'
  <2>1. \A u \in Task : pc'[u] = pc[u] \/ (pc[u] \notin SendPlaces /\ pc'[u] \notin SendPlaces)
    BY <1>2, <1>4
  <2> QED
    BY <1>0, <1>3, <2>1, TxKept
<1>6. ReceivedInv'
  BY <1>0, <1>1 DEF ComInv, ReceivedInv
<1>7. PromiseInv'
  <2>1. Sleeps' = FALSE
    <3>1. Reader \notin waiting["RxRdySema"]
      BY <1>0 DEF Blocked
    <3> QED
      BY <1>0, <1>3, <3>1 DEF Sleeps
  <2>2. CASE place = "createSema"
    <3>1. place \in ClearPlaces
      BY <2>2, PlaceNames
    <3> QED
      BY <1>4, <2>1, <3>1, PromiseKinds DEF PromiseInv
  <2>3. CASE place = "freeRx"
    <3>1. tokens'["RxRdySema"] = 0
      BY <1>0, <1>1, <2>3 DEF PlacesInv
    <3>2. RxRing'.wCount \in Nat
      BY <1>0, RxTypes DEF ComInv
    <3>3. place \in PlainPlaces
      BY <2>3, PlaceNames
    <3>4. 0 <= RxRing'.wCount
      BY <3>2
    <3> QED
      BY <1>4, <2>1, <3>1, <3>3, <3>4, PromiseKinds DEF PromiseInv
  <2> QED
    BY <2>2, <2>3
<1> QED
  BY <1>4, <1>5, <1>6, <1>7 DEF ComInv, TxInv
\* The reader waits for a byte, or takes the count of one.
LEMMA WaitForByteKeeps ==
  ASSUME ComInv, NEW t \in Task, WaitForByte(t)
  PROVE  ComInv'
<1>0. /\ ~Blocked(Reader) /\ UNCHANGED <<txVars, block>> /\ UNCHANGED rxVars
      /\ PlacesInv /\ TxInv /\ OS_SemaWait(Reader, "RxRdySema") /\ Reader \in Task
      /\ "RxRdySema" \in ComSema /\ tokens["RxRdySema"] \in Nat /\ RxRing.wCount \in Nat
  BY RxTypes DEF WaitForByte, At, UseRx, ComInv, TxInv
<1>1. PICK place :
        /\ pc' = [pc EXCEPT ![Reader] = place]
        /\ \/ pc[Reader] \in {"wait", "waitTest"} /\ place \in {"signalled", "signalledTest"}
           \/ pc[Reader] \in {"countThenFreeRx", "count"} /\ place \in {"freeRx", "idle"}
  BY DEF WaitForByte, At, UseRx, Goto
<1>2. /\ pc[Reader] \notin SendPlaces /\ place \in {"idle"} \cup ReaderPlaces
      /\ \/ pc[Reader] \in WaitPlaces /\ place \in AfterWait
         \/ pc[Reader] \in CountPlaces /\ place \in PlainPlaces
      /\ MayWait(Reader, "RxRdySema", place)
  <2>1. CASE pc[Reader] \in {"wait", "waitTest"} /\ place \in {"signalled", "signalledTest"}
    BY <2>1, PlaceNames DEF MayWait, WaitPlaces, SendPlaces
  <2>2. CASE pc[Reader] \in {"countThenFreeRx", "count"} /\ place \in {"freeRx", "idle"}
    BY <2>2, PlaceNames DEF MayWait, CountPlaces, SendPlaces
  <2> QED
    BY <1>1, <2>1, <2>2
<1>3. PlacesInv' /\ TxInv' /\ pc'[Reader] = place
  BY <1>0, <1>1, <1>2, ReaderMoves
<1>4. ReceivedInv' /\ RxRing'.wCount = RxRing.wCount
  BY <1>0 DEF ComInv, ReceivedInv, rxVars
<1>5. PromiseInv'
  <2> DEFINE k == tokens["RxRdySema"]
             w == RxRing.wCount
  <2>1. /\ k \in Nat /\ w \in Nat
        /\ pc[Reader] \in CountPlaces => k <= w + 1
        /\ pc[Reader] \in WaitPlaces => k = w
    BY <1>0, ReaderPromise
  <2>2. PromiseInv' <=> Promise(place, Sleeps', result'[Reader], tokens'["RxRdySema"], w)
    BY <1>3, <1>4 DEF PromiseInv
  <2>3. CASE Takes(Reader, "RxRdySema")
    <3>1. /\ k > 0 /\ tokens'["RxRdySema"] = k - 1 /\ Sleeps' = FALSE
      <4>1. Reader \notin waiting["RxRdySema"]
        BY <1>0 DEF Blocked
      <4> QED
        BY <1>0, <2>3, <4>1 DEF Takes, PlacesInv, Sleeps
    <3> HIDE DEF k, w
    <3>2. Promise(place, FALSE, result'[Reader], k - 1, w)
      <4>1. CASE pc[Reader] \in WaitPlaces /\ place \in AfterWait
        <5> DEFINE j == k - 1
        <5>1. j <= w /\ j + 1 <= w
          BY <2>1, <4>1
        <5> HIDE DEF j
        <5>2. Promise(place, FALSE, result'[Reader], j, w)
          BY <4>1, <5>1, PromiseKinds
        <5> QED
          BY <5>2 DEF j
      <4>2. CASE pc[Reader] \in CountPlaces /\ place \in PlainPlaces
        <5>1. k - 1 <= w
          BY <2>1, <4>2
        <5> QED
          BY <4>2, <5>1, PromiseKinds
      <4> QED
        BY <1>2, <4>1, <4>2
    <3> QED
      BY <2>2, <3>1, <3>2
  <2>4. CASE Queues(Reader, "RxRdySema")
    <3>1. /\ k = 0 /\ tokens'["RxRdySema"] = 0 /\ Sleeps' = TRUE
      BY <1>0, <2>4 DEF Queues, PlacesInv, Sleeps
    <3> HIDE DEF k, w
    <3>2. Promise(place, TRUE, result'[Reader], 0, w)
      <4>1. CASE pc[Reader] \in WaitPlaces /\ place \in AfterWait
        <5>1. w = 0
          BY <2>1, <3>1, <4>1
        <5> QED
          BY <4>1, <5>1, PromiseKinds
      <4>2. CASE pc[Reader] \in CountPlaces /\ place \in PlainPlaces
        <5>1. 0 <= w
          BY <2>1
        <5> QED
          BY <4>2, <5>1, PromiseKinds
      <4> QED
        BY <1>2, <4>1, <4>2
    <3> QED
      BY <2>2, <3>1, <3>2
  <2> QED
    BY <1>0, <2>3, <2>4, WaitEffect
<1> QED
  BY <1>3, <1>4, <1>5 DEF ComInv, TxInv

\* Nobody but the reader waits for a byte.
LEMMA ReaderSleeps ==
  ASSUME PlacesInv
  PROVE  /\ waiting["RxRdySema"] \subseteq {Reader}
         /\ Sleeps => /\ pc[Reader] \in PlainPlaces \/ pc[Reader] \in AfterWait
                      /\ pc[Reader] # "lockTx"
<1>1. "RxRdySema" \in ComSema
  BY DEF ComSema
<1>2. \A u \in waiting["RxRdySema"] : MayWait(u, "RxRdySema", pc[u])
  BY <1>1 DEF PlacesInv
<1>3. \A u \in waiting["RxRdySema"] :
        u = Reader /\ pc[u] \in {"signalled", "signalledTest", "freeRx", "idle"}
  BY <1>2 DEF MayWait
<1>4. /\ {"signalled", "signalledTest"} \subseteq AfterWait /\ {"freeRx", "idle"} \subseteq PlainPlaces
  BY PlaceNames
<1> QED
  BY <1>3, <1>4 DEF Sleeps

\* tal_COMReceiveCharTestWait gives the count back.
LEMMA SignalAgainKeeps ==
  ASSUME ComInv, NEW t \in Task, SignalAgain(t)
  PROVE  ComInv'
<1>0. /\ ~Blocked(Reader) /\ UNCHANGED <<txVars, block>> /\ UNCHANGED rxVars
      /\ pc[Reader] = "signalledTest" /\ pc' = [pc EXCEPT ![Reader] = "freeRx"]
      /\ IF result[Reader] = "OK" THEN OS_SemaSignal("RxRdySema") ELSE UNCHANGED semaVars
      /\ PlacesInv /\ TxInv /\ Reader \in Task
      /\ "RxRdySema" \in ComSema /\ tokens["RxRdySema"] \in Nat /\ RxRing.wCount \in Nat
  BY RxTypes DEF SignalAgain, At, UseRx, Goto, ComInv, TxInv
<1>1. /\ pc[Reader] \in AfterWait /\ pc[Reader] \notin SendPlaces
      /\ "freeRx" \in {"idle"} \cup ReaderPlaces /\ "freeRx" \in PlainPlaces
  BY <1>0, PlaceNames DEF SendPlaces
<1>2. /\ tokens["RxRdySema"] <= RxRing.wCount
      /\ result[Reader] = "OK" => tokens["RxRdySema"] + 1 <= RxRing.wCount
  BY <1>0, <1>1, ReaderPromise
<1>3. ReceivedInv' /\ RxRing'.wCount = RxRing.wCount
  BY <1>0 DEF ComInv, ReceivedInv, rxVars
<1>4. CASE result[Reader] # "OK"
  BY <1>0, <1>1, <1>2, <1>3, <1>4, NoCallKeeps
<1>5. CASE result[Reader] = "OK"
  <2>1. OS_SemaSignal("RxRdySema") /\ ~OS_SemaWait(Reader, "RxRdySema")
    BY <1>0, <1>5, SignalIsNoWait
  <2>2. PlacesInv' /\ TxInv' /\ pc'[Reader] = "freeRx"
    BY <1>0, <1>1, <2>1, ReaderMoves
  <2>3. Reader \notin waiting["RxRdySema"]
    BY <1>0 DEF Blocked
  <2>4. Posts("RxRdySema")
    <3>1. \A u \in waiting["RxRdySema"] : u = Reader
      BY <1>0, ReaderSleeps
    <3> QED
      BY <2>1, <2>3, <3>1, SignalEffect
  <2>5. tokens'["RxRdySema"] = tokens["RxRdySema"] + 1 /\ Sleeps' = FALSE
    BY <1>0, <2>3, <2>4 DEF Posts, PlacesInv, Sleeps
  <2>6. tokens'["RxRdySema"] <= RxRing'.wCount
    BY <1>0, <1>2, <1>3, <1>5, <2>5
  <2>7. PromiseInv'
    <3> DEFINE k == tokens'["RxRdySema"]
               w == RxRing'.wCount
    <3>1. k <= w /\ (PromiseInv' <=> Promise("freeRx", FALSE, result'[Reader], k, w))
      BY <2>2, <2>5, <2>6 DEF PromiseInv
    <3> HIDE DEF k, w
    <3> QED
      BY <1>1, <3>1, PromiseKinds
  <2> QED
    BY <1>3, <2>2, <2>7 DEF ComInv, TxInv
<1> QED
  BY <1>4, <1>5

\* The wait for a byte ends without one.
LEMMA TimeoutKeeps ==
  ASSUME ComInv, NEW t \in Task, Timeout(t)
  PROVE  ComInv'
<1>0. /\ UNCHANGED <<txVars, block>> /\ UNCHANGED rxVars /\ pc' = pc
      /\ PlacesInv /\ TxInv /\ Reader \in waiting["RxRdySema"]
      /\ result' = [result EXCEPT ![Reader] = "TIMEOUT"] /\ tokens' = tokens
      /\ waiting' = [s \in ComSema |-> waiting[s] \ {Reader}]
      /\ "RxRdySema" \in ComSema /\ "TxSema" \in ComSema /\ RxRing.wCount \in Nat
  BY RxTypes DEF Timeout, UseRx, ComInv, TxInv, Kernel!Expire
<1>1. PlacesInv'
  BY <1>0, NobodyMoves DEF PlacesInv
<1>2. Sleeps /\ Sleeps' = FALSE
  BY <1>0 DEF Sleeps
<1>3. TxInv'
  <2>1. Reader \notin waiting["TxSema"]
    <3>1. ASSUME Reader \in waiting["TxSema"] PROVE pc[Reader] = "lockTx"
      <4>1. MayWait(Reader, "TxSema", pc[Reader])
        BY <1>0, <3>1 DEF PlacesInv
      <4> QED
        BY <4>1 DEF MayWait
    <3> QED
      BY <1>0, <1>2, <3>1, ReaderSleeps
  <2>2. waiting'["TxSema"] = waiting["TxSema"]
    BY <1>0, <2>1
  <2> QED
    BY <1>0, <2>2, TxKept
<1>4. ReceivedInv' /\ RxRing'.wCount = RxRing.wCount
  BY <1>0 DEF ComInv, ReceivedInv, rxVars
<1>5. PromiseInv'
  <2> DEFINE w == RxRing.wCount
  <2>1. Promise(pc[Reader], TRUE, result[Reader], tokens["RxRdySema"], w) /\ w \in Nat
    BY <1>0, <1>2 DEF ComInv, PromiseInv, Sleeps
  <2>2. result'[Reader] = "TIMEOUT"
    <3>1. Reader \in DOMAIN result
      BY <1>0, ReaderAssumption DEF PlacesInv
    <3> QED
      BY <1>0, <3>1
  <2>3. PromiseInv' <=> Promise(pc[Reader], FALSE, "TIMEOUT", tokens["RxRdySema"], w)
    BY <1>0, <1>2, <1>4, <2>2 DEF PromiseInv
  <2> HIDE DEF w
  <2>4. CASE pc[Reader] \in PlainPlaces
    BY <2>1, <2>3, <2>4, PromiseKinds
  <2>5. CASE pc[Reader] \in AfterWait
    <3>1. tokens["RxRdySema"] = 0 /\ w = 0
      BY <2>1, <2>5, PromiseKinds
    <3>2. 0 <= 0 /\ "TIMEOUT" # "OK"
      OBVIOUS
    <3> QED
      BY <2>3, <2>5, <3>1, <3>2, PromiseKinds
  <2> QED
    BY <1>0, <1>2, <2>4, <2>5, ReaderSleeps
<1> QED
  BY <1>1, <1>3, <1>4, <1>5 DEF ComInv, TxInv
\* A byte arrives: it is counted, or it ends the reader's sleep.
LEMMA ReceiveInterruptKeeps ==
  ASSUME ComInv, ReceiveInterrupt
  PROVE  ComInv'
<1>0. /\ UNCHANGED <<txVars, block>> /\ pc' = pc
      /\ PlacesInv /\ TxInv /\ Reader \in Task /\ "RxRdySema" \in ComSema
      /\ "TxSema" \in ComSema \ {"RxRdySema"}
      /\ tokens["RxRdySema"] \in Nat /\ RxRing.wCount \in Nat
  BY RxTypes DEF ReceiveInterrupt, ComInv, TxInv, ComSema
<1>1. CASE RingFull(RxRing)
  <2>1. UNCHANGED <<RxRing, rxCount, rxLast>> /\ UNCHANGED semaVars /\ bRxOverflow' = FALSE
    BY <1>1 DEF ReceiveInterrupt, TAL_OK
  <2>2. PlacesInv'
    BY <1>0, <2>1 DEF PlacesInv, semaVars
  <2>3. TxInv'
    BY <1>0, <2>1, TxKept DEF semaVars
  <2>4. ReceivedInv' /\ PromiseInv'
    BY <1>0, <2>1 DEF ComInv, ReceivedInv, PromiseInv, Sleeps, semaVars
  <2> QED
    BY <2>2, <2>3, <2>4 DEF ComInv, TxInv
<1>2. CASE ~RingFull(RxRing)
  <2>1. /\ RxRing' = RingAdd(RxRing, rxCount) /\ rxCount' = NumberAfter(rxCount)
        /\ UNCHANGED <<bRxOverflow, rxLast>> /\ OS_SemaSignal("RxRdySema")
    BY <1>2 DEF ReceiveInterrupt
  <2>2. ReceivedInv' /\ RxRing'.wCount = RxRing.wCount + 1
    BY <1>2, <2>1, ReceivedByteIn DEF ComInv
  <2>3. \/ Posts("RxRdySema")
        \/ Grants(Reader, "RxRdySema") /\ Reader \in waiting["RxRdySema"]
    BY <1>0, <2>1, SignalEffect, ReaderSleeps
  <2>4. /\ PlacesInv' /\ waiting'["TxSema"] = waiting["TxSema"]
        /\ tokens'["TxSema"] = tokens["TxSema"]
    <3>1. /\ waiting' \in [ComSema -> SUBSET Task] /\ DOMAIN result' = Task
          /\ tokens' \in [ComSema -> 0..2 * RX_RING_BUFFER_SIZE]
          /\ waiting'["TxSema"] = waiting["TxSema"] /\ tokens'["TxSema"] = tokens["TxSema"]
      BY <1>0, <2>1, KernelTypes
    <3>2. \A s \in ComSema : waiting'[s] \subseteq waiting[s]
      BY <1>0, <2>3 DEF Posts, Grants, PlacesInv
    <3> QED
      BY <1>0, <3>1, <3>2, NobodyMoves
  <2>5. TxInv'
    BY <1>0, <2>4, TxKept
  <2>6. PromiseInv'
    <3> DEFINE k == tokens["RxRdySema"]
               w == RxRing.wCount
               place == pc[Reader]
    <3>1. k \in Nat /\ w \in Nat /\ Promise(place, Sleeps, result[Reader], k, w)
      BY <1>0 DEF ComInv, PromiseInv
    <3>2. PromiseInv' <=> Promise(place, Sleeps', result'[Reader], tokens'["RxRdySema"], w + 1)
      BY <1>0, <2>2 DEF PromiseInv
    <3>3. place \in PlainPlaces \cup CountPlaces \cup WaitPlaces \cup ClearPlaces \cup AfterWait
      BY <1>0 DEF PlacesInv, ReaderPlaces, PlainPlaces, CountPlaces, WaitPlaces, ClearPlaces,
                  AfterWait
    <3>4. CASE Posts("RxRdySema")
      <4>1. Sleeps = FALSE /\ Sleeps' = FALSE /\ result' = result /\ tokens'["RxRdySema"] = k + 1
        BY <1>0, <3>4 DEF Posts, Sleeps, PlacesInv
      <4> DEFINE j == k + 1
                 v == w + 1
      <4>2. /\ k <= w => j <= v
            /\ k <= w + 1 => j <= v + 1
            /\ k = w => j = v
            /\ k + 1 <= w => j + 1 <= v
        BY <3>1
      <4> HIDE DEF k, w, place, j, v
      <4>3. Promise(place, FALSE, result[Reader], j, v)
        <5>1. Promise(place, FALSE, result[Reader], k, w)
          BY <3>1, <4>1
        <5>2. CASE place \in PlainPlaces
          BY <4>2, <5>1, <5>2, PromiseKinds
        <5>3. CASE place \in CountPlaces
          BY <4>2, <5>1, <5>3, PromiseKinds
        <5>4. CASE place \in WaitPlaces
          BY <4>2, <5>1, <5>4, PromiseKinds
        <5>5. CASE place \in ClearPlaces
          BY <5>5, PromiseKinds
        <5>6. CASE place \in AfterWait
          BY <4>2, <5>1, <5>6, PromiseKinds
        <5> QED
          BY <3>3, <5>2, <5>3, <5>4, <5>5, <5>6
      <4> QED
        BY <3>2, <4>1, <4>3 DEF j, v
    <3>5. CASE Grants(Reader, "RxRdySema") /\ Reader \in waiting["RxRdySema"]
      <4>1. Sleeps = TRUE /\ Sleeps' = FALSE /\ tokens'["RxRdySema"] = k
        BY <1>0, <3>5 DEF Grants, Sleeps, PlacesInv
      <4> DEFINE v == w + 1
      <4> HIDE DEF k, w, place
      <4>2. k = 0
        BY <3>1, <4>1 DEF Promise
      <4>3. k <= v /\ (w = 0 => k + 1 <= v)
        BY <3>1, <4>2
      <4> HIDE DEF v
      <4>4. Promise(place, FALSE, result'[Reader], k, v)
        <5>1. CASE place \in PlainPlaces
          BY <4>3, <5>1, PromiseKinds
        <5>2. CASE place \in AfterWait
          <6>1. w = 0
            BY <3>1, <4>1, <5>2, PromiseKinds
          <6> QED
            BY <4>3, <5>2, <6>1, PromiseKinds
        <5>3. place \in PlainPlaces \/ place \in AfterWait
          BY <1>0, <4>1, ReaderSleeps DEF place
        <5> QED
          BY <5>1, <5>2, <5>3
      <4> QED
        BY <3>2, <4>1, <4>4 DEF v
    <3> QED
      BY <2>3, <3>4, <3>5
  <2> QED
    BY <2>2, <2>4, <2>5, <2>6 DEF ComInv, TxInv
<1> QED
  BY <1>1, <1>2

-----------------------------------------------------------------------------
(* Every step keeps the invariant.                                           *)

\* The reader sends, or somebody else does: received bytes are not touched.
LEMMA SenderKeepsRx ==
  ASSUME ComInv, PlacesInv', NEW t \in Task, ~Blocked(t), UNCHANGED rxVars,
         pc[t] \in {"idle"} \cup SendPlaces, pc'[t] \in {"idle"} \cup SendPlaces,
         \A u \in Task \ {t} : pc'[u] = pc[u],
         OS_SemaWait(t, "TxSema") \/ OS_SemaSignal("TxSema") \/ UNCHANGED semaVars
  PROVE  RxInv'
<1>0. PlacesInv /\ RxInv /\ pc[t] \in PlainPlaces /\ pc'[t] \in PlainPlaces /\ Reader \in Task
  BY PlaceNames, ReaderAssumption DEF ComInv, RxInv
<1>1. CASE UNCHANGED semaVars
  BY <1>0, <1>1, RxKept DEF semaVars
<1>2. CASE OS_SemaWait(t, "TxSema") \/ OS_SemaSignal("TxSema")
  BY <1>0, <1>2, LockKeepsRx
<1> QED
  BY <1>1, <1>2

\* A step of a task that sends: where it goes to, and what it leaves alone.
LEMMA SendStepMoves ==
  ASSUME PlacesInv, NEW t \in Task, SendStep(t)
  PROVE  /\ ~Blocked(t) /\ pc[t] \in SendPlaces /\ HoldsTx(t) /\ UNCHANGED rxVars
         /\ OS_SemaSignal("TxSema") \/ UNCHANGED semaVars
         /\ pc'[t] \in {"idle"} \cup SendPlaces
         /\ \A u \in Task \ {t} : pc'[u] = pc[u]
<1>1. /\ ~Blocked(t) /\ pc[t] \in SendPlaces
      /\ \E place \in {"idle"} \cup SendPlaces : pc' = [pc EXCEPT ![t] = place]
      /\ UNCHANGED rxVars
      /\ OS_SemaSignal("TxSema") \/ UNCHANGED semaVars
  BY DEF SendStep, CheckSpace, PutAll, PutNext, PutByte, RetryFull, Restart, StartTx, FreeTx,
         cpu_COMStartTx, At, Goto, SendPlaces
<1>2. HoldsTx(t)
  BY <1>1 DEF HoldsTx, Blocked, ComSema
<1> QED
  BY <1>1, <1>2 DEF PlacesInv

LEMMA SendStepKeeps ==
  ASSUME ComInv, NEW t \in Task, SendStep(t)
  PROVE  ComInv'
<1>0. PlacesInv /\ TxInv /\ ~Blocked(t) /\ HoldsTx(t)
  BY SendStepMoves DEF ComInv, TxInv
<1>1. ASSUME CheckSpace(t) PROVE PlacesInv' /\ TxInv'
  <2> DEFINE place == IF TxRing.wMaxElementCount - TxRing.wCount >= block[t].size
                      THEN "putAll" ELSE "putByte"
  <2>1. /\ pc' = [pc EXCEPT ![t] = place] /\ UNCHANGED <<rxVars, txVars, semaVars, block>>
        /\ pc[t] = "lockTx"
    BY <1>1 DEF CheckSpace, At, Goto
  <2>2. /\ BlockAt(t) /\ block[t].size \in Nat /\ TxRing.wCount \in Nat
        /\ TxRing.wMaxElementCount = TX_RING_BUFFER_SIZE /\ TX_RING_BUFFER_SIZE \in Nat
        /\ block[t].index = 1
    BY <1>0, <2>1, TxTypes DEF TxInv, BlockInv, BlockAt, SendPlaces
  <2>3. place = "putAll" =>
          TxRing.wCount + (block[t].size - block[t].index) < TX_RING_BUFFER_SIZE
    <3> DEFINE w == TxRing.wCount
               n == block[t].size
    <3>1. w \in Nat /\ n \in Nat /\ (place = "putAll" => TX_RING_BUFFER_SIZE - w >= n)
      BY <2>2
    <3> HIDE DEF w, n, place
    <3>2. place = "putAll" => w + (n - 1) < TX_RING_BUFFER_SIZE
      BY <2>2, <3>1
    <3> QED
      BY <2>2, <3>2 DEF w, n
  <2>4. place \in {"putAll", "putByte"}
    OBVIOUS
  <2> HIDE DEF place
  <2> QED
    BY <1>0, <2>1, <2>3, <2>4, MoveOnly
<1>2. ASSUME PutAll(t) PROVE PlacesInv' /\ TxInv'
  <2> DEFINE place == IF block[t].index = block[t].size THEN "startTx" ELSE "putAll"
  <2>1. /\ pc' = [pc EXCEPT ![t] = place] /\ PutByte(t) /\ pc[t] = "putAll"
    BY <1>2 DEF PutAll, At, Goto
  <2>2. ~RingFull(TxRing)
    <3>1. /\ TxRing.wCount + (block[t].size - block[t].index) < TX_RING_BUFFER_SIZE
          /\ block[t].index <= block[t].size
      BY <1>0, <2>1 DEF TxInv, BlockInv, BlockAt, SendPlaces
    <3>2. /\ TxRing.wCount \in Nat /\ TxRing.wMaxElementCount = TX_RING_BUFFER_SIZE
          /\ TX_RING_BUFFER_SIZE \in Nat /\ block[t].index \in Nat /\ block[t].size \in Nat
      BY <1>0, <2>1, TxTypes DEF TxInv, SendPlaces
    <3> QED
      BY <3>1, <3>2 DEF RingFull
  <2>3. /\ place \in {"putAll", "startTx"}
        /\ place = "putAll" => block[t].index # block[t].size
    OBVIOUS
  <2> HIDE DEF place
  <2> QED
    BY <1>0, <2>1, <2>2, <2>3, PutKeeps
<1>3. ASSUME PutNext(t) \/ RetryFull(t) PROVE PlacesInv' /\ TxInv'
  <2>1. CASE RingFull(TxRing)
    BY <1>0, <1>3, <2>1, MoveOnly DEF PutNext, RetryFull, At, Goto
  <2>2. CASE ~RingFull(TxRing)
    BY <1>0, <1>3, <2>2, PutKeeps DEF PutNext, RetryFull, At, Goto
  <2> QED
    BY <2>1, <2>2
<1>4. ASSUME Restart(t) PROVE PlacesInv' /\ TxInv'
  BY <1>0, <1>4, StartKeeps DEF Restart, At, Goto
<1>5. ASSUME StartTx(t) PROVE PlacesInv' /\ TxInv'
  <2>1. CASE block[t].index > block[t].size
    BY <1>0, <1>5, <2>1, StartKeeps DEF StartTx, At, Goto
  <2>2. CASE ~(block[t].index > block[t].size)
    BY <1>0, <1>5, <2>2, StartKeeps DEF StartTx, At, Goto
  <2> QED
    BY <2>1, <2>2
<1>6. PlacesInv' /\ TxInv'
  BY <1>0, <1>1, <1>2, <1>3, <1>4, <1>5, FreeTxKeeps DEF SendStep
<1>7. RxInv'
  BY <1>0, <1>6, SendStepMoves, SenderKeepsRx
<1> QED
  BY <1>6, <1>7 DEF ComInv, TxInv, RxInv

LEMMA ComInvStarts ==
  ASSUME ComInit
  PROVE  ComInv
<1>0. /\ RX_RING_BUFFER_SIZE \in Nat \ {0} /\ TX_RING_BUFFER_SIZE \in Nat \ {0}
      /\ Reader \in Task
  BY RingAssumption, ReaderAssumption
<1>1. PlacesInv
  BY <1>0 DEF ComInit, PlacesInv, ReaderPlaces, ReadPlaces, ComSema
<1>2. \A t \in Task : pc[t] = "idle" /\ block[t] = NULL /\ pc[t] \notin SendPlaces
  BY DEF ComInit, SendPlaces
<1>3. LockInv
  BY <1>2 DEF ComInit, LockInv, HoldsTx, ComSema
<1>4. BlockInv
  BY <1>2 DEF ComInit, BlockInv, BlockAt
<1>5. /\ IsRing(TxRing, TX_RING_BUFFER_SIZE, TxByte) /\ TxRing.wCount = 0
      /\ IsRing(RxRing, RX_RING_BUFFER_SIZE, Number) /\ RxRing.wCount = 0
  BY <1>0, EmptyRing DEF ComInit
<1>6. ~(0 > 0) /\ 1..0 - 1 = {} /\ 0 <= 0
  OBVIOUS
<1>7. UartInv
  BY <1>5, <1>6 DEF ComInit, UartInv
<1>8. ChainInv /\ Complete(LastSent)
  BY <1>5, <1>6 DEF ComInit, ChainInv, LastSent, LastOut, Complete
<1>9. NextInv
  BY <1>2, <1>8 DEF NextInv, Unsent, LockedPlaces
<1>10. ReceivedInv
  <2>1. rxCount = NumberAfter(rxLast) /\ rxCount \in Number /\ rxLast \in Number
    BY NumberTypes DEF ComInit
  <2> QED
    BY <1>5, <1>6, <2>1 DEF ComInit, ReceivedInv
<1>11. PromiseInv
  <2>1. /\ tokens["RxRdySema"] = 0 /\ Sleeps = FALSE /\ pc[Reader] \in PlainPlaces
    BY <1>0, <1>2, PlaceNames DEF ComInit, Sleeps, ComSema
  <2>2. Promise(pc[Reader], FALSE, result[Reader], 0, 0)
    BY <1>6, <2>1, PromiseKinds
  <2> QED
    BY <1>5, <2>1, <2>2 DEF PromiseInv
<1> QED
  BY <1>1, <1>3, <1>4, <1>7, <1>8, <1>9, <1>10, <1>11 DEF ComInv

LEMMA ComInvStays ==
  ASSUME ComInv, [ComNext]_comVars
  PROVE  ComInv'
<1>0. PlacesInv /\ TxInv /\ RxInv /\ Reader \in Task
  BY ReaderAssumption DEF ComInv, TxInv, RxInv
<1>1. ASSUME NEW t \in Task, NEW n \in BlockSize, LockTx(t, n) PROVE ComInv'
  <2>1. PlacesInv' /\ TxInv'
    BY <1>0, <1>1, LockTxKeeps
  <2>2. /\ ~Blocked(t) /\ UNCHANGED rxVars /\ pc[t] = "idle"
        /\ pc' = [pc EXCEPT ![t] = "lockTx"] /\ OS_SemaWait(t, "TxSema")
    BY <1>1 DEF LockTx, At, Goto
  <2>3. pc'[t] = "lockTx" /\ \A u \in Task \ {t} : pc'[u] = pc[u]
    BY <1>0, <2>2 DEF PlacesInv
  <2>4. RxInv'
    BY <2>1, <2>2, <2>3, SenderKeepsRx DEF SendPlaces
  <2> QED
    BY <2>1, <2>4 DEF ComInv, TxInv, RxInv
<1>2. ASSUME NEW t \in Task, ReadStep(t) PROVE ComInv'
  BY <1>2, GetAvailableKeeps, GetNothingKeeps, WaitForByteKeeps, GetSignalledKeeps,
     LookForByteKeeps, SignalAgainKeeps, ClearRingKeeps, ClearSemaKeeps, FreeRxKeeps
  DEF ReadStep
<1>3. ASSUME TransmitInterrupt \/ ShiftOut PROVE ComInv'
  <2>1. TxInv'
    BY <1>0, <1>3, UartSteps
  <2>2. UNCHANGED rxVars /\ UNCHANGED <<tokens, waiting, result, pc>>
    BY <1>3 DEF TransmitInterrupt, ShiftOut, semaVars
  <2>3. PlacesInv' /\ RxInv'
    BY <1>0, <2>2, RxKept DEF PlacesInv
  <2> QED
    BY <2>1, <2>3 DEF ComInv, TxInv, RxInv
<1>4. ASSUME UNCHANGED comVars PROVE ComInv'
  <2>1. UNCHANGED txVars /\ UNCHANGED rxVars /\ UNCHANGED <<tokens, waiting, result, pc, block>>
    BY <1>4 DEF comVars, semaVars
  <2>2. PlacesInv' /\ RxInv'
    BY <1>0, <2>1, RxKept DEF PlacesInv
  <2>3. TxInv'
    BY <1>0, <2>1, TxKept
  <2> QED
    BY <2>2, <2>3 DEF ComInv, TxInv, RxInv
<1> QED
  BY <1>1, <1>2, <1>3, <1>4, LockRxKeeps, SendStepKeeps, TimeoutKeeps, ReceiveInterruptKeeps
  DEF ComNext, Interrupt

\* Every state of a port that is open satisfies ComInv.
THEOREM ComInvariant == ComSpec => []ComInv
<1>1. ComInit => ComInv
  BY ComInvStarts
<1>2. ComInv /\ [ComNext]_comVars => ComInv'
  BY ComInvStays
<1> QED
  BY <1>1, <1>2, PTL DEF ComSpec

-----------------------------------------------------------------------------
(* What it says of the port.                                                 *)

\* The rings, semaphores, tasks and UART keep their types.
THEOREM ComTypeCorrect == ComSpec => []ComTypeOK
<1>1. ComInv => ComTypeOK
  <2> SUFFICES ASSUME ComInv PROVE ComTypeOK
    OBVIOUS
  <2>1. RingOK(RxRing, RX_RING_BUFFER_SIZE, Number)
    BY DEF ComInv, ReceivedInv, IsRing, RingRecord, RingOK
  <2>2. RingOK(TxRing, TX_RING_BUFFER_SIZE, TxByte)
    BY DEF ComInv, UartInv, IsRing, RingRecord, RingOK
  <2> QED
    BY <2>1, <2>2 DEF ComInv, PlacesInv, BlockInv, UartInv, ReceivedInv, ComTypeOK
<1> QED
  BY <1>1, ComInvariant, PTL

\* The transmitter runs while there are bytes in its ring, or a task is about to
\* start it: cpu_COMStartTx is never forgotten.
THEOREM TransmitterNeverStalls == ComSpec => []TxNeverStalls
<1>1. ComInv => TxNeverStalls
  <2> SUFFICES ASSUME ComInv, TxRing.wCount > 0, ~UART_INT_THR
               PROVE  \E t \in Task : pc[t] \in {"putAll", "startTx"} /\ ~Blocked(t)
    BY DEF TxNeverStalls
  <2>1. PICK t \in Task : WillStart(t)
    BY DEF ComInv, UartInv
  <2>2. pc[t] \in LockedPlaces
    BY <2>1 DEF WillStart, LockedPlaces, SendPlaces
  <2>3. ~Blocked(t)
    BY <2>2, Holder DEF ComInv
  <2> QED
    BY <2>1, <2>3 DEF WillStart
<1> QED
  BY <1>1, ComInvariant, PTL

\* A reader that RxRdySema has signalled finds a byte, and one that sleeps on it
\* has none to read, tal_COMClearOverflow included.
THEOREM SignalsAreTruthful == ComSpec => []RxSignalTruthful
<1>1. ComInv => RxSignalTruthful
  <2> SUFFICES ASSUME ComInv PROVE RxSignalTruthful
    OBVIOUS
  <2>1. PlacesInv /\ RxRing.wCount \in Nat /\ tokens["RxRdySema"] \in Nat
    BY RxTypes DEF ComInv
  <2>2. ASSUME pc[Reader] \in {"signalled", "signalledTest"}, ~Blocked(Reader), result[Reader] = "OK"
        PROVE  RxRing.wCount > 0
    <3>1. pc[Reader] \in AfterWait
      BY <2>2 DEF AfterWait
    <3>2. tokens["RxRdySema"] + 1 <= RxRing.wCount
      BY <2>2, <3>1, ReaderPromise
    <3> QED
      BY <2>1, <3>2
  <2>3. ASSUME pc[Reader] \in {"signalled", "signalledTest"}, Blocked(Reader)
        PROVE  RxRing.wCount = 0
    <3>1. PICK s \in ComSema : Reader \in waiting[s]
      BY <2>3 DEF Blocked
    <3>2. MayWait(Reader, s, pc[Reader])
      BY <2>1, <3>1 DEF PlacesInv
    <3>3. s = "RxRdySema"
      BY <2>3, <3>2 DEF MayWait, ReadPlaces
    <3>4. Sleeps /\ pc[Reader] \in AfterWait
      BY <2>3, <3>1, <3>3 DEF Sleeps, AfterWait
    <3>5. Promise(pc[Reader], Sleeps, result[Reader], tokens["RxRdySema"], RxRing.wCount)
      BY DEF ComInv, PromiseInv
    <3> QED
      BY <3>4, <3>5 DEF Promise
  <2> QED
    BY <2>2, <2>3 DEF RxSignalTruthful
<1> QED
  BY <1>1, ComInvariant, PTL
\* A sequence with one more element before it, and behind it.
LEMMA Before ==
  ASSUME NEW S, NEW a \in S, NEW q \in Seq(S)
  PROVE  /\ <<a>> \o q \in Seq(S) /\ Len(<<a>> \o q) = Len(q) + 1 /\ (<<a>> \o q)[1] = a
         /\ \A i \in 1..Len(q) : (<<a>> \o q)[i + 1] = q[i]
  OBVIOUS

LEMMA BehindAll ==
  ASSUME NEW S, NEW a \in S, NEW q \in Seq(S)
  PROVE  /\ Len(q \o <<a>>) = Len(q) + 1 /\ (q \o <<a>>)[Len(q) + 1] = a
         /\ \A i \in 1..Len(q) : (q \o <<a>>)[i] = q[i]
  OBVIOUS

LEMMA ReceivedInOrder ==
  ASSUME ReceivedInv
  PROVE  RxInOrder
<1> DEFINE q == Content(RxRing)
           n == RxRing.wCount
           front == <<rxLast>> \o q
           stream == front \o <<rxCount>>
<1>0. /\ RX_RING_BUFFER_SIZE \in Nat \ {0} /\ n \in Nat
      /\ rxCount \in Number /\ rxLast \in Number
      /\ n = 0 => rxCount = NumberAfter(rxLast)
      /\ n > 0 => q[1] = NumberAfter(rxLast) /\ rxCount = NumberAfter(q[n])
      /\ \A i \in 1..n - 1 : q[i + 1] = NumberAfter(q[i])
  BY RingAssumption DEF ReceivedInv, IsRing, RingRecord
<1>1. q \in Seq(Number) /\ Len(q) = n
  BY <1>0, ContentIs DEF ReceivedInv
<1>2. RxInOrder <=> \A i \in 1..Len(stream) - 1 : stream[i + 1] = NumberAfter(stream[i])
  BY DEF RxInOrder
<1> HIDE DEF q, n
<1>3. /\ front \in Seq(Number) /\ Len(front) = n + 1 /\ front[1] = rxLast
      /\ \A i \in 1..n : front[i + 1] = q[i]
  BY <1>0, <1>1, Before
<1> HIDE DEF front
<1>4. /\ Len(stream) = n + 2 /\ stream[n + 2] = rxCount
      /\ \A i \in 1..n + 1 : stream[i] = front[i]
  <2>1. /\ Len(stream) = Len(front) + 1 /\ stream[Len(front) + 1] = rxCount
        /\ \A i \in 1..Len(front) : stream[i] = front[i]
    BY <1>0, <1>3, BehindAll
  <2>2. Len(front) + 1 = n + 2
    BY <1>0, <1>3
  <2> QED
    BY <1>3, <2>1, <2>2
<1> HIDE DEF stream
<1>5. stream[1] = rxLast /\ \A i \in 1..n : stream[i + 1] = q[i]
  <2>1. 1 \in 1..n + 1 /\ \A i \in 1..n : i + 1 \in 1..n + 1
    BY <1>0
  <2> QED
    BY <1>3, <1>4, <2>1
<1>6. ASSUME NEW i \in 1..n + 1 PROVE stream[i + 1] = NumberAfter(stream[i])
  <2>1. CASE n = 0
    <3>1. i = 1 /\ i + 1 = n + 2
      BY <2>1
    <3> QED
      BY <1>0, <1>4, <1>5, <2>1, <3>1
  <2>2. CASE n # 0 /\ i = 1
    <3>1. n > 0 /\ 1 \in 1..n
      BY <1>0, <2>2
    <3>2. stream[1 + 1] = q[1]
      BY <1>5, <3>1
    <3> QED
      BY <1>0, <1>5, <2>2, <3>1, <3>2
  <2>3. CASE n # 0 /\ i # 1 /\ i <= n
    <3> DEFINE j == i - 1
    <3>1. j \in 1..n - 1 /\ j + 1 = i /\ j \in 1..n /\ i \in 1..n
      BY <1>0, <2>3
    <3> HIDE DEF j
    <3>2. stream[i + 1] = q[i] /\ stream[j + 1] = q[j] /\ q[j + 1] = NumberAfter(q[j])
      BY <1>0, <1>5, <3>1
    <3> QED
      BY <3>1, <3>2
  <2>4. CASE n # 0 /\ i = n + 1
    <3>1. n > 0 /\ n \in 1..n /\ i + 1 = n + 2
      BY <1>0, <2>4
    <3>2. stream[n + 1] = q[n]
      BY <1>5, <3>1
    <3> QED
      BY <1>0, <1>4, <2>4, <3>1, <3>2
  <2> QED
    BY <1>0, <2>1, <2>2, <2>3, <2>4
<1>7. Len(stream) - 1 = n + 1
  BY <1>0, <1>4
<1> QED
  BY <1>2, <1>6, <1>7

\* The ring from its second byte on, behind a byte it follows.
LEMMA ChainBehind ==
  ASSUME UartInv, ChainInv, NEW a \in TxByte \cup {NULL}, a = LastOut,
         NEW s, s = <<a>> \o Content(TxRing)
  PROVE  /\ s \in Seq(TxByte \cup {NULL}) /\ Len(s) = TxRing.wCount + 1 /\ s[1] = a
         /\ TxRing.wCount \in Nat
         /\ \A i \in 1..TxRing.wCount : Follows(s[i], s[i + 1])
         /\ s[TxRing.wCount + 1] = LastSent
<1> DEFINE q == Content(TxRing)
           n == TxRing.wCount
<1>0. /\ TX_RING_BUFFER_SIZE \in Nat \ {0} /\ n \in Nat
      /\ n > 0 => Follows(a, q[1])
      /\ \A i \in 1..n - 1 : Follows(q[i], q[i + 1])
      /\ LastSent = IF n = 0 THEN a ELSE q[n]
  BY RingAssumption DEF UartInv, ChainInv, IsRing, RingRecord, LastSent
<1>1. q \in Seq(TxByte) /\ Len(q) = n
  BY <1>0, ContentIs DEF UartInv
<1>2. s = <<a>> \o q
  OBVIOUS
<1> HIDE DEF q, n
<1>3. q \in Seq(TxByte \cup {NULL})
  BY <1>1
<1>4. /\ s \in Seq(TxByte \cup {NULL}) /\ Len(s) = n + 1 /\ s[1] = a
      /\ \A i \in 1..n : s[i + 1] = q[i]
  <2> DEFINE B == TxByte \cup {NULL}
  <2>1. a \in B /\ q \in Seq(B) /\ Len(q) = n
    BY <1>1, <1>3
  <2> HIDE DEF B
  <2>2. /\ <<a>> \o q \in Seq(B) /\ Len(<<a>> \o q) = Len(q) + 1 /\ (<<a>> \o q)[1] = a
        /\ \A i \in 1..Len(q) : (<<a>> \o q)[i + 1] = q[i]
    BY <2>1, Before
  <2>3. /\ s \in Seq(B) /\ Len(s) = n + 1 /\ s[1] = a
        /\ \A i \in 1..n : s[i + 1] = q[i]
    BY <1>2, <2>1, <2>2
  <2> QED
    BY <2>3 DEF B
<1>5. ASSUME NEW i \in 1..n PROVE Follows(s[i], s[i + 1])
  <2>1. s[i + 1] = q[i] /\ n > 0
    BY <1>0, <1>4
  <2>2. CASE i = 1
    BY <1>0, <1>4, <2>1, <2>2
  <2>3. CASE i # 1
    <3> DEFINE j == i - 1
    <3>1. j \in 1..n - 1 /\ j + 1 = i /\ j \in 1..n
      BY <1>0, <2>3
    <3> HIDE DEF j
    <3>2. s[j + 1] = q[j] /\ Follows(q[j], q[j + 1])
      BY <1>0, <1>4, <3>1
    <3> QED
      BY <2>1, <3>1, <3>2
  <2> QED
    BY <2>2, <2>3
<1>6. s[n + 1] = LastSent
  <2>1. CASE n = 0
    BY <1>0, <1>4, <2>1
  <2>2. CASE n # 0
    <3>1. n \in 1..n
      BY <1>0, <2>2
    <3> QED
      BY <1>0, <1>4, <2>2, <3>1
  <2> QED
    BY <2>1, <2>2
<1> QED
  BY <1>0, <1>4, <1>5, <1>6 DEF n

LEMMA SentInOrder ==
  ASSUME UartInv, ChainInv, NextInv, BlockInv, PlacesInv
  PROVE  TxInOrder
<1> DEFINE q == Content(TxRing)
           n == TxRing.wCount
           B == TxByte \cup {NULL}
           sent == <<txLast>> \o (IF UART_THR = NULL THEN <<>> ELSE <<UART_THR>>) \o q
<1>0. q \in Seq(TxByte) /\ q \in Seq(B) /\ txLast \in B /\ UART_THR \in B
  BY RingAssumption, ContentIs DEF UartInv
<1>1. ASSUME NEW b \in NextToSend PROVE Follows(LastSent, b)
  <2>1. PICK t \in Task : /\ pc[t] \notin {"idle", "lockTx"} /\ b = block[t]
                          /\ b # NULL /\ b.index <= b.size
    BY DEF NextToSend
  <2>2. BlockAt(t)
    BY DEF BlockInv
  <2>3. pc[t] \in SendPlaces
    BY <2>1, <2>2 DEF BlockAt
  <2>4. Unsent(t)
    BY <2>1, <2>3 DEF Unsent, LockedPlaces
  <2> QED
    BY <2>1, <2>4 DEF NextInv
<1>2. TxInOrder <=>
        /\ \A i \in 1..Len(sent) - 1 : Follows(sent[i], sent[i + 1])
        /\ \A b \in NextToSend : Follows(sent[Len(sent)], b)
  BY DEF TxInOrder
<1>3. /\ n \in Nat
      /\ \A i \in 1..Len(sent) - 1 : Follows(sent[i], sent[i + 1])
      /\ sent[Len(sent)] = LastSent
  <2>1. CASE UART_THR = NULL
    <3>1. sent = <<txLast>> \o q /\ txLast = LastOut
      <4>1. <<txLast>> \o <<>> = <<txLast>>
        BY <1>0
      <4> QED
        BY <2>1, <4>1 DEF LastOut
    <3> HIDE DEF sent
    <3>2. /\ Len(sent) = n + 1 /\ n \in Nat
          /\ \A i \in 1..n : Follows(sent[i], sent[i + 1])
          /\ sent[n + 1] = LastSent
      BY <1>0, <3>1, ChainBehind
    <3>3. Len(sent) - 1 = n
      BY <3>2
    <3> QED
      BY <3>2, <3>3
  <2>2. CASE UART_THR # NULL
    <3> DEFINE s == <<UART_THR>> \o q
    <3>1. LastOut = UART_THR /\ Follows(txLast, UART_THR)
      BY <2>2 DEF LastOut, ChainInv
    <3>2. /\ s \in Seq(B) /\ Len(s) = n + 1 /\ s[1] = UART_THR /\ n \in Nat
          /\ \A i \in 1..n : Follows(s[i], s[i + 1])
          /\ s[n + 1] = LastSent
      BY <1>0, <3>1, ChainBehind
    <3>3. sent = <<txLast>> \o s
      <4>1. <<txLast>> \in Seq(B) /\ <<UART_THR>> \in Seq(B)
        BY <1>0
      <4>2. \A x, y, z \in Seq(B) : x \o y \o z = x \o (y \o z)
        BY ConcatAssociative
      <4>3. sent = <<txLast>> \o <<UART_THR>> \o q
        BY <2>2
      <4> QED
        BY <1>0, <4>1, <4>2, <4>3
    <3> HIDE DEF s, sent, q, n, B
    <3>4. /\ Len(sent) = n + 2 /\ sent[1] = txLast
          /\ \A i \in 1..n + 1 : sent[i + 1] = s[i]
      BY <1>0, <3>2, <3>3, Before
    <3>5. ASSUME NEW i \in 1..n + 1 PROVE Follows(sent[i], sent[i + 1])
      <4>1. sent[i + 1] = s[i]
        BY <3>4
      <4>2. CASE i = 1
        BY <3>1, <3>2, <3>4, <4>1, <4>2
      <4>3. CASE i # 1
        <5> DEFINE j == i - 1
        <5>1. j \in 1..n /\ j + 1 = i /\ j \in 1..n + 1
          BY <3>2, <4>3
        <5> HIDE DEF j
        <5>2. sent[j + 1] = s[j] /\ Follows(s[j], s[j + 1])
          BY <3>2, <3>4, <5>1
        <5> QED
          BY <4>1, <5>1, <5>2
      <4> QED
        BY <4>2, <4>3
    <3>6. sent[n + 2] = LastSent
      <4>1. n + 1 \in 1..n + 1 /\ (n + 1) + 1 = n + 2
        BY <3>2
      <4> QED
        BY <3>2, <3>4, <4>1
    <3>7. Len(sent) - 1 = n + 1
      BY <3>2, <3>4
    <3> QED
      BY <3>2, <3>4, <3>5, <3>6, <3>7
  <2> QED
    BY <2>1, <2>2
<1> QED
  BY <1>1, <1>2, <1>3

\* Received bytes reach the reader in the order of their arrival and each once, and
\* blocks are sent whole, one after the other, however many tasks send.
THEOREM BytesStayInOrder == ComSpec => []BytesInOrder
<1>1. ComInv => BytesInOrder
  BY ReceivedInOrder, SentInOrder DEF ComInv, BytesInOrder
<1> QED
  BY <1>1, ComInvariant, PTL
=============================================================================
