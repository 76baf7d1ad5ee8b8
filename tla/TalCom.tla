------------------------------- MODULE TalCom --------------------------------
(***************************************************************************)
(* A serial port: the driver of tal_b3/core/src/talcom.c, the rings of     *)
(* talmisc.c and the interrupt handler of the UART in talcpu_com.c.  Tasks *)
(* are switched at kernel calls; interrupts occur wherever they are        *)
(* enabled, that is between any two ring operations.  Here tasks too are   *)
(* switched between ring operations, which is more than the scheduler      *)
(* does.  A kernel call is a step of SemaService.                          *)
(***************************************************************************)
EXTENDS Integers, Sequences

CONSTANTS
  Task,                \* the tasks that use the port
  Reader,              \* the one that receives (the terminal task)
  NULL,                \* no byte
  RX_RING_BUFFER_SIZE, \* slots of the receive ring
  TX_RING_BUFFER_SIZE, \* slots of the transmit ring
  BlockSize            \* the sizes of the blocks that are sent

ASSUME ReaderAssumption == Reader \in Task
ASSUME RingAssumption ==
  RX_RING_BUFFER_SIZE \in Nat \ {0} /\ TX_RING_BUFFER_SIZE \in Nat \ {0}
ASSUME BlockAssumption == BlockSize \subseteq Nat \ {0}

VARIABLES
  RxRing, TxRing,          \* of the device control block
  bRxOverflow,             \* of the device control block
  tokens, waiting, result, \* its semaphores
  UART_THR,                \* the byte in the transmit holding register
  UART_INT_THR,            \* is the transmit interrupt enabled?
  pc,                      \* per task: where it is in a call
  block,                   \* per task: the byte of its block it sends next
  rxCount, rxLast, txLast  \* observers: the number of the next received byte, the
                           \* last byte given to the reader, the last one sent of
                           \* a block that is not complete (else NULL)

ringVars == <<RxRing, TxRing>>
semaVars == <<tokens, waiting, result>>
uartVars == <<UART_THR, UART_INT_THR>>
rxVars == <<RxRing, bRxOverflow, rxCount, rxLast>>
txVars == <<TxRing, uartVars, txLast>>
comVars == <<rxVars, txVars, semaVars, pc, block>>

ComSema == {"Sema", "TxSema", "RxRdySema"}
\* The receive semaphore counts the bytes of two fillings at most: one of them
\* while tal_COMClearOverflow has reset the ring but not the semaphore.
Kernel == INSTANCE SemaService WITH
  Client <- Task, Sema <- ComSema, MaxTokens <- 2 * RX_RING_BUFFER_SIZE

(***************************************************************************)
(* Received bytes are numbered as they enter the ring, modulo more than it *)
(* can hold; a byte to send is the index-th of a block of size bytes.      *)
(***************************************************************************)
Number == 0..RX_RING_BUFFER_SIZE + 1
NumberAfter(n) == (n + 1) % (RX_RING_BUFFER_SIZE + 2)
TxByte == [from : Task, index : Nat, size : BlockSize]

ASSUME NullAssumption == NULL \notin TxByte

-----------------------------------------------------------------------------
\* Rings.  A slot that was read is shown empty.
RingReset(size) ==
  [wMaxElementCount |-> size, wCount |-> 0, wInIndex |-> 0, wOutIndex |-> 0,
   pBuffer |-> [i \in 0..size - 1 |-> NULL]]

\* Mutation of IndexAfter: the index is compared before it is incremented.
IndexAfterLate(ring, i) == IF i = ring.wMaxElementCount THEN 0 ELSE i + 1

IndexAfter(ring, i) == IF i + 1 = ring.wMaxElementCount THEN 0 ELSE i + 1

RingFull(ring) == ring.wCount = ring.wMaxElementCount
RingAdd(ring, b) ==
  [ring EXCEPT !.wCount = ring.wCount + 1,
               !.wInIndex = IndexAfter(ring, ring.wInIndex),
               !.pBuffer[ring.wInIndex] = b]
RingGet(ring) ==
  [ring EXCEPT !.wCount = ring.wCount - 1,
               !.wOutIndex = IndexAfter(ring, ring.wOutIndex),
               !.pBuffer[ring.wOutIndex] = NULL]
RingNext(ring) == ring.pBuffer[ring.wOutIndex]

-----------------------------------------------------------------------------
\* Kernel calls.
Blocked(t) == \E s \in ComSema : t \in waiting[s]
At(t, place) == pc[t] = place /\ ~Blocked(t)
Goto(t, place) == pc' = [pc EXCEPT ![t] = place]

OS_SemaWait(t, s) ==
  \/ result' = [result EXCEPT ![t] = "OK"] /\ Kernel!Take(s)
  \/ result' = [result EXCEPT ![t] = "ERROR"] /\ Kernel!Queue(t, s)

OS_SemaSignal(s) ==
  \/ UNCHANGED result /\ Kernel!Post(s)
  \/ \E t \in waiting[s] : result' = [result EXCEPT ![t] = "OK"] /\ Kernel!Grant(t, s)

-----------------------------------------------------------------------------
\* The UART interrupt, receive part: a byte has arrived.  TAL_OK is the value of
\* TAL_FALSE, so the flag stays clear and the byte is dropped without a trace.
TAL_OK == FALSE

\* Mutation of ReceiveInterrupt: a byte that was dropped is signalled too.
ReceiveInterruptSignalAlways ==
  /\ ~bRxOverflow
  /\ IF RingFull(RxRing) THEN UNCHANGED rxVars
     ELSE /\ RxRing' = RingAdd(RxRing, rxCount)
          /\ rxCount' = NumberAfter(rxCount)
          /\ UNCHANGED <<bRxOverflow, rxLast>>
  /\ OS_SemaSignal("RxRdySema")
  /\ UNCHANGED <<txVars, pc, block>>

ReceiveInterrupt ==
  /\ ~bRxOverflow
  /\ \/ /\ ~RingFull(RxRing)
        /\ RxRing' = RingAdd(RxRing, rxCount)
        /\ rxCount' = NumberAfter(rxCount)
        /\ OS_SemaSignal("RxRdySema")
        /\ UNCHANGED <<bRxOverflow, rxLast>>
     \/ /\ RingFull(RxRing)
        /\ bRxOverflow' = TAL_OK
        /\ UNCHANGED <<RxRing, rxCount, rxLast, semaVars>>
  /\ UNCHANGED <<txVars, pc, block>>

\* The transmit part: the register is empty and its interrupt is enabled.
TransmitInterrupt ==
  /\ UART_INT_THR /\ UART_THR = NULL
  /\ IF TxRing.wCount = 0
     THEN UART_INT_THR' = FALSE /\ UNCHANGED <<TxRing, UART_THR>>
     ELSE /\ UART_THR' = RingNext(TxRing)
          /\ TxRing' = RingGet(TxRing)
          /\ UNCHANGED UART_INT_THR
  /\ UNCHANGED <<txLast, rxVars, semaVars, pc, block>>

\* The UART sends what is in the register.
ShiftOut ==
  /\ UART_THR # NULL
  /\ txLast' = IF UART_THR.index = UART_THR.size THEN NULL ELSE UART_THR
  /\ UART_THR' = NULL
  /\ UNCHANGED <<TxRing, UART_INT_THR, rxVars, semaVars, pc, block>>

\* Mutation of cpu_COMStartTx: the interrupt is not enabled.
StartTxOneByte ==
  /\ IF UART_INT_THR \/ TxRing.wCount = 0 THEN UNCHANGED <<TxRing, uartVars>>
     ELSE /\ UART_THR' = RingNext(TxRing)
          /\ TxRing' = RingGet(TxRing)
          /\ UNCHANGED UART_INT_THR
  /\ UNCHANGED <<txLast, rxVars, semaVars>>

\* If nothing is being sent, send the first byte and leave the rest to the interrupt.
cpu_COMStartTx ==
  /\ IF UART_INT_THR \/ TxRing.wCount = 0 THEN UNCHANGED <<TxRing, uartVars>>
     ELSE /\ UART_THR' = RingNext(TxRing)
          /\ TxRing' = RingGet(TxRing)
          /\ UART_INT_THR' = TRUE
  /\ UNCHANGED <<txLast, rxVars, semaVars>>

-----------------------------------------------------------------------------
\* tal_COMSendBlock.
SendPlaces == {"lockTx", "putAll", "putByte", "full", "restart", "startTx", "freeTx"}

\* Mutation of LockTx: the block is sent without the lock.
LockTxNot(t, n) ==
  /\ At(t, "idle")
  /\ Goto(t, "lockTx")
  /\ block' = [block EXCEPT ![t] = [from |-> t, index |-> 1, size |-> n]]
  /\ UNCHANGED <<rxVars, txVars, semaVars>>

LockTx(t, n) ==
  /\ At(t, "idle")
  /\ Goto(t, "lockTx")
  /\ block' = [block EXCEPT ![t] = [from |-> t, index |-> 1, size |-> n]]
  /\ OS_SemaWait(t, "TxSema")
  /\ UNCHANGED <<rxVars, txVars>>

CheckSpace(t) ==
  /\ At(t, "lockTx")
  /\ Goto(t, IF TxRing.wMaxElementCount - TxRing.wCount >= block[t].size
             THEN "putAll" ELSE "putByte")
  /\ UNCHANGED <<rxVars, txVars, semaVars, block>>

\* The byte goes into the ring; behind the last byte of the block index is one
\* above size.
PutByte(t) ==
  /\ TxRing' = RingAdd(TxRing, block[t])
  /\ block' = [block EXCEPT ![t].index = @ + 1]
  /\ UNCHANGED <<uartVars, txLast, rxVars, semaVars>>

\* There was space for the whole block: start the transmitter behind its last byte.
PutAll(t) ==
  /\ At(t, "putAll")
  /\ PutByte(t)
  /\ Goto(t, IF block[t].index = block[t].size THEN "startTx" ELSE "putAll")

PutNext(t) ==
  /\ At(t, "putByte")
  /\ IF RingFull(TxRing)
     THEN Goto(t, "full") /\ UNCHANGED <<rxVars, txVars, semaVars, block>>
     ELSE Goto(t, "startTx") /\ PutByte(t)

\* While the ring is full: see that the transmitter runs, wait a tick, look again.
RetryFull(t) ==
  /\ At(t, "full")
  /\ IF RingFull(TxRing)
     THEN Goto(t, "restart") /\ UNCHANGED <<rxVars, txVars, semaVars, block>>
     ELSE Goto(t, "startTx") /\ PutByte(t)

Restart(t) ==
  /\ At(t, "restart")
  /\ Goto(t, "full")
  /\ cpu_COMStartTx
  /\ UNCHANGED block

StartTx(t) ==
  /\ At(t, "startTx")
  /\ cpu_COMStartTx
  /\ Goto(t, IF block[t].index > block[t].size THEN "freeTx" ELSE "putByte")
  /\ UNCHANGED block

\* Mutation of FreeTx: the lock is kept.
FreeTxNot(t) ==
  /\ At(t, "freeTx")
  /\ Goto(t, "idle")
  /\ block' = [block EXCEPT ![t] = NULL]
  /\ UNCHANGED <<rxVars, txVars, semaVars>>

FreeTx(t) ==
  /\ At(t, "freeTx")
  /\ Goto(t, "idle")
  /\ block' = [block EXCEPT ![t] = NULL]
  /\ OS_SemaSignal("TxSema")
  /\ UNCHANGED <<rxVars, txVars>>

SendStep(t) ==
  \/ CheckSpace(t) \/ PutAll(t) \/ PutNext(t) \/ RetryFull(t) \/ Restart(t)
  \/ StartTx(t) \/ FreeTx(t)

-----------------------------------------------------------------------------
\* The receiving calls.  Each takes the lock first; where it is afterwards says
\* which call it is.
ReadPlaces ==
  {"ReceiveChar", "ReceiveCharWait", "ReceiveCharTest", "ReceiveCharTestWait", "ClearOverflow"}
UseRx(t) == UNCHANGED <<txVars, block>> /\ t = Reader

LockRx(t, call) ==
  /\ At(t, "idle") /\ UseRx(t)
  /\ Goto(t, call)
  /\ OS_SemaWait(t, "Sema")
  /\ UNCHANGED rxVars

\* GetRxData, where the overflow flag is clear.
GetRxData ==
  /\ RxRing.wCount # 0
  /\ rxLast' = RingNext(RxRing)
  /\ RxRing' = RingGet(RxRing)
  /\ UNCHANGED <<bRxOverflow, rxCount, semaVars>>

\* tal_COMReceiveChar gives the lock back before it takes the count of its byte;
\* tal_COMReceiveCharWait takes it first.
GetAvailable(t) ==
  /\ UseRx(t)
  /\ \/ At(t, "ReceiveChar") /\ Goto(t, "freeRxThenCount")
     \/ At(t, "ReceiveCharWait") /\ Goto(t, "countThenFreeRx")
  /\ GetRxData

\* Nothing there: tal_COMReceiveCharWait waits.
GetNothing(t) ==
  /\ UseRx(t)
  /\ RxRing.wCount = 0
  /\ \/ At(t, "ReceiveChar") /\ Goto(t, "freeRx")
     \/ At(t, "ReceiveCharWait") /\ Goto(t, "wait")
  /\ UNCHANGED <<rxVars, semaVars>>

\* OS_SemaWait(&RxRdySema, ...) with a timeout that may expire: one tick to take
\* the count of a byte that was read, the caller's timeout to wait for one.  The
\* last wait of tal_COMReceiveChar ends the call: the task is "idle" once it is
\* no longer blocked.
WaitForByte(t) ==
  /\ UseRx(t)
  /\ \/ At(t, "wait") /\ Goto(t, "signalled")
     \/ At(t, "waitTest") /\ Goto(t, "signalledTest")
     \/ At(t, "countThenFreeRx") /\ Goto(t, "freeRx")
     \/ At(t, "count") /\ Goto(t, "idle")
  /\ OS_SemaWait(t, "RxRdySema")
  /\ UNCHANGED rxVars

Timeout(t) ==
  /\ UseRx(t)
  /\ t \in waiting["RxRdySema"]
  /\ result' = [result EXCEPT ![t] = "TIMEOUT"]
  /\ Kernel!Expire({t})
  /\ UNCHANGED <<rxVars, pc>>

\* The wait for a byte is over: get it if the semaphore was signalled.
GetSignalled(t) ==
  /\ UseRx(t)
  /\ At(t, "signalled") /\ Goto(t, "freeRx")
  /\ IF result[t] = "OK" /\ RxRing.wCount # 0 THEN GetRxData ELSE UNCHANGED <<rxVars, semaVars>>

\* tal_COMReceiveCharTest only looks; tal_COMReceiveCharTestWait waits if there is
\* nothing and gives the count back.
LookForByte(t) ==
  /\ UseRx(t)
  /\ \/ At(t, "ReceiveCharTest") /\ Goto(t, "freeRx")
     \/ At(t, "ReceiveCharTestWait") /\ Goto(t, IF RxRing.wCount = 0 THEN "waitTest" ELSE "freeRx")
  /\ UNCHANGED <<rxVars, semaVars>>

SignalAgain(t) ==
  /\ UseRx(t)
  /\ At(t, "signalledTest") /\ Goto(t, "freeRx")
  /\ IF result[t] = "OK" THEN OS_SemaSignal("RxRdySema") ELSE UNCHANGED semaVars
  /\ UNCHANGED rxVars

\* tal_COMClearOverflow: the ring is reset with interrupts disabled, and so is
\* the semaphore, but not both at once.
ClearRing(t) ==
  /\ UseRx(t)
  /\ At(t, "ClearOverflow") /\ Goto(t, "deleteSema")
  /\ RxRing' = RingReset(RX_RING_BUFFER_SIZE)
  /\ rxCount' = 0 /\ rxLast' = RX_RING_BUFFER_SIZE + 1    \* numbered anew
  /\ UNCHANGED <<bRxOverflow, semaVars>>

ClearSema(t) ==
  /\ UseRx(t)
  /\ \/ /\ At(t, "deleteSema") /\ Goto(t, "createSema")
        /\ UNCHANGED result /\ Kernel!Delete("RxRdySema")
        /\ UNCHANGED bRxOverflow
     \/ /\ At(t, "createSema") /\ Goto(t, "freeRx")
        /\ tokens' = [tokens EXCEPT !["RxRdySema"] = 0]
        /\ bRxOverflow' = FALSE
        /\ UNCHANGED <<waiting, result>>
  /\ UNCHANGED <<RxRing, rxCount, rxLast>>

FreeRx(t) ==
  /\ UseRx(t)
  /\ \/ At(t, "freeRx") /\ Goto(t, "idle")
     \/ At(t, "freeRxThenCount") /\ Goto(t, "count")
  /\ OS_SemaSignal("Sema")
  /\ UNCHANGED rxVars

ReadStep(t) ==
  \/ GetAvailable(t) \/ GetNothing(t) \/ WaitForByte(t) \/ GetSignalled(t)
  \/ LookForByte(t) \/ SignalAgain(t) \/ ClearRing(t) \/ ClearSema(t) \/ FreeRx(t)

-----------------------------------------------------------------------------
\* term_Start has opened the port.
ComInit ==
  /\ RxRing = RingReset(RX_RING_BUFFER_SIZE) /\ TxRing = RingReset(TX_RING_BUFFER_SIZE)
  /\ bRxOverflow = FALSE
  /\ tokens = [s \in ComSema |-> IF s = "RxRdySema" THEN 0 ELSE 1]
  /\ waiting = [s \in ComSema |-> {}]
  /\ result = [t \in Task |-> "OK"]
  /\ UART_THR = NULL /\ UART_INT_THR = FALSE
  /\ pc = [t \in Task |-> "idle"]
  /\ block = [t \in Task |-> NULL]
  /\ rxCount = 0 /\ rxLast = RX_RING_BUFFER_SIZE + 1
  /\ txLast = NULL

Interrupt == ReceiveInterrupt \/ TransmitInterrupt \/ ShiftOut

ComNext ==
  \/ \E t \in Task, n \in BlockSize : LockTx(t, n)
  \/ \E call \in ReadPlaces : LockRx(Reader, call)
  \/ \E t \in Task : SendStep(t) \/ ReadStep(t) \/ Timeout(t)
  \/ Interrupt

ComSpec == ComInit /\ [][ComNext]_comVars

\* A task that is ready gets the CPU, the tick ends a delay, the UART sends and
\* interrupts.  Nothing need be received and no block need be sent.
ComFairSpec ==
  /\ ComSpec
  /\ \A t \in Task : WF_comVars(SendStep(t))
  /\ WF_comVars(TransmitInterrupt) /\ WF_comVars(ShiftOut)

-----------------------------------------------------------------------------
RingOK(ring, size, Byte) ==
  /\ ring.wMaxElementCount = size
  /\ ring.wCount \in 0..size
  /\ ring.wInIndex \in 0..size - 1 /\ ring.wOutIndex \in 0..size - 1
  /\ ring.pBuffer \in [0..size - 1 -> Byte \cup {NULL}]

ComTypeOK ==
  /\ RingOK(RxRing, RX_RING_BUFFER_SIZE, Number)
  /\ RingOK(TxRing, TX_RING_BUFFER_SIZE, TxByte)
  /\ bRxOverflow \in BOOLEAN /\ UART_INT_THR \in BOOLEAN
  /\ tokens \in [ComSema -> 0..2 * RX_RING_BUFFER_SIZE]
  /\ waiting \in [ComSema -> SUBSET Task]
  /\ block \in [Task -> TxByte \cup {NULL}]
  /\ UART_THR \in TxByte \cup {NULL} /\ txLast \in TxByte \cup {NULL}
  /\ rxCount \in Number /\ rxLast \in Number

\* The bytes in a ring, from the next one to be read to the last one added.
Content(ring) ==
  [i \in 1..ring.wCount |->
     ring.pBuffer[(ring.wOutIndex + i - 1) % ring.wMaxElementCount]]

\* Received bytes reach the reader in the order in which they arrived, each once,
\* but for those that a full ring dropped.
RxInOrder ==
  LET stream == <<rxLast>> \o Content(RxRing) \o <<rxCount>>
  IN  \A i \in 1..Len(stream) - 1 : stream[i + 1] = NumberAfter(stream[i])

\* What may go out after byte a: the rest of its block, and then a new block.
Follows(a, b) ==
  IF a = NULL \/ a.index = a.size THEN b.index = 1 ELSE b = [a EXCEPT !.index = a.index + 1]

\* Blocks are sent whole and one after the other, however many tasks send at the
\* same time and wherever a block had to wait for space.
NextToSend == {b \in {block[t] : t \in {u \in Task : pc[u] \notin {"idle", "lockTx"}}} :
                 b # NULL /\ b.index <= b.size}
TxInOrder ==
  LET sent == <<txLast>> \o (IF UART_THR = NULL THEN <<>> ELSE <<UART_THR>>) \o Content(TxRing)
  IN  /\ \A i \in 1..Len(sent) - 1 : Follows(sent[i], sent[i + 1])
      /\ \A b \in NextToSend : Follows(sent[Len(sent)], b)

BytesInOrder == RxInOrder /\ TxInOrder

\* The receive semaphore does not lie: a reader that was signalled finds a byte,
\* and one that sleeps has none to read, also while bytes arrive during
\* tal_COMClearOverflow.
RxSignalTruthful ==
  /\ pc[Reader] \in {"signalled", "signalledTest"} /\ ~Blocked(Reader) /\ result[Reader] = "OK"
       => RxRing.wCount > 0
  /\ pc[Reader] \in {"signalled", "signalledTest"} /\ Blocked(Reader) => RxRing.wCount = 0

\* Bytes never stay behind in the ring: the transmitter runs, or a task that will
\* start it has not come to that yet.
TxNeverStalls ==
  TxRing.wCount > 0 =>
    UART_INT_THR \/ \E t \in Task : pc[t] \in {"putAll", "startTx"} /\ ~Blocked(t)

\* tal_COMSendBlock returns, although it waits for the lock and for space.
SendEnds == \A t \in Task : pc[t] \in SendPlaces ~> pc[t] = "idle"
=============================================================================
