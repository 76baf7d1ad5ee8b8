----------------------------- MODULE EthernetIf ------------------------------
(***************************************************************************)
(* The Ethernet interface of lwip_port/dev/ethernetif.c: the DMA of the    *)
(* switch, the two interrupt handlers, the receive task with its mailbox   *)
(* and event, and low_level_output.  The mailbox is an OS_MBOX of TCTS,    *)
(* the only one there is.  Interrupt handlers are never interrupted, the   *)
(* DMA goes on during everything.                                          *)
(***************************************************************************)
EXTENDS Integers, Sequences, FiniteSets

CONSTANTS
  NUM_BUFF_RXDESCS, \* receive descriptors, and slots of the mailbox
  NUM_BUFF_TXDESCS, \* transmit descriptors
  NULL              \* no descriptor

ASSUME DescAssumption ==
  /\ NUM_BUFF_RXDESCS \in Nat \ {0} /\ NUM_BUFF_TXDESCS \in Nat \ {0}
  /\ NULL \notin Nat

VARIABLES
  \* receive descriptors
  rxOwner,       \* per descriptor: does it belong to the DMA?
  RxBuf,         \* per descriptor: the frame in its buffer
  rxDMA,         \* the descriptor the DMA fills next, NULL behind the last
  next_rx_index,
  \* the mailbox RxMbox, with the counters of its semaphores
  wCount, wInIndex, wOutIndex, pBuffer, UsedCntSema, FreeCntSema,
  \* the receive task
  NetIfEvent,    \* is NETIF_EVENT_RX set?
  rxTask,        \* where the task is
  bd,            \* the descriptor it reads
  \* transmit descriptors
  txFlags,       \* per descriptor: flags_pktlen
  TxBuf,         \* per descriptor: the frame in its buffer
  txDMA,         \* the descriptor the DMA sends, or NULL
  txDone,        \* is the transmit interrupt pending?
  tx_running, tx_read_index, tx_write_index,
  txTask,        \* is low_level_output filling a descriptor?
  \* observers
  rxFrame,       \* the number of the next frame to arrive
  rxTaken,       \* the last frame the task took, lost or delivered
  lapped,        \* was a frame overwritten that waited to be read?
  starved,       \* did the task stop because there was no pbuf?
  txFrame,       \* the number of the next frame to send
  txLine         \* the last frame on the line

descVars == <<rxOwner, RxBuf, rxDMA, next_rx_index>>
mboxVars == <<wCount, wInIndex, wOutIndex, pBuffer, UsedCntSema, FreeCntSema>>
rxVars == <<descVars, mboxVars, NetIfEvent, rxTask, bd, rxFrame, rxTaken, lapped, starved>>
txVars == <<txFlags, TxBuf, txDMA, txDone, tx_running, tx_read_index, tx_write_index,
            txTask, txFrame, txLine>>
nicVars == <<rxVars, txVars>>

RxDesc == 0..NUM_BUFF_RXDESCS - 1
TxDesc == 0..NUM_BUFF_TXDESCS - 1

(***************************************************************************)
(* Frames are numbered, modulo more than can be under way: one in every    *)
(* descriptor, the last one taken and the next one.                        *)
(***************************************************************************)
RxNumber == 0..NUM_BUFF_RXDESCS + 1
TxNumber == 0..NUM_BUFF_TXDESCS + 1
RxAfter(n) == (n + 1) % (NUM_BUFF_RXDESCS + 2)
RxBefore(n) == (n - 1) % (NUM_BUFF_RXDESCS + 2)
TxAfter(n) == (n + 1) % (NUM_BUFF_TXDESCS + 2)

-----------------------------------------------------------------------------
\* The mails in the mailbox, oldest first, and what the task is working on.
Mails == [i \in 1..wCount |-> pBuffer[(wOutIndex + i - 1) % NUM_BUFF_RXDESCS]]
Completed == {d \in RxDesc : d >= next_rx_index /\ \A e \in next_rx_index..d : ~rxOwner[e]}
Unread == {Mails[i] : i \in 1..wCount} \cup Completed \cup (IF bd = NULL THEN {} ELSE {bd})

\* The DMA completes a frame and goes on to the next descriptor of the chain.
FrameArrives ==
  /\ rxDMA # NULL /\ rxOwner[rxDMA]
  /\ rxOwner' = [rxOwner EXCEPT ![rxDMA] = FALSE]
  /\ RxBuf' = [RxBuf EXCEPT ![rxDMA] = rxFrame]
  /\ rxDMA' = IF rxDMA + 1 \in RxDesc THEN rxDMA + 1 ELSE NULL
  /\ rxFrame' = RxAfter(rxFrame)
  /\ lapped' = (lapped \/ rxDMA \in Unread)
  /\ UNCHANGED <<next_rx_index, mboxVars, NetIfEvent, rxTask, bd, rxTaken, starved, txVars>>

\* Mutation of MailsPosted: a full mailbox is not noticed.
MailsPostedAll(count) == count

\* How many of the completed descriptors find space in the mailbox.
MailsPosted(count) ==
  LET wFreeCnt == NUM_BUFF_RXDESCS - wCount IN IF count <= wFreeCnt THEN count ELSE wFreeCnt

\* OS_MboxPostFromInt of the completed descriptors, in order; those that find the
\* mailbox full are not posted, and the handler ignores that.
MboxPostFromInt(count) ==
  LET posted  == MailsPosted(count)
      slot(k) == (wInIndex + k) % NUM_BUFF_RXDESCS
  IN  /\ wCount' = wCount + posted
      /\ wInIndex' = slot(posted)
      /\ pBuffer' = [s \in RxDesc |->
                       LET ks == {k \in 0..posted - 1 : slot(k) = s}
                       IN  IF ks = {} THEN pBuffer[s] ELSE next_rx_index + CHOOSE k \in ks : TRUE]
      /\ UsedCntSema' = UsedCntSema + posted
      /\ FreeCntSema' = FreeCntSema - posted
      /\ UNCHANGED wOutIndex

\* Mutation of SetRxEvent: an event nobody waits for is forgotten.
SetRxEventForgotten ==
  /\ rxTask' = IF rxTask = "waiting" THEN "input" ELSE rxTask
  /\ UNCHANGED NetIfEvent

\* OS_EventSetFromInt: a task that waits for the event gets it.
SetRxEvent ==
  \/ rxTask = "waiting" /\ rxTask' = "input" /\ UNCHANGED NetIfEvent
  \/ rxTask # "waiting" /\ NetIfEvent' = TRUE /\ UNCHANGED rxTask

\* A descriptor goes back to the DMA as soon as its mail is posted; behind the
\* last one the DMA is started again at the first.
cpsw_rx_inthandler ==
  /\ Completed # {}
  /\ MboxPostFromInt(Cardinality(Completed))
  /\ rxOwner' = [d \in RxDesc |-> rxOwner[d] \/ d \in Completed]
  /\ LET last == NUM_BUFF_RXDESCS - 1 \in Completed
     IN  /\ next_rx_index' = IF last THEN 0 ELSE next_rx_index + Cardinality(Completed)
         /\ rxDMA' = IF last THEN 0 ELSE rxDMA
  /\ SetRxEvent
  /\ UNCHANGED <<RxBuf, bd, rxFrame, rxTaken, lapped, starved, txVars>>

-----------------------------------------------------------------------------
\* The receive task, ethernetif_input.
RxStep(from, to) ==
  /\ rxTask = from /\ rxTask' = to
  /\ UNCHANGED <<descVars, wInIndex, pBuffer, rxFrame, txVars>>

\* OS_EventWait: an event that is set already ends the wait at once.
EventWait ==
  /\ \/ NetIfEvent /\ RxStep("wait", "input")
     \/ ~NetIfEvent /\ RxStep("wait", "waiting")
  /\ NetIfEvent' = FALSE
  /\ UNCHANGED <<wCount, wOutIndex, UsedCntSema, FreeCntSema, bd, rxTaken, lapped, starved>>

\* After 500 ms the task looks at the link and waits again.
EventTimeout ==
  /\ RxStep("waiting", "wait")
  /\ UNCHANGED <<mboxVars, NetIfEvent, bd, rxTaken, lapped, starved>>

\* OS_MboxWait with no timeout, three steps: is there a mail, ...
MboxLook ==
  /\ \/ wCount # 0 /\ RxStep("input", "claim") /\ UNCHANGED <<rxTaken, lapped, starved>>
     \/ /\ wCount = 0 /\ RxStep("input", "wait")
        /\ starved' = FALSE
        /\ \/ Unread = {} /\ lapped' = FALSE /\ rxTaken' = RxBefore(rxFrame)
           \/ Unread # {} /\ UNCHANGED <<rxTaken, lapped>>
  /\ UNCHANGED <<mboxVars, NetIfEvent, bd>>

\* ... take its count, ...
MboxClaim ==
  /\ RxStep("claim", IF UsedCntSema # 0 THEN "take" ELSE "wait")
  /\ UsedCntSema' = IF UsedCntSema # 0 THEN UsedCntSema - 1 ELSE 0
  /\ UNCHANGED <<wCount, wOutIndex, FreeCntSema, NetIfEvent, bd, rxTaken, lapped, starved>>

\* ... and take it.
MboxTake ==
  /\ RxStep("take", "copy")
  /\ wCount' = wCount - 1
  /\ bd' = pBuffer[wOutIndex]
  /\ wOutIndex' = (wOutIndex + 1) % NUM_BUFF_RXDESCS
  /\ FreeCntSema' = FreeCntSema + 1
  /\ UNCHANGED <<UsedCntSema, NetIfEvent, rxTaken, lapped, starved>>

\* The frame is copied and goes to netif->input, or it is lost for want of a pbuf:
\* then the task reads no further.
CopyFrame ==
  /\ \/ RxStep("copy", "input") /\ UNCHANGED starved
     \/ RxStep("copy", "wait") /\ starved' = TRUE
  /\ rxTaken' = RxBuf[bd]
  /\ bd' = NULL
  /\ UNCHANGED <<mboxVars, NetIfEvent, lapped>>

ethernetif_input == EventWait \/ EventTimeout \/ MboxLook \/ MboxClaim \/ MboxTake \/ CopyFrame

-----------------------------------------------------------------------------
\* Transmission.  A descriptor is free (flags 0), filled (a length only), owned by
\* the DMA, or sent.
TxNext(d) == (d + 1) % NUM_BUFF_TXDESCS

\* Mutation of FillTx: the descriptor is taken although it is in use.
FillTxAlways ==
  /\ txTask = "idle" /\ txTask' = "start"
  /\ txFlags' = [txFlags EXCEPT ![tx_write_index] = "filled"]
  /\ TxBuf' = [TxBuf EXCEPT ![tx_write_index] = txFrame]
  /\ txFrame' = TxAfter(txFrame)
  /\ UNCHANGED <<txDMA, txDone, tx_running, tx_read_index, tx_write_index, txLine, rxVars>>

\* low_level_output copies the frame; if the descriptor is in use it returns
\* ERR_MEM and nothing changes.
FillTx ==
  /\ txTask = "idle" /\ txTask' = "start"
  /\ txFlags[tx_write_index] = "free"
  /\ txFlags' = [txFlags EXCEPT ![tx_write_index] = "filled"]
  /\ TxBuf' = [TxBuf EXCEPT ![tx_write_index] = txFrame]
  /\ txFrame' = TxAfter(txFrame)
  /\ UNCHANGED <<txDMA, txDone, tx_running, tx_read_index, tx_write_index, txLine, rxVars>>

\* Then it gives it to the DMA, with the transmit interrupt disabled.
StartTx ==
  /\ txTask = "start" /\ txTask' = "idle"
  /\ txFlags' = [txFlags EXCEPT ![tx_write_index] = "owned"]
  /\ txDMA' = IF tx_running THEN txDMA ELSE tx_write_index
  /\ tx_running' = TRUE
  /\ tx_write_index' = TxNext(tx_write_index)
  /\ UNCHANGED <<TxBuf, txDone, tx_read_index, txFrame, txLine, rxVars>>

\* The DMA sends one descriptor, the end of its queue, and interrupts.
FrameSent ==
  /\ txDMA # NULL
  /\ txFlags' = [txFlags EXCEPT ![txDMA] = "sent"]
  /\ txLine' = TxBuf[txDMA]
  /\ txDMA' = NULL /\ txDone' = TRUE
  /\ UNCHANGED <<TxBuf, tx_running, tx_read_index, tx_write_index, txTask, txFrame, rxVars>>

\* The handler halts on a descriptor that was not sent; else it frees it and
\* starts the next one that is ready.
cpsw_tx_inthandler ==
  /\ txDone /\ txFlags[tx_read_index] = "sent"
  /\ txDone' = FALSE
  /\ txFlags' = [txFlags EXCEPT ![tx_read_index] = "free"]
  /\ tx_read_index' = TxNext(tx_read_index)
  /\ \/ txFlags'[tx_read_index'] = "owned" /\ txDMA' = tx_read_index' /\ UNCHANGED tx_running
     \/ txFlags'[tx_read_index'] # "owned" /\ tx_running' = FALSE /\ UNCHANGED txDMA
  /\ UNCHANGED <<TxBuf, tx_write_index, txTask, txFrame, txLine, rxVars>>

-----------------------------------------------------------------------------
\* cpsw_cpdma_init and low_level_init.
NicInit ==
  /\ rxOwner = [d \in RxDesc |-> TRUE] /\ RxBuf = [d \in RxDesc |-> 0]
  /\ rxDMA = 0 /\ next_rx_index = 0
  /\ wCount = 0 /\ wInIndex = 0 /\ wOutIndex = 0
  /\ pBuffer = [s \in RxDesc |-> NULL]
  /\ UsedCntSema = 0 /\ FreeCntSema = NUM_BUFF_RXDESCS
  /\ NetIfEvent = FALSE /\ rxTask = "wait" /\ bd = NULL
  /\ txFlags = [d \in TxDesc |-> "free"] /\ TxBuf = [d \in TxDesc |-> 0]
  /\ txDMA = NULL /\ txDone = FALSE
  /\ tx_running = FALSE /\ tx_read_index = 0 /\ tx_write_index = 0
  /\ txTask = "idle"
  /\ rxFrame = 1 /\ rxTaken = 0 /\ lapped = FALSE /\ starved = FALSE
  /\ txFrame = 1 /\ txLine = 0

NicNext ==
  \/ FrameArrives \/ cpsw_rx_inthandler \/ ethernetif_input
  \/ FillTx \/ StartTx \/ FrameSent \/ cpsw_tx_inthandler

NicSpec == NicInit /\ [][NicNext]_nicVars

-----------------------------------------------------------------------------
NicTypeOK ==
  /\ rxOwner \in [RxDesc -> BOOLEAN] /\ RxBuf \in [RxDesc -> RxNumber]
  /\ rxDMA \in RxDesc \cup {NULL} /\ next_rx_index \in RxDesc
  /\ wCount \in 0..NUM_BUFF_RXDESCS /\ wInIndex \in RxDesc /\ wOutIndex \in RxDesc
  /\ pBuffer \in [RxDesc -> RxDesc \cup {NULL}]
  /\ UsedCntSema \in 0..NUM_BUFF_RXDESCS /\ FreeCntSema \in 0..NUM_BUFF_RXDESCS
  /\ NetIfEvent \in BOOLEAN
  /\ rxTask \in {"wait", "waiting", "input", "claim", "take", "copy"}
  /\ bd \in RxDesc \cup {NULL}
  /\ txFlags \in [TxDesc -> {"free", "filled", "owned", "sent"}]
  /\ TxBuf \in [TxDesc -> TxNumber]
  /\ txDMA \in TxDesc \cup {NULL} /\ txDone \in BOOLEAN /\ tx_running \in BOOLEAN
  /\ tx_read_index \in TxDesc /\ tx_write_index \in TxDesc /\ txTask \in {"idle", "start"}
  /\ rxFrame \in RxNumber /\ rxTaken \in RxNumber /\ lapped \in BOOLEAN /\ starved \in BOOLEAN
  /\ txFrame \in TxNumber /\ txLine \in TxNumber

\* Frames reach the stack in the order in which they arrived, each once and none
\* left out, through the interrupts, the wrap of the descriptors and the mailbox,
\* until one arrives where an older one still waits to be read: the handler gives
\* a descriptor back before its frame was read, and nothing stops the DMA.
RxFramesInOrder ==
  LET waits  == (IF bd = NULL THEN <<>> ELSE <<bd>>) \o Mails
                  \o [i \in 1..Cardinality(Completed) |-> next_rx_index + i - 1]
      frames == <<rxTaken>> \o [i \in 1..Len(waits) |-> RxBuf[waits[i]]] \o <<rxFrame>>
  IN  ~lapped => \A i \in 1..Len(frames) - 1 : frames[i + 1] = RxAfter(frames[i])

\* Frames go out in the order in which the stack sent them, each once: the last one
\* on the line is followed by those that wait, from tx_read_index on.
TxFramesInOrder ==
  LET first  == IF txDone THEN TxNext(tx_read_index) ELSE tx_read_index
      ready  == Cardinality({d \in TxDesc : txFlags[d] \in {"filled", "owned"}})
      frames == <<txLine>> \o [i \in 1..ready |-> TxBuf[(first + i - 1) % NUM_BUFF_TXDESCS]]
                  \o <<txFrame>>
  IN  \A i \in 1..Len(frames) - 1 : frames[i + 1] = TxAfter(frames[i])

FramesInOrder == RxFramesInOrder /\ TxFramesInOrder

\* No frame is left lying about.  The receive task never sleeps on a mail unless it
\* stopped for want of a pbuf, the two semaphores of the mailbox agree with its
\* count, a frame that is ready to go out is being sent or the interrupt that
\* starts it is pending, and that interrupt never halts the system.
NothingStranded ==
  /\ rxTask = "waiting" => wCount = 0 \/ starved
  /\ FreeCntSema = NUM_BUFF_RXDESCS - wCount
  /\ UsedCntSema = IF rxTask = "take" THEN wCount - 1 ELSE wCount
  /\ (\E d \in TxDesc : txFlags[d] = "owned") => txDMA # NULL \/ txDone
  /\ txDone => txFlags[tx_read_index] = "sent"
=============================================================================
