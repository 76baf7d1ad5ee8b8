----------------------------- MODULE MCEthernetIf ----------------------------
(***************************************************************************)
(* An instance of EthernetIf for TLC.  Reception and transmission share no *)
(* variable, and every property is about one of them, so that it suffices  *)
(* to check each while the other has not begun.                            *)
(***************************************************************************)
EXTENDS EthernetIf

RxNotBegun ==
  /\ wCount = 0 /\ bd = NULL /\ rxFrame = 1 /\ rxTaken = 0 /\ rxDMA = 0
  /\ RxBuf = [d \in RxDesc |-> 0] /\ rxTask = "wait" /\ ~NetIfEvent
TxNotBegun == tx_read_index = 0 /\ txFlags[0] = "free" /\ TxBuf = [d \in TxDesc |-> 0]

OneDirection == RxNotBegun \/ TxNotBegun
=============================================================================
