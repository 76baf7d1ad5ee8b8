------------------------------ MODULE MCTalCom -------------------------------
(* An instance of TalCom for TLC.                                            *)
EXTENDS TalCom
=============================================================================
