----------------------------- MODULE MCTctsEvent -----------------------------
(* Instance of TctsEvent for TLC.                                            *)
EXTENDS TctsEvent

Symmetry == Permutations(Task) \cup Permutations(Bit)
=============================================================================
