----------------------------- MODULE MCTctsMutex -----------------------------
(* Instance of TctsMutex for TLC.                                            *)
EXTENDS TctsMutex

Symmetry == Permutations(Task)
=============================================================================
