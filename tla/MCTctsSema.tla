----------------------------- MODULE MCTctsSema ------------------------------
(* Instances of TctsSema for TLC.                                            *)
EXTENDS TctsSema

Symmetry == Permutations(Task)
=============================================================================
