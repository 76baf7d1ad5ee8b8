----------------------------- MODULE MCTctsKernel ----------------------------
(* Instances of TctsKernel for TLC: one object of each kind.                 *)
EXTENDS TctsKernel

Symmetry == Permutations(Task)
=============================================================================
