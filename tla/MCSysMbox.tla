------------------------------ MODULE MCSysMbox ------------------------------
(* Instances of SysMbox for TLC.                                             *)
EXTENDS SysMbox

Symmetry == Permutations(Task) \cup Permutations(Message)
=============================================================================
