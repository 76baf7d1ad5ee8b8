---------------------------- MODULE MCDhcpServer -----------------------------
(* Instances of DhcpServer for TLC: pools at the end of the subnet, of none, *)
(* one and two addresses.                                                    *)
EXTENDS DhcpServer, TLC

Symmetry == Permutations(Client)

UpToTwoAddresses ==
  {[dPoolStart |-> start, dPoolSize |-> 2] : start \in {253, 254, 255}}
EndOfSubnet == [dPoolStart : {252, 253}, dPoolSize : {1, 2}]
=============================================================================
