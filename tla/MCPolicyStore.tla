--------------------------- MODULE MCPolicyStore ---------------------------
(* An instance of PolicyStore for TLC: one seeded rule, network and exception. *)
EXTENDS PolicyStore

MCSeedIps == <<[cidr |-> "net1", list |-> "block"]>>
MCSeedPaths == <<"p1">>
=============================================================================
