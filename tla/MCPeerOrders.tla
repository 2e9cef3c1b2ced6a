---------------------------- MODULE MCPeerOrders ----------------------------
(* Constants of PeerOrders for TLC.                                        *)
EXTENDS PeerOrders, TLC

CONSTANTS a1, a2, n1, n2, o1, o2

Symmetry == Permutations(Orders) \cup Permutations(ASNs) \cup Permutations(Nodes)

=============================================================================
