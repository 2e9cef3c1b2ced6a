----------------------------- MODULE MCPeerForm -----------------------------
(* Two nodes: one that takes everything, one behind NAT without IPv6 that  *)
(* takes no peers from China.                                              *)
EXTENDS PeerForm, TLC

CONSTANTS n1, n2, own, custom

MCNetSupport ==
  (n1 :> [ipv4 |-> TRUE, nat |-> FALSE, ipv6 |-> TRUE, cn |-> TRUE]) @@
  (n2 :> [ipv4 |-> TRUE, nat |-> TRUE, ipv6 |-> FALSE, cn |-> FALSE])

MCLla == [n \in Nodes |-> own]

(* A host with IPv4 only, one with both families inside China.             *)
MCHosts == {[v4 |-> TRUE, v6 |-> FALSE, cn |-> FALSE], [v4 |-> TRUE, v6 |-> TRUE, cn |-> TRUE]}

(* A peer over link-local addresses with extended next hop.                *)
MCEarlier ==
  {[Region |-> n1, Channel |-> "IPv6 & IPv4", MPBGP |-> "IPv6", ENH |-> TRUE, IPv6 |-> "lla",
    IPv4 |-> NotEnabled, RequestLL |-> own, Clearnet |-> [v4 |-> TRUE, v6 |-> FALSE, cn |-> FALSE],
    ClearnetPort |-> TRUE, PublicKey |-> CHOOSE k \in Keys : TRUE, PresharedKey |-> None,
    Port |-> DefaultPort, MTU |-> DefaultMTU]}

NoneEarlier == {}

=============================================================================
