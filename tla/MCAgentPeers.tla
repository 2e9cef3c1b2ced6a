---------------------------- MODULE MCAgentPeers ----------------------------
(* Small instances of AgentPeers for TLC. *)
EXTENDS AgentPeers, TLC

CONSTANTS a1, a2, a3, r1, r2

HostPeer == [endpoint |-> "host", channel |-> "v6 & v4", mpbgp |-> "none"]
AddrPeer == [endpoint |-> "addr", channel |-> "v6 only", mpbgp |-> "v6"]

OneInfo  == {AddrPeer}
TwoInfos == {HostPeer, AddrPeer}

AllOps     == Ops
AddRemove  == {"peer", "remove"}
PeerOnly   == {"peer"}
NoOps      == {}

NoFaults      == {}
HandlerFaults == {"write", "remove", "wg", "bird", "crash"}
BootFaults    == {"write", "wg", "dns", "post", "crash", "reboot"}
WGFault       == {"wg"}
DNSFault      == {"dns"}

ASNSymmetry == Permutations(ASN \ Initial) \union Permutations(Req)
=============================================================================
