---------------------------- MODULE PeerRegistry ----------------------------
(***************************************************************************)
(* What the bot promises about peers as a whole, without dialogues,        *)
(* requests and answers.  An ASN gets to a node when its user orders so.   *)
(* It leaves a node because its user ordered the removal there, or because *)
(* the node was released: by the very step in which a moving peer entered  *)
(* another node.  PeerOrders implements this.                              *)
(***************************************************************************)
CONSTANTS Nodes, ASNs

VARIABLES
  where,     \* [ASNs -> SUBSET Nodes], the nodes an ASN is peered with
  ordered,   \* pairs <<asn, node>> whose removal is ordered and not yet carried out
  released   \* pairs <<asn, node>> a move may take away

vars == <<where, ordered, released>>

Pairs == ASNs \X Nodes

Init ==
  /\ where \in [ASNs -> SUBSET Nodes]
  /\ ordered = {}
  /\ released = {}

(* Removals are ordered or lost, releases forgotten; no peer changes.      *)
Reorder ==
  /\ ordered' \subseteq Pairs
  /\ released' \subseteq released
  /\ UNCHANGED where

(* A peer enters n; when it moves, node m is released.                     *)
Enter(a, n) ==
  /\ where' = [where EXCEPT ![a] = @ \cup {n}]
  /\ ordered' \subseteq ordered
  /\ \/ released' \subseteq released
     \/ \E m \in Nodes \ {n} : released' \subseteq released \cup {<<a, m>>}

Leave(a, n) ==
  /\ <<a, n>> \in ordered \cup released
  /\ where' = [where EXCEPT ![a] = @ \ {n}]
  /\ ordered' \subseteq ordered
  /\ released' \subseteq released

Next ==
  \/ Reorder
  \/ \E a \in ASNs, n \in Nodes : Enter(a, n) \/ Leave(a, n)

Spec == Init /\ [][Next]_vars

=============================================================================
