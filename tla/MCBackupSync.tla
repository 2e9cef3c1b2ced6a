---------------------------- MODULE MCBackupSync ----------------------------
(* Small instances of BackupSync for TLC. *)
EXTENDS BackupSync, TLC

CONSTANTS p1, p2

BothOps    == {"peer", "remove"}
PeerOp     == {"peer"}
NoOps      == {}
NoEdits    == {}
Modify     == {"modify"}
Remove     == {"remove"}
BothEdits  == {"modify", "remove"}

NoFaults   == {}
Offline    == {"offline"}
Crashes    == {"crash"}
Flaky      == {"flaky"}
Deadly     == {"offline", "flaky", "disk", "crash", "kill"}
Kills      == {"crash", "kill"}

PeerSymmetry == Permutations(Peer)
=============================================================================
