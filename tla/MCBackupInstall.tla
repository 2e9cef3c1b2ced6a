--------------------------- MODULE MCBackupInstall ---------------------------
(* Constants for the runs of BackupInstall. *)
EXTENDS BackupInstall

EveryNode    == {"fresh", "legacy", "installed", "moved", "preset"}
MovedNode    == {"moved"}
PresetNode   == {"preset"}
FreshNode    == {"fresh"}
InstalledNode == {"installed"}
SettledNodes == {"installed", "moved", "legacy"}

EveryAction == {"none", "restore", "overwrite"}
NoAction    == {}
PlainInstall == {"none"}

EveryFault  == {"write", "remove", "api", "push", "restart"}
NoFault     == {}
RestartOnly == {"restart"}
WriteOnly   == {"write"}
PushOnly    == {"push"}
NetworkAndRestart == {"remove", "api", "push", "restart"}
=============================================================================
