---------------------------- MODULE BackupInstall ----------------------------
(***************************************************************************)
(* How a node obtains, keeps and uses its backup credentials: the boot     *)
(* sequence of cmd/agent (config load, NewBackupManager, MigrateLegacy,    *)
(* SyncStateIntoConfig, Run), the install request of the bot and the       *)
(* unattended bootstrap, against a file system and a Git server that fail. *)
(* BackupSync models what a sync does once the node is installed.          *)
(***************************************************************************)
EXTENDS Naturals

CONSTANTS
    Nodes,      \* the kinds of node the agent is started on
    Enabled,    \* backup.enabled in config.yaml
    Actions,    \* existing_repo_action of the install requests that arrive
    Faults,     \* faults that may happen
    MaxFaults   \* bound on faults

ASSUME NodeAssumption   ==
    Nodes \subseteq {"fresh", "legacy", "installed", "moved", "preset"}
ASSUME ActionAssumption == Actions \subseteq {"none", "restore", "overwrite"}
ASSUME FlagAssumption   ==
    /\ Enabled \in BOOLEAN /\ MaxFaults \in Nat
    /\ Faults \subseteq {"write", "remove", "api", "push", "restart"}

VARIABLES
    stateFile,   \* backup.yaml
    configFile,  \* the backup block of config.yaml
    legacy,      \* what is left of the old shell installation
    repo,        \* the repository on the Git server
    unpushed,    \* /etc holds changes the repository lacks
    pc,          \* where the agent is
    request,     \* existing_repo_action of the install that runs
    cfg,         \* m.cfg has all four bootstrap fields
    state,       \* m.state # nil
    enabled,     \* m.enabled
    loop,        \* the goroutine of Run has not returned
    (***********************************************************************)
    (* Observation and bounds.                                             *)
    (***********************************************************************)
    known,       \* the credentials once were safely on disk
    unserved,    \* Run found no state, no bootstrap block and no enabled backup
    discarded,   \* a bootstrap overwrote unpushed changes of an installed node
    faults       \* faults so far

disk   == <<stateFile, configFile, legacy>>
server == <<repo, unpushed>>
memory == <<cfg, state, enabled, loop>>
ghosts == <<known, unserved, discarded>>
vars == <<stateFile, configFile, legacy, repo, unpushed, pc, request, cfg, state, enabled,
          loop, known, unserved, discarded, faults>>

LegacyFiles == {"conf", "units"}

TypeOK ==
    /\ stateFile \in {"absent", "broken", "ok"}
    /\ configFile \in {"none", "broken", "complete"}
    /\ legacy \subseteq LegacyFiles
    /\ repo \in {"missing", "empty", "full"} /\ unpushed \in BOOLEAN
    /\ pc \in {"down", "migrate", "migrate_write", "uninstall", "save", "save_write",
               "fold", "fold_write", "retire", "run", "running", "install", "create",
               "push", "restore", "overwrite", "keep", "keep_write"}
    /\ request \in {"none", "restore", "overwrite"}
    /\ cfg \in BOOLEAN /\ state \in BOOLEAN /\ enabled \in BOOLEAN /\ loop \in BOOLEAN
    /\ known \in BOOLEAN /\ unserved \in BOOLEAN /\ discarded \in BOOLEAN
    /\ faults \in 0 .. MaxFaults

(* The operator filled in config.yaml on a moved node, whose repository a
   predecessor left, and on a preset one, which has none. *)
Init ==
    /\ \E node \in Nodes :
        /\ stateFile = IF node = "installed" THEN "ok" ELSE "absent"
        /\ configFile = IF node \in {"moved", "preset"} THEN "complete" ELSE "none"
        /\ legacy = IF node = "legacy" THEN LegacyFiles ELSE {}
        /\ repo = IF node \in {"fresh", "preset"} THEN "missing" ELSE "full"
        /\ known = (node # "fresh")
    /\ unpushed = FALSE
    /\ pc = "down" /\ request = "none"
    /\ cfg = FALSE /\ state = FALSE /\ enabled = FALSE /\ loop = FALSE
    /\ unserved = FALSE /\ discarded = FALSE /\ faults = 0

-----------------------------------------------------------------------------
Fault(kind) == kind \in Faults /\ faults < MaxFaults /\ faults' = faults + 1

Goto(from, to) == pc = from /\ pc' = to

(* A config.yaml that was cut short does not load: the agent exits, and
   exits again each time systemd restarts it. *)
Boot ==
    /\ configFile # "broken"
    /\ Goto("down", "migrate")
    /\ cfg' = (configFile = "complete")
    /\ state' = (stateFile = "ok")
    /\ enabled' = (Enabled \/ state')
    /\ UNCHANGED <<disk, server, request, loop, ghosts, faults>>

(* MigrateLegacy.  The old configuration is read only while there is no
   state; os.WriteFile truncates backup.yaml before it writes. *)
MigrateLegacy ==
    /\ \/ /\ legacy = {} \/ (~state /\ "conf" \notin legacy)
          /\ Goto("migrate", "fold")
          /\ UNCHANGED stateFile
       \/ /\ legacy # {} /\ state
          /\ Goto("migrate", "uninstall")
          /\ UNCHANGED stateFile
       \/ /\ ~state /\ "conf" \in legacy
          /\ Goto("migrate", "migrate_write")
          /\ stateFile' = "broken"
    /\ UNCHANGED <<configFile, legacy, server, request, memory, ghosts, faults>>

MigrateWrite ==
    /\ \/ /\ Goto("migrate_write", "uninstall")
          /\ stateFile' = "ok" /\ state' = TRUE /\ enabled' = TRUE
          /\ UNCHANGED faults
       \/ /\ Goto("migrate_write", "fold") /\ Fault("write")
          /\ UNCHANGED <<stateFile, state, enabled>>
    /\ UNCHANGED <<configFile, legacy, server, request, cfg, loop, ghosts>>

UninstallFirst ==  \* mutation: removed before the state is written
    /\ legacy # {} /\ pc = "migrate"
    /\ legacy' = {}
    /\ pc' = IF state THEN "save" ELSE "fold"
    /\ UNCHANGED <<stateFile, configFile, server, request, memory, ghosts, faults>>

(* uninstallLegacy removes the old configuration first, then the units. *)
UninstallLegacy ==
    /\ \/ /\ "conf" \in legacy
          /\ pc = "uninstall" /\ legacy' = legacy \ {"conf"}
          /\ UNCHANGED <<pc, faults>>
       \/ /\ "conf" \notin legacy
          /\ Goto("uninstall", "save") /\ legacy' = {}
          /\ UNCHANGED faults
       \/ /\ Goto("uninstall", "fold") /\ Fault("remove")
          /\ UNCHANGED legacy
    /\ UNCHANGED <<stateFile, configFile, server, request, memory, ghosts>>

(* SaveBackupBootstrapToConfig: nothing to do when the fields are there,
   an error when config.yaml is empty; else the file is truncated ... *)
SaveConfig(from, writing, skipped) ==
    /\ \/ /\ configFile # "none"
          /\ Goto(from, skipped)
          /\ UNCHANGED configFile
       \/ /\ configFile = "none"
          /\ Goto(from, writing)
          /\ configFile' = "broken"
    /\ UNCHANGED <<stateFile, legacy, server, request, memory, ghosts, faults>>

(* ... and written.  A write that fails is only logged. *)
WriteConfig(writing, written, failed) ==
    /\ \/ /\ Goto(writing, written)
          /\ configFile' = "complete"
          /\ UNCHANGED faults
       \/ /\ Goto(writing, failed) /\ Fault("write")
          /\ UNCHANGED configFile
    /\ UNCHANGED <<stateFile, legacy, server, request, memory, ghosts>>

SaveMigrated  == SaveConfig("save", "save_write", "fold")
WriteMigrated == WriteConfig("save_write", "fold", "fold")

(* SyncStateIntoConfig compares with the configuration as it was loaded. *)
SkipFold ==
    /\ ~state \/ cfg
    /\ Goto("fold", "run")
    /\ UNCHANGED <<disk, server, request, memory, ghosts, faults>>

RetireFirst ==  \* mutation: backup.yaml is moved away before config.yaml is written
    /\ state /\ ~cfg /\ configFile = "none"
    /\ Goto("fold", "fold_write")
    /\ configFile' = "broken" /\ stateFile' = "absent"
    /\ UNCHANGED <<legacy, server, request, memory, ghosts, faults>>

Fold      == state /\ ~cfg /\ SaveConfig("fold", "fold_write", "run")
WriteFold == WriteConfig("fold_write", "retire", "run")

(* backup.yaml becomes backup.yaml.old, which nothing reads. *)
RetireState ==
    /\ \/ /\ Goto("retire", "run")
          /\ stateFile' = "absent"
          /\ UNCHANGED faults
       \/ /\ Goto("retire", "run") /\ Fault("remove")
          /\ UNCHANGED stateFile
    /\ UNCHANGED <<configFile, legacy, server, request, memory, ghosts>>

(* What Run does not serve, whatever comes later (observation). *)
Unserved == ~enabled /\ ~state /\ ~cfg

RunIfInstalled ==  \* mutation: Run returns when there is no state yet
    /\ Goto("run", "running")
    /\ loop' = (enabled /\ state) /\ unserved' = Unserved
    /\ UNCHANGED <<disk, server, request, cfg, state, enabled, known, discarded, faults>>

RunIfEnabled ==  \* mutation: Run does not look at the bootstrap block
    /\ Goto("run", "running")
    /\ loop' = enabled /\ unserved' = Unserved
    /\ UNCHANGED <<disk, server, request, cfg, state, enabled, known, discarded, faults>>

(* Run returns at once on a node that is neither enabled nor configured. *)
Run ==
    /\ Goto("run", "running")
    /\ loop' = (enabled \/ (~state /\ cfg)) /\ unserved' = Unserved
    /\ UNCHANGED <<disk, server, request, cfg, state, enabled, known, discarded, faults>>

-----------------------------------------------------------------------------
(* Run, on start and on every tick while there is no state. *)
Bootstrap ==
    /\ loop /\ ~state /\ cfg
    /\ Goto("running", "install")
    /\ request' = "restore"
    /\ UNCHANGED <<disk, server, memory, ghosts, faults>>

InstallRequest(action) ==
    /\ Goto("running", "install")
    /\ request' = action
    /\ UNCHANGED <<disk, server, memory, ghosts, faults>>

InstallNoDefault ==  \* mutation: no default branch for an action that is missing
    /\ Goto("install", IF repo = "missing" THEN "create" ELSE request)
    /\ UNCHANGED <<disk, server, request, memory, ghosts, faults>>

(* Install: an existing repository is restored or overwritten as asked; the
   API may refuse the credentials or not answer. *)
Install ==
    /\ \/ /\ repo = "missing"
          /\ Goto("install", "create")
          /\ UNCHANGED faults
       \/ /\ repo # "missing"
          /\ Goto("install", IF request = "none" THEN "running" ELSE request)
          /\ UNCHANGED faults
       \/ /\ Goto("install", "running") /\ Fault("api")
    /\ UNCHANGED <<disk, server, request, memory, ghosts>>

CreateRepo ==
    /\ \/ /\ Goto("create", "push")
          /\ repo' = "empty"
          /\ UNCHANGED faults
       \/ /\ Goto("create", "running") /\ Fault("api")
          /\ UNCHANGED repo
    /\ UNCHANGED <<disk, unpushed, request, memory, ghosts>>

InitialPush ==
    /\ \/ /\ Goto("push", "keep")
          /\ repo' = "full" /\ unpushed' = FALSE
          /\ UNCHANGED faults
       \/ /\ Goto("push", "running") /\ Fault("push")
          /\ UNCHANGED server
    /\ UNCHANGED <<disk, request, memory, ghosts>>

(* cloneRepo and restoreDirsFromRepo; an empty clone restores nothing. *)
RestoreExisting ==
    /\ \/ /\ Goto("restore", "keep")
          /\ unpushed' = (unpushed /\ repo = "empty")
          /\ discarded' = (discarded \/ (unpushed /\ repo = "full" /\ known))
          /\ UNCHANGED faults
       \/ /\ Goto("restore", "running") /\ Fault("api")
          /\ UNCHANGED <<unpushed, discarded>>
    /\ UNCHANGED <<disk, repo, request, memory, known, unserved>>

OverwriteExisting ==
    /\ \/ /\ Goto("overwrite", "keep")
          /\ repo' = "full" /\ unpushed' = FALSE
          /\ UNCHANGED faults
       \/ /\ Goto("overwrite", "running") /\ Fault("push")
          /\ UNCHANGED server
    /\ UNCHANGED <<disk, request, memory, ghosts>>

(* The state is in use before writeState has put it on disk; until then the
   credentials of an earlier install are gone from backup.yaml. *)
KeepState ==
    /\ Goto("keep", "keep_write")
    /\ state' = TRUE /\ enabled' = TRUE
    /\ stateFile' = "broken"
    /\ known' = (known /\ configFile = "complete")
    /\ UNCHANGED <<configFile, legacy, server, request, cfg, loop, unserved, discarded, faults>>

WriteState ==
    /\ \/ /\ Goto("keep_write", "running")
          /\ stateFile' = "ok" /\ known' = TRUE
          /\ UNCHANGED faults
       \/ /\ Goto("keep_write", "running") /\ Fault("write")
          /\ UNCHANGED <<stateFile, known>>
    /\ UNCHANGED <<configFile, legacy, server, request, memory, unserved, discarded>>

(* A sync that works.  git rev-parse prints its complaint, so the test for
   an empty repository never succeeds: the sync of an empty repository goes
   on to merge and reset, and fails on both. *)
Sync ==
    /\ pc = "running" /\ (state \/ stateFile = "ok") /\ repo = "full" /\ unpushed
    /\ state' = TRUE /\ unpushed' = FALSE
    /\ UNCHANGED <<disk, repo, pc, request, cfg, enabled, loop, ghosts, faults>>

(* The timer of Run, and POST /backup/sync. *)
SyncTick    == loop /\ Sync
SyncRequest == Sync

(* A /peer or /remove changes /etc. *)
LocalEdit ==
    /\ pc = "running"
    /\ unpushed' = TRUE
    /\ UNCHANGED <<disk, repo, pc, request, memory, ghosts, faults>>

(* A crash, an update or a reboot, at any point. *)
AgentRestart ==
    /\ pc # "down" /\ Fault("restart")
    /\ pc' = "down" /\ request' = "none"
    /\ cfg' = FALSE /\ state' = FALSE /\ enabled' = FALSE /\ loop' = FALSE
    /\ unserved' = FALSE
    /\ UNCHANGED <<disk, server, known, discarded>>

-----------------------------------------------------------------------------
BootStep ==
    \/ Boot \/ MigrateLegacy \/ MigrateWrite \/ UninstallLegacy
    \/ SaveMigrated \/ WriteMigrated \/ SkipFold \/ Fold \/ WriteFold
    \/ RetireState \/ Run

InstallStep ==
    \/ Install \/ CreateRepo \/ InitialPush \/ RestoreExisting
    \/ OverwriteExisting \/ KeepState \/ WriteState

Next ==
    \/ BootStep \/ InstallStep \/ Bootstrap \/ SyncTick \/ SyncRequest \/ LocalEdit \/ AgentRestart
    \/ \E action \in Actions : InstallRequest(action)

Spec == Init /\ [][Next]_vars

(* The boot sequence and an install run to their end.  The timer ticks again
   and again, and a Go mutex does not starve the goroutine that waits for it
   while requests and installs take their turn. *)
FairSpec ==
    /\ Spec
    /\ WF_vars(BootStep) /\ WF_vars(InstallStep)
    /\ SF_vars(Bootstrap) /\ SF_vars(SyncTick)

-----------------------------------------------------------------------------
(* Credentials that were once safely on disk can be read back at the next
   boot, whatever write, removal or crash interrupts the migration from the
   shell installation (MigrateLegacy) or the move of backup.yaml into
   config.yaml (SyncStateIntoConfig). *)
CredentialsKept ==
    known => stateFile = "ok" \/ configFile = "complete" \/ "conf" \in legacy

(* What CredentialsKept rests on: the state the boot sequence works with is
   the one on disk, and backup.yaml is retired after config.yaml is written. *)
StateIsOnDisk ==
    /\ pc = "migrate" /\ state => stateFile = "ok"
    /\ pc = "uninstall" => stateFile = "ok"
    /\ pc = "retire" => configFile = "complete"

CredentialsInv == CredentialsKept /\ StateIsOnDisk

(* backup.go:172 says of SyncStateIntoConfig that a failure only means that
   the operator adds the fields by hand: the agent can start again. *)
ConfigLoads == pc = "running" => configFile # "broken"

(* The bootstrap is for a node without backup state (config.md:176); it never
   discards what an installed node has not pushed yet. *)
BootstrapKeepsEdits == ~discarded

(* A node with its credentials in config.yaml and no state ends up with a
   repository that holds its configuration (config.md:176). *)
BootstrapCompletes == pc = "running" /\ cfg /\ ~state ~> state /\ repo = "full"

(* config.md:153, "when enabled, agent-v2 periodically snapshots": what an
   enabled and installed agent has not pushed does not stay unpushed.  The
   code does not keep it: Install enables the backup of an agent whose Run
   has returned for good (backup.go:243). *)
EditsReachRepo == enabled /\ state /\ unpushed ~> ~unpushed

(* The same of a node whose first push may be lost.  A push that fails or a
   restart before it leaves an empty repository, and an empty repository stays
   empty: the bootstrap restores it, and its sync fails on the merge. *)
BootstrapCompletesUnlessEmpty ==
    pc = "running" /\ cfg /\ ~state ~> (state /\ repo = "full") \/ repo = "empty"

(* EditsReachRepo with its exceptions named: an empty repository, an agent
   that was installed by a request after its Run had found nothing to do,
   until it starts again, and one that cannot start because the crash of an
   earlier fold cut config.yaml short.  Everywhere else, on nodes of every
   kind, the loop of Run is there when there are changes to push. *)
EditsReachRepoUnlessUnserved ==
    enabled /\ state /\ unpushed /\ ~unserved
        ~> \/ ~unpushed
           \/ repo = "empty"
           \/ pc = "down" /\ configFile = "broken"
=============================================================================
