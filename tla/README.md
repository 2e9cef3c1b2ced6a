# dn42-bot in TLA+

This directory is a TLA+ model of dn42-bot: a Telegram bot (`src/server`, Python) through which
users of the DN42 network manage peerings, and the agents that run on every node of the network and
carry them out (`src/agent-v2`, Go, and its predecessor `src/agent`, Python). It says what the
concurrent and failure-prone parts do, checks that with TLC on small instances, and proves part of
it with TLAPS for every instance.

Contents: 1 the system, 2 the modules, 3 the runs, 4 bounds and fairness, 5 what is proved,
6 where code and documents disagree, 7 what is not modelled, 8 the plan.

## 1. The system

### Components

| Component | Code | State it keeps | Operations | Hard behaviour |
|---|---|---|---|---|
| Peer handlers of the agent | `agent-v2/internal/handler/{peer,remove,restart}.go`, `service/{bird,wireguard}.go` | `/etc/wireguard/dn42-<asn>.conf`, `/etc/bird/dn42_peers/<asn>.conf`, the kernel's tunnels, BIRD's sessions. No lock, no database: the files are the state | `/peer`, `/remove`, `/restart` | every request is a goroutine; each step is a separate system call or command that may fail or be killed; counts are read long before they are used |
| Start-up recovery | `service/recovery.go`, `cmd/agent/main.go` | progress of one goroutine per configured interface, the list of DNS failures | bring up tunnels, strip unresolvable endpoints, report | bounded semaphore, half-made interfaces, crash between strip and report |
| Command runner | `service/command.go` | none | run with a time limit | SIGKILL of a process group in the middle of its work |
| Backup: sync | `service/backup.go` (`syncLocked`) | the git checkout, `origin/main`, `/etc` | fetch, merge, restore, sample, commit, push, pull | humans edit on the server at any moment; `/peer` and `/remove` change `/etc` without the manager's lock; crash; killed git |
| Backup: install | `service/backup.go`, `service/backup_config.go`, `handler/backup.go` | `backup.yaml`, the `backup:` block of `config.yaml`, remains of a shell installation, `m.state`, `m.enabled`, the loop of `Run` | migrate, fold, bootstrap, install, sync | several writes in sequence, each may fail; restart between any two |
| Updater | `service/update.go`, `handler/update.go` | the binary, the running version, a mutex | daily check, `/update/apply`, restart | two queries of a list that changes; requests race the timer; the process is replaced under its requests |
| Looking glass | `lookingglass/` | two semaphores | `show` queries, traceroute | refusal under load, deadlines |
| Peer finder | `peerfinder/` | worker slots, two listeners | answer measurement requests | a slot taken before `Accept` |
| BIRD client | `birdctl/` | none | one command per connection | framing of replies, limits |
| Agent configuration | `config/config.go` | none | load | an unreadable file keeps the agent from starting |
| Read-only handlers, diagnostics | the other files of `handler/` | none | queries, ping, trace, tcping | parsing |
| Bot: peer form | `server/commands/peer/{info_collect,peer,modify}.py` | `peer_info`, passed from one next-step handler to the next | `/peer`, `/modify`: some twenty questions | which questions are asked depends on earlier answers, on the node and on what the agent has on file; a modification enters in the middle and stops at a stop sign |
| Bot: orders | `server/commands/peer/` | `db[chat]`, `base.servers`, next-step handlers and `data/step.save` | command, confirmation, HTTP to the agent | the user changes identity or answers late; a move is two calls to two nodes; the bot's time limit is shorter than the agent's work; restart |
| Bot: login and user table | `server/commands/user_manage/`, `server/base.py`, `oidc_callback` in `server/main.py` | `db`, `db_privilege`, `user_db.pkl` | `/login`, `/logout`, `/whoami`, callback | worker threads and the web server's event loop write one table and one file without a lock |
| Bot: external login | `server/auth/oidc.py` | pending logins (bounded, expiring), discovery documents with key sets | `start_login`, `finish_login` | stale keys, a full table, a callback that comes late or twice, every query may fail |
| Bot: scheduler, notifications | `server/main.py`, `server/tools/servers_check.py` | `base.servers`, caches | poll the agents, save the handlers | a node disappears under a dialogue |
| Bot: update command, tools | `server/tools/`, `server/commands/tools/`, `statistics/` | caches | polling, rendering | agents that do not answer |
| Legacy agent | `agent/` | the same files as the Go agent | `/pre_peer`, `/peer`, `/remove`, `/restart`, `/info`, recovery | commands that hang or fail between two files, kills, a boot that must end |

### Interaction

The bot talks to each agent over HTTP (`POST /peer`, `/remove`, `/restart`, `/update/apply`,
`/backup/...`) and gives up after ten seconds; the agent drives `wg-quick`, `birdc`, `git` and
`systemctl` as child processes with limits of their own, and posts one message back to the bot when
its recovery had to strip endpoints. Inside one agent the handlers, the recovery, the backup loop
and the updater share nothing but the file system and the child processes: the backup loop samples
and restores the very directories the handlers write, and an update restarts the process under all
of them.

Inside the bot, telebot runs every handler in a worker thread; the callback of an external login
runs in the event loop of the web server, the poll of the agents in a scheduler thread. They share
`db`, `db_privilege` and `base.servers` without a lock. A dialogue reads `db[chat]` anew at every
step. What makes each component correct is stated by the properties of section 3.

## 2. The modules

| Module | Models | Lines of code it stands for |
|---|---|---|
| `AgentPeers` | peer handlers, recovery, start, stop, crash, reboot | `peer.go`, `remove.go`, `restart.go`, `recovery.go`, parts of `main.go` |
| `AgentPeersProofs` | theorems about it | |
| `BackupSync` | one sync of an installed node, with the humans, the handlers and the crashes around it | `backup.go:505-790` |
| `BackupSyncProofs` | theorems about it | |
| `BackupInstall` | boot sequence, install, bootstrap, loop | `backup.go:120-505`, `:960-1010`, `backup_config.go`, `handler/backup.go` |
| `Semver` | the version order, as operators | `update.go:395-481` |
| `Updater` | release list, check, install, restart | the rest of `update.go`, `handler/update.go` |
| `AgentServiceProofs` | theorems about `BackupInstall`, `Semver` and `Updater` | |
| `PeerForm` | the questions of `/peer` and `/modify`, the files they become and what `/info` reads back | `info_collect.py`, `modify.py`, parts of `peer.py` and of the agent's `peer.py` |
| `PeerFormProofs` | theorems about it | |
| `PeerOrders` | orders of one chat: commands, identity, confirmation, HTTP, agents, restart | `remove.py`, `restart.py`, the ends of `info_collect.py`, `servers_check.py`, parts of `main.py` |
| `PeerRegistry` | the abstract specification `PeerOrders` implements: peers enter by order, leave by order or by a move | |
| `PeerOrdersProofs` | theorems about `PeerOrders`, its refinement among them | |
| `LegacyAgent` | handlers and recovery of the Python agent | `agent/commands/peer.py`, `agent/base.py` |
| `LegacyAgentProofs` | theorems about it | |
| `UserLogin` | login, logout, table and file | `login.py`, `logout.py`, `whoami.py`, parts of `main.py` and `base.py` |
| `UserLoginProofs` | theorems about it | |
| `ExternalLogin` | pending table, caches, callback | `oidc.py` |
| `ExternalLoginProofs` | theorems about it | |
| `MC*` | constants for TLC; `MCSemver` also holds the reference order. `LegacyAgent` needs none | |

`PROJECT.json` maps each definition to its lines. Definitions marked "mutation" in a comment are
not part of the model: each is a plausible bug of the code, put in place of one definition to see
that a property notices.

### AgentPeers

`wgConf`, `birdConf` are the two files of each ASN, `tunnel` and `birdRun` what kernel and BIRD
run, `req` one record per goroutine (program counter, request, the count and the notes it carries
from one call to the next), `rec` the recovery goroutine of each interface. Every system call or
command of a handler is an action: `CountWG` and `CountBird` are the two directory listings of
`getPeerNum`, `StatWG`/`StatBird` the two existence tests, `OpenWG`/`WriteWG` the truncation and
the write of `os.WriteFile`, and so on until the reply. Whatever the code ignores (the results of
`wg-quick` and `birdc`, of `os.Remove`) the model ignores too. `UpOutcomes`/`DownOutcomes` describe
`wg-quick` as the code relies on it: it refuses an interface that exists, needs the file, cleans up
after its own errors but not after a SIGKILL. File contents are reduced to what decides something:
the kind of endpoint, the BIRD sessions a file defines.
`raced`, `solo`, `fileFault`, `cmdFault`, `unreported`, `reported`, `lost` only observe.

### BackupSync

`commits` is the whole history, each commit with its ancestors and tree; `head`, `main`,
`tracking`, `remote` are the four references; `work` is the working tree, `etc` the live files. A
file's content is the number of the edit that made it, so "who wins" is visible. git is external
and modelled as far as the code uses it: one file is one hunk (a change of both sides is a
conflict, resolved by `-X`, except where one side deleted), a rebase replays the local commits as
one, renames are not detected. `bird/` is never empty because it holds `bird.conf`. `copyDir` is
one step per directory, or stops at some of its files and ends the sync (`CopyFails`). The restore of
`wireguard/` is three steps, as in `restoreDirsFromRepo`: the look at the interfaces that are up
(`LookAtWG`, kept in `before`), the copy (`RestoreWG`), the start of those that were not (`StartWG`).
`missed` only observes: the interfaces that went down between look and copy. One handler runs at a time (interleavings of handlers belong to
`AgentPeers`), whose two writes and final reload interleave freely with the sync.
`.git/index.lock` appears only through a kill. Failures of wg-quick and BIRD, and the recovery's
endpoint stripping, are left to `AgentPeers`.

### BackupInstall

The boot sequence `Boot` - `MigrateLegacy` - `SyncStateIntoConfig` (`SkipFold`, `Fold`,
`WriteFold`, `RetireState`) - `Run`, then `Install` with its three ways. Files are absent, broken
(truncated) or whole. `Nodes` lists the kinds of machine the agent may be started on: `fresh`,
`legacy` (a shell installation), `installed`, `moved` (credentials preset, repository of a
predecessor), `preset` (credentials preset, no repository); the run starts all of them. What a sync does in detail is
`BackupSync`'s subject; here it is the fact that the changes are pushed. `known`, `discarded` and
`unserved` (`Run` found nothing to do and returned) only observe; `known` is reset when a second install starts to overwrite `backup.yaml`, unless
`config.yaml` has the credentials too: from there on the code promises nothing.

### Semver and Updater

An identifier of a pre-release is a number or a word with a rank. `Updater` keeps GitHub's list in
the order of publication, newest first, each release with or without its asset; `Publish`,
`Upload`, `Withdraw` are the project's side. An `Install` is `Check` (takes the mutex), `Refetch`,
`Download` (renames over the binary and releases the mutex), `Restart`. The temporary directory of
the download and its proxy are left out. `Updater` and `BackupInstall` share no name (hence
`UpdaterInit`, `stage`, `failures`, `AgentRestart`), so that one module can hold the theorems of both.

### PeerForm

`form` is `peer_info`, `step` the next-step handler that waits, `stop` the stop sign of
`modify.step_manage`, `conf[n]` what node n has on file. A question's `pre_x`, which decides whether
it is asked, and the `post_x` of its answer stand next to each other: `PostX` handles one accepted
answer and `Ask` goes on to the next question (whose `pre_x` may change the form, `BeforeAsking`),
or stops at the stop sign, in the order of `info_collect.py`. `SetupPeer` is what
the agent makes of a form (tunnel and BIRD sessions), `RecreatePeerInfo` what `/modify` reads back
from it. Addresses, keys and names are reduced to the distinctions the guards make: own or custom
link-local address, link-local or ULA, what an endpoint resolves to. `touched` only observes.
`Complete` says what fits together in a form somebody has confirmed; the peers that are on file at
the start (`Earlier`) come from such forms, since only `/peer` and `/modify` make files.

### PeerOrders and PeerRegistry

One chat. An order is one dialogue: `Command`, the handler's thread (`Start`, `AskUser`), the answer
(`Answer`, `Fill`), the confirmation, the requests (`Confirm`, `Second`), the reply or the time
limit. `Switch` is a login, logout or OIDC callback in another thread; `ServersCheck` the poll that
replaces `base.servers`; `Save` and `Restart` the handlers' file `step.save`. Agents are queues of
requests that are handled in order whether or not anybody waits; `Lose` is a request that never
arrives. `did` and `disturbed` only observe.

`PeerRegistry` knows only which ASN is peered where, which removals are ordered, and which nodes
moving peers may leave. The refinement (`RegistrySpec`) maps `peers` to it, the `/remove` requests
in the queues to `ordered`, the moves under way to `released`. It needs one ASN: with a second one,
`orders_identity` shows the step no registry allows.

### LegacyAgent

The handlers are coroutines, but after the body has been read none awaits: one request is handled
at a time. Its actions are the commands and file operations of a handler; `UpOutcomes` and
`DownOutcomes` are wg-quick with the outputs the code looks for. The recovery starts up to three
`_up` at a time, each with its steps `FirstUp`, `RemoveEndpoint`, `SecondUp`, then `NotifyServer`,
which posts nothing without a `SERVER_URL` (constant `ServerURL`). What a failing `birdc` says is
swallowed (`simple_run`): `Configure` and `RestartBird` answer 200 all the same, unless it hangs or,
for `/restart`, both sessions are unknown to BIRD (`BirdVerdict`).
`Crash` may come at any step, `open(..., "w")` having emptied the file. `Info`, `ErrorList` and
`CurrentPeerNum` are what the read-only requests answer. `cut`, `misled`, `unreported` and `lost`
only observe.

### UserLogin

A job is one command with the dialogue it begins; `Tell` delivers the chat's next message to the
waiting job. A login (`SetAsn`, `Grant`) and a logout (`Pop`, `Revoke`) change `db` and
`db_privilege` in two steps; the save after them opens (and empties) the file and writes it
(`OpenFile`, `Dump`, `Write`), in three more. A proof is good when the text is the code or signature
this job asked for and the person has that ASN. The privilege code is taken at the two places that look
for it, the choice of a method (`SignatureChallenge`, for a code that holds the word) and the
address (`ChooseEmail`). The callback of an external login (`Callback`,
`FinishLogin`, the binding, `Respond`) runs in the thread `Web`. `clashed` and `raced` only observe.

### ExternalLogin

One provider, with a set of keys it rotates. `pending` is `_PENDING_LOGINS` with its limit and
expiry, `cache` the provider's entry in `_DISCOVERY_CACHE`. `_get_provider_metadata` tests for the entry and then reads it,
two steps between which it may expire: `Discover` and `Metadata` test, `ReadDocument` and
`ReadMetadata` read, `FetchDocument` and `FetchMetadata` ask the provider when there was none.
`finish_login` is `Callback`, the metadata, `FetchToken`, then key set and ID token
(`FetchJwkSet`, `ParseIdToken`), userinfo (`FetchUserinfo`, `ExtractAsnClaim`) and `Compare`, every
one of which may fail. The metadata a callback holds may or may not be the cached object, which
decides whether a new key set is kept. `troubled`, `expired` and `later` (how many logins were
started after this one) only observe.

## 3. The runs

Passing runs:

| Run | Question | Properties |
|---|---|---|
| `agent_faults` | One ASN, two goroutines, all requests, failing writes, removals, commands, one crash | `MismatchHasCause`: an ASN with one of its two files had an overlap of `/peer` and `/remove`, a fault or a crash; `RepliesHonest`: what was answered 200 still holds unless something disturbed it |
| `agent_recovery` | Two ASNs with one recovery slot, every fault, two crashes or reboots | `StrippedIsReported`; `BootBringsTunnelsUp` (action property): when the agent serves, the tunnel of a whole file is a whole one, the one of that file if the recovery started it; `BootCompletes` (liveness) |
| `backup_quiet` | Two peers, humans who modify files between syncs, handlers at any moment, one offline sync | `HumanEditsWin`: a push never takes a file back to what `/etc` held before a human edit; `SyncedIsEqualIfReached`: a reported success to a server that was there made `/etc`, checkout and repository equal; `DaemonsFollowUnlessMissed`: at rest BIRD is current and every configured interface up, but for those that went down between the restore's look and its copy |
| `backup_converges` | Edits on both sides during syncs, dropped connections, crashes, killed git commands, copies that fail half way, no deletions | `CatchesUpUnlessLocked` (liveness): the backup comes to equal `/etc` again and again, unless a lock is left |
| `install` | Fresh, installed, moved, shell-backup and preset nodes, restarts, network faults, every way to install | `CredentialsKept`: credentials that were on disk stay readable; `BootstrapCompletesUnlessEmpty`, `EditsReachRepoUnlessUnserved` (liveness): a node gets its repository and its changes get there, unless a first push was lost, its `Run` had returned before it was installed, or it cannot start |
| `update_faults` | Both channels, forced or not, releases in any order and withdrawn, faults | `StableIsStable`; `UpToDate` (liveness) |
| `peer_form` | Two dialogues of any kind, with no peer or one at each node at the start; two nodes, one of them without IPv6 and closed to China, up to two items modified | `SessionsHaveNeighbors`: each BIRD session the files define has an address to talk to; `ShownAgain`: the form reads back from the files as it was confirmed; `OnlyTouchedChanges`: a modification changes what was chosen; `EndpointFitsUnlessMoved` |
| `orders` | Two orders of one chat, two nodes, a logout, a restart or an outage | `SuccessIsTrue`: a success that was told is what the agents did; `NothingIsTrue`: after a refusal nothing was done; `RegistrySpec`: `PeerOrders` implements `PeerRegistry` |
| `legacy_faults` | Two ASNs, a limit of one, `SERVER_URL` set, a command that fails or hangs, two crashes | `CapacityKept`, `MismatchHasCause`, `CountIsHonest`, `ErrorListCoversInfo`, `StrippedIsReported`, `SuccessIsTrueUnlessFault`, `Serves` (liveness) |
| `login` | Two users, two jobs and the callback, a restart at any step, every way to log in | `LoggedInOwns`; `PrivilegedIsLoggedIn`; `SavedWhenQuiet`: the file is the table when nobody writes, unless two saves overlapped; `LinkUsedOnce` |
| `external_login` | Two logins with one place in the pending table, two rotations, a failure | `LinkLives`: a link works until it expires or as many came after it as the table holds; `PageIsTrue`; `FailsForAReason`: no stale cache fails a login; `FinishedOnce` |

Each of `peer_form`, `legacy_faults`, `login` and `external_login` checks its module's
`TypeOK` too (`OrdersSwitch`, below, that of `PeerOrders`). One run is expected to fail and is described in section 6: `orders_identity`.

Some passing configurations are kept to be run by hand (`tlc -config X.cfg MCModule`; the module is
`LegacyAgent` itself for its own):

| Config | Shows |
|---|---|
| `AgentCapacity` | three ASNs, two goroutines: `OvershootBounded`, the stale count exceeds the limit by at most goroutines - 1; `TypeOK` |
| `SemverOrder` | every triple of 63 tags: `OffersNewer` (semver.org's rule 11), `NoCycle` |
| `OrdersSwitch` | two ASNs, one node: `ShownIsMeantUnlessSwitched`, `SuccessIsTrue`, `NothingIsTrue` and, under fairness of the worker threads, `HandlersEnd` |

Deadlock is checked except where the system may really stop: in `agent_recovery`, which sends no
request and so stops when the agent serves; in `install`, where a node that is neither installed nor
asked to install rests once it has started and its restarts are used up; in the runs of the bot and
of the legacy agent, where the user may send nothing more once the bound on dialogues, flows, jobs
or crashes is used up.

## 4. Bounds and fairness

* **Agent.** Two goroutines are enough for every pairwise overlap of handlers, which share no state
  but files. One semaphore slot and two interfaces make the recovery goroutines compete.
  `MaxCrashes` 1 or 2: a crash of the pass that follows a crash.
* **BackupSync.** `MaxEdits` counts human and local edits together: with three, an edit can precede,
  interleave with and follow a conflicting one. `MaxFaults` is 1 or 2: the effect of a fault on the
  sync after the next is the long one. Two peers make a change of one file and a restore of
  another distinguishable; one peer has both of its files already. `backup_quiet` has 2.8 million
  states (a minute), `backup_converges` 159 thousand.
* **BackupInstall.** Three faults let removal, restart and network fail in one boot; nodes of all five kinds
  start (2829 states).
* **Updater.** Three releases: two channels and a later release of either. `MaxRequests` 1 against
  the timer.
* **PeerForm.** Two dialogues (`MaxDialogues`): a form, and a modification of what the first left, or
  two modifications of peers made earlier (`Earlier`), with a node to choose;
  two items (`MaxItems`): an item chosen after another has changed what it depends on. Two MTUs, two
  link-local addresses and two hosts tell a kept value from a replaced one.
* **PeerOrders.** Two orders: one whose answer nobody waits for and the next one. Each kind of event
  happens once, and one kind in a behaviour (`MaxEvents`); with two kinds the run still passes but
  takes minutes.
* **LegacyAgent.** Two ASNs for the limit and the count; two crashes, because one leaves a state
  `CurrentPeerNum` notices and two may cancel out (703 thousand states).
* **UserLogin, ExternalLogin.** Two jobs or flows: every pairwise overlap. One place in the pending
  table makes two flows compete for it; two rotations outlive a fetched key set and its refresh.

Symmetry is used for ASNs (those not configured at first), goroutines, peers, orders, nodes, jobs,
flows and keys, where nothing in the instance tells them apart and no liveness is checked.

**Fairness.** `AgentPeers`: weak fairness of each handler's and each recovery goroutine's next
step, since every command has a time limit and every system call returns; of `Boot`, since systemd
restarts the agent; of `Serve`. Nothing is assumed about requests, crashes or who gets a slot.
`BackupSync`: weak fairness of the sync (its timer and time limits) and of the handler.
`BackupInstall`: weak fairness of boot and install steps; strong fairness of the loop's two
actions, because they wait for a Go mutex that requests take again and again, and a Go mutex goes
into starvation mode in favour of a waiter. `Updater`: weak fairness of the timer and of each
install. `LegacyAgent`: weak fairness of the next statement of whatever runs; each command and the
report have a time limit. `PeerOrders`: weak fairness of the handlers' threads, which wait for
nothing longer than ten seconds; none of the agents. No fairness is assumed of users, humans,
GitHub or faults; faults are bounded, which is the assumption "faults cease" that each liveness
property needs. `UserLogin`, `ExternalLogin` and `PeerForm` claim no liveness: the query for a token
has no time limit, so nothing promises that a callback ends.

## 5. What is proved

`AgentPeersProofs` (2971 obligations), `PeerFormProofs` (1754), `PeerOrdersProofs` (1557),
`BackupSyncProofs` (1828), `AgentServiceProofs` (1328), `UserLoginProofs` (1094),
`ExternalLoginProofs` (1106) and `LegacyAgentProofs` (661), from the named assumptions on the constants only, all of them checked
by TLC for the instances above. Each inductive invariant was checked by TLC before it was proved.

| Theorem | States |
|---|---|
| `TypeCorrect` | `AgentPeers!Spec => []TypeOK`, for any sets of ASNs, goroutines, requests and faults |
| `MismatchAlwaysHasCause` | `Spec => []MismatchHasCause` |
| `StrippedEndpointsAreTold` | `Spec => []StrippedIsReported` |
| `BootStartsTunnels` | `Spec => [][...]_vars`, the property `BootBringsTunnelsUp` |
| `AnswersAreHonest` | `Spec => []RepliesHonest` |
| `OvershootIsBounded` | `Spec => []OvershootBounded`, for any limit and number of goroutines |
| `BackupTypeCorrect` | `BackupSync!Spec => []TypeOK`, for any peers, requests, human edits and faults |
| `DaemonsAlwaysFollow` | no crash and no failed copy (`Faults \intersect {"crash", "disk"} = {}`) implies `Spec => []DaemonsFollowUnlessMissed` |
| `HumanEditsAlwaysWin` | `Quiet` implies `Spec => HumanEditsWin` |
| `SyncsMakeEqual` | `"flaky" \notin Faults` implies `Spec => SyncedIsEqualIfReached`, whatever humans do and whenever |
| `InstallTypeCorrect` | `BackupInstall!Spec => []TypeOK` |
| `CredentialsAlwaysKept` | `Spec => []CredentialsKept`, for any number of faults |
| `UpdatesGoUp` | `UpdateAvailable` is semver.org's rule 11, a strict total order, for pre-releases of any length |
| `UpdaterTypesHold` | `UpdaterSpec => []UpdaterTypeOK`, the one holder of the mutex included, for any catalog and requests |
| `StableStaysStable` | `UpdaterSpec => []StableIsStable` |
| `InstallsAreNewer` | `InOrder` implies `UpdaterSpec => NewerOnly` |
| `BinaryNeverGoesBack` | `OneWay` implies `UpdaterSpec => NeverBack` |
| `FormTypesHold` | `PeerForm!Spec => []TypeOK`, for any nodes, hosts, keys, values and numbers of dialogues and items |
| `NeighborsAreThere` | `Spec => []SessionsHaveNeighbors` |
| `ConfirmedIsShown` | `Spec => []ShownAgain` |
| `ModifyKeepsTheRest` | `Spec => [][...]_vars`, the property `OnlyTouchedChanges` |
| `EndpointIsChecked` | `Spec => [][...]_vars`, the property `EndpointFitsUnlessMoved` |
| `TypesHold` | `PeerOrders!Spec => []TypeOK`, for any orders, nodes, ASNs and events |
| `SuccessHolds`, `NothingHolds` | `Spec => []SuccessIsTrue`, `Spec => []NothingIsTrue` |
| `ShownHolds` | `Spec => [][...]_vars`, the property `ShownIsMeantUnlessSwitched` |
| `OrdersImplementRegistry` | `OneIdentity` implies `Spec => RegistrySpec` |
| `LegacyTypeCorrect` | `LegacyAgent!Spec => []TypeOK`, for any sets of ASNs, limit, faults and crashes |
| `LimitIsKept` | `Spec => []CapacityKept` |
| `OnlyCrashesSplitPeers` | `Spec => []MismatchHasCause` |
| `NumberIsHonest` | `Spec => []CountIsHonest` |
| `ErrorsAreListed` | `Spec => []ErrorListCoversInfo` |
| `NoStripIsForgotten` | `Spec => []StrippedIsReported` |
| `SuccessNeedsNoCheck` | `Spec => [][...]_vars`, the property `SuccessIsTrueUnlessFault` |
| `LoginTypeCorrect` | `UserLogin!Spec => []TypeOK`, for any sets of chats, ASNs and jobs |
| `OnlyOwnersLogIn` | `Spec => []LoggedInOwns` |
| `AdministratorsAreLoggedIn` | `Spec => []PrivilegedIsLoggedIn` |
| `FileIsTheTable` | `Spec => []SavedWhenQuiet` |
| `LinksWorkOnce` | `Spec => [][...]_vars`, the property `LinkUsedOnce` |
| `ExternalTypesHold` | `ExternalLogin!Spec => []TypeOK` |
| `LinksLive` | `ExternalLogin!Spec => []LinkLives`, for any flows, keys and capacity |
| `PageIsAlwaysTrue` | `Spec => []PageIsTrue` |
| `LoginFinishesOnce` | `Spec => [][...]_vars`, the property `FinishedOnce` |
| `FailuresHaveReasons` | `Spec => [][...]_vars`, the property `FailsForAReason` |

*MismatchAlwaysHasCause.* `MismatchHasCause` is not inductive: a state may be mismatched "midway"
because of a goroutine that is between its two writes, and one must know that when this goroutine
goes on, no other goroutine has touched the other file without leaving a trace. The invariant
`MismatchInv` adds: two goroutines in flight on one ASN, one of them a `/remove`, are recorded in
`raced` (`OverlapSeen`); nothing is in flight while the agent boots (`BootQuiet`); and per ASN,
either it has a cause or the positions of its goroutines agree with which of its files exist
(`FilesPaired`). Lemmas first show what one handler's step can change (`HandlerMoves`,
`HandlerKeeps`), then that other ASNs are not affected (`OtherASN`), then the invariant per
operation (`FilesPeer`, `FilesRemove`), then for start, recovery and crash.

*StrippedEndpointsAreTold, BootStartsTunnels.* `BootInv` adds to `MismatchInv` where an endpoint is
that has been stripped and not told yet (`Reporting`: in the list for the notification, or its
goroutine has still to rewrite the file or to start the tunnel again) and, for every
configuration, that while the agent recovers its tunnel is up or its goroutine has not ended
(`Recovered`), a tunnel this goroutine has started being the one of the file (`RecoveredAt`). A half-made
interface is left only by a killed wg-quick, which is recorded (`PartialSeen`). When the agent
serves, all have ended. Left out is a peer whose wg-quick was killed, or failed over something else
than a name: there the code promises nothing, and reports what is not so (`AgentReported`).

*AnswersAreHonest.* What a 200 promises depends on three daemons and two files which other handlers
may touch meanwhile. `HonestInv` says first what the history variables are worth: a goroutine in
`solo` is alone on its ASN (`Alone`), and a removal in flight beside another handler is in `raced`
(`RemovalSeen`). For an ASN nothing has harmed, `Settled` ties files and daemons together between
any two steps: no file, no tunnel; no tunnel while a removal has the file still to delete; BIRD runs
the file, or a handler is still going to make it reread. `Progress` says what a lone handler has
achieved at each of its calls; at the reply it is the promise.

*OvershootIsBounded.* A handler compares a count it took some calls ago, so what others may still
add has to be counted too. `Adders` are the `/peer` handlers whose ASN has no file and whose count
was below the limit or has passed the comparison; `Room` says that they and the files together stay
within the limit plus the other goroutines. It holds when a handler counts, since it becomes an adder
only while there are fewer files than allowed and every goroutine may be one; an adder that opens its
file turns into a file; and a file another handler has seen (`Noted`) goes only by a `/remove` that
overlaps with it, which `OverlapSeen` has recorded. Crashes with a handler at work and failed writes
count as faults: `MismatchHasCause` is about those.

*DaemonsAlwaysFollow.* `DaemonInv`: BIRD runs its directory except between a handler's second write
and its reload, and an interface whose file is there is up or missed except between the two steps of
the handler that is about to delete the file or to start the interface (`AboutToSettle`), and between
the copy of a restore and its end, which starts what was not up at the look (`ToBeStarted`). What was
up at the look and is down at the copy is just what `missed` records. A crash or a copy that stops
leaves files without their daemons until the next start (`AgentPeers`) or the next request.

*HumanEditsAlwaysWin.* `Quiet` is what the code needs to keep the promise: humans edit while no sync
runs and delete no file, and git fails only when the server cannot be reached for a whole sync.
Every part is needed: `BackupPushRace` shows the edit during a sync, `BackupCrash` the crash;
`BackupQuiet` with `Faults <- Flaky` a fetch that fails alone, after which the push is refused and
the rebase brings in what `/etc` never gets; with `HumanEdits <- Remove` a human who deletes the
last WireGuard file, whose empty directory the restore skips and the sample then fills again.
`HumanInv` has three parts. `GraphInv`: ancestry is reflexive, transitive and never points to a
later commit. `BranchInv`: a sync that reaches the server knows what is there, and, but for the
merge, HEAD and the server have in common exactly what `origin/main` has - so the push is never
refused and nothing is rebased. `ContentInv`: working tree and `/etc` are on top of `origin/main`,
file by file. `OnTop` is not transitive, because a deleted file may be made again; the invariant
therefore never chains it, but says of each tree, and of `/etc`, that it is on top of the one it
will be compared with. At the merge, `Forked` names the common ancestor; lemma `BaseIsCommon` shows
that git's merge base is that commit, and a file the merge takes from the server is by
`BranchInv` never an absent one, so that the restore does not skip it.

*SyncsMakeEqual.* Here humans edit and delete at any time, the agent crashes and git is killed; the
one condition is that a git command fails only because the server is away. A fetch that fails alone
breaks the property (`BackupFalseSuccess` with `Faults <- Flaky` and this property):
HEAD and the old `origin/main` agree, and success is reported at once. `ReachInv` says how far a
sync nobody has disturbed has come: it knows the server's main, then has it among HEAD's ancestors,
then has sampled the one and the other directory, then has committed what it sampled. That is not
enough, for what is pushed is `main` and not HEAD, and after a rebase that stopped the two differ
for ever. `HeadInv` closes the gap: whenever they differ, `main` lacks a commit the server has, so
its push is refused, and the sync that pushes nothing reports no success unless HEAD is what the
server holds; a checkout that is locked never comes to push. The proof goes step by step through the
sync; TLC checked both invariants for one peer with every kind of edit and of fault but that one.

*CredentialsAlwaysKept.* The strengthening `StateIsOnDisk` says that the state the boot sequence
works with is the one on disk (else `UninstallLegacy` could remove the last copy), and that
`backup.yaml` is retired only once `config.yaml` is whole.

*UpdatesGoUp.* `ComparePrerelease` (`update.go:452`) chooses the first position at which two pre-releases
differ. That there is a first one is the one fact about sequences of any length the proof needs;
`LeastExists` takes it from the least element of a set of numbers, without an induction of its own.
`PreBelow` is rule 11 as semver.org words it, and `PreTransitive` goes by which of two first
differences comes earlier.

*StableStaysStable.* What an install has found is of the channel it was asked for, because
`Refetch` (`update.go:157`) asks with that channel again and nothing changes the channel of a
waiting install. The types are not inductive as the run checks them: taking a release out of the
list preserves them only of a sequence, which `UpdaterTypes` adds.

*InstallsAreNewer, BinaryNeverGoesBack.* GitHub is asked twice and only the first answer is compared
with the version that runs, so neither holds of every behaviour. `InOrder` is what the code relies
on: releases appear in the order of their versions, and none is withdrawn. Then the list is
`Sorted`, what a channel offers only rises, and what the second query finds is not older than what
the first one justified (`NewerInv`). `NeverBack` compares with the binary instead, which another
install may have replaced since. `OneWay` adds that all ask for one channel and that an update is
forced only where every release is newer than the first agent; `ForwardInv` then says that the
binary is one the channel has offered, or still the first, and that whatever is about to be
installed is not older. TLC refutes both as soon as one of these parts is dropped.

*The theorems about PeerForm* rest on `FormInv`. A dialogue reaches a question from several others, or
from the menu of `/modify`, so the invariant says for each question what is known of the form when
it is asked (`Ready`): the session answered so far fits together (`ChannelReady`), the addresses
agree with it except those that are still to come (`AddressReady`), the endpoint was
checked (`RestReady`). For a modification, what the items in `touched` do not cover is as in
`backup` (`Kept`), and the stop sign lies ahead of the question (`StopsAt`), so that the dialogue
cannot run past it into fields nobody chose. Each answer then needs only what it changes
(`SessionAnswered`, `LateAnswered`). What is on file is a complete form (`Written`), and from a
complete form files and back leads to itself (`Readback`). `EarlierAssumption` is needed for peers
that are on file at the start: one that no form can lead to would read back as something else.

*The theorems about PeerOrders* rest on `OrdersInv`, for each order: the form holds what the next
step needs (`Fields`), it makes the calls its kind makes (`Calls`), the agents have done for it what
its place says (`Deeds`), and while nothing has disturbed it everybody means the identity that was
shown (`Meant`). The handler in `step.save` is of the same dialogue at an earlier place
(`SavedInv`), a request in a queue is of its order's kind and, if somebody waits for it, the one its
order is at (`SentInv`), and no order waits for two (`AwaitedOnce`): this is what keeps the answer
to a request nobody waits for any more from being taken for the next one's.
*OrdersImplementRegistry* goes through the actions: a `/peer` that an agent handles is `Enter`,
which releases the old node when a peer moves; a `/remove` is `Leave`; a confirmation or a lost
request is `Reorder`; the rest stutters. The only step that could be none of these is a modification
that sends its second request after its identity was replaced. `OneIdentity` excludes just that:
nobody switches, or there is only one ASN (logging out and in again is allowed). It cannot be
dropped: `orders_identity` shows the step.

*The theorems about LegacyAgent* rest on one invariant, `LegacyInv`. `AtWork` says that a request
exists exactly while a handler works on it and that the recovery works on files that exist.
`Paired`: an ASN no crash has cut short has both files or none, and whole ones, but for the one
being worked on, whose place says which file is there. `Room`: at the write there is still room,
because the count compared with `MAX_PEERS` is, when it is given at all, the number of WireGuard
files; a crash at the write creates that file and no other. `Reporting`: an endpoint that has been
removed is in the list for the bot or a step before it. `Sound`: of an ASN no command has let down,
what each place of a handler may rely on - the interface is down before the file goes, a session
without a file is one whose removal still has its `birdc` to come. From `Sound` and `Paired` follows
what a 200 promises; the rest is by `Reply`: no other step answers 200. `NumberIsHonest` adds
arithmetic: with at most one ASN cut short, one of the two sets of files contains the other, and
sets of equal size of which one contains the other are equal.

*OnlyOwnersLogIn.* That `db` names only ASNs their chats have proved says nothing of the next
restart, which loads the file, nor of a binding that is half done. `LoginInv` adds: a job that asks
for a proof asks for an ASN and a code of its own, and what a thread is about to bind it has proved
(`JobInv`, `SaveInv`); the snapshot a save carries, the table in the file and the table in memory
are all rightful (`Rightful`). The proof goes by action; most of them only move a job, and one
lemma serves them all.

*AdministratorsAreLoggedIn, FileIsTheTable, LinksWorkOnce.* `TableInv` adds to `LoginInv` what the
places of the threads say about table and file. `AdminInv`: a chat with privileges but no ASN has a
thread just about to revoke them, and neither the file nor a snapshot on its way there
has such a chat. `FileInv`: as long as no two saves have overlapped, at most one thread has the file
open, the file is the table when every thread is before its change or done, and what a lone thread
is about to write is the table. `JobsEnd`: a dialogue that is not over has neither begun a save nor
given out a link.

*LinksLive, PageIsAlwaysTrue, LoginFinishesOnce.* One invariant carries the three.
`ClaimInv`: between the callback's steps, the claims it holds are ones the provider may make about
the account of the flow in work. `PendingInv`: no flow is pending twice, none is pending while in
work, and a flow that is pending, in work or not yet started has neither a page nor a binding -
which is why the pop at the beginning of `finish_login`, and nothing later, makes a login unique.
`Ranked`: a login in the table has had at least as many others start after it as stand behind it, so
that one that is pushed out has had as many as the table holds. Lemmas about `RemoveAt` and `Append`
carry both through the bounded table.

*FailuresHaveReasons.* `ReasonInv`: of a login without trouble the provider still publishes the key
it signed with, so that the key set fetched the second time (`forced`) has it, however old the
cached one was; and what is compared is what the configured source said. What remains is an expiry
between the two looks at the cache (`oidc.py:274-275`): without its disjunct the property fails.

Only model-checked: liveness (beyond the prover: `BootCompletes`, `BootstrapCompletesUnlessEmpty`,
`EditsReachRepoUnlessUnserved`, `CatchesUpUnlessLocked`, `UpToDate`, `Serves` and, by hand,
`HandlersEnd`). Every safety property a passing run checks has a theorem; the other safety
properties without one are those of section 6, which fail.

## 6. Where code and documents disagree

`orders_identity` is run with the others. `/remove` tells the user "You will remove a peer with me
through the following identity:" (`remove.py:28`; `modify.py:173`, `peer.py:87` and `restart.py:27`
say the like). The identity is read again at every step, the last time when the confirmed request
is sent (`remove.py:179`): whoever logs in as another ASN before the confirmation - a second
`/login` cannot start while a handler waits, but the callback of an external login that was begun
before can come at any time - removes the peer of the new one. `restart.py:146` and the second
request of a modification (`info_collect.py:1022`, `:1044`) do the same; with a modification that
moves, the old node is asked to remove another ASN's peer.

The other disagreements met while modelling have a `.cfg` of their own, to be run by hand (`tlc
-config X.cfg MCModule`); each makes TLC print the shortest behaviour.

| Config | Property | What happens |
|---|---|---|
| `AgentRemoveTimeout` | `RemovedIsDown` | a killed `wg-quick down` is ignored and the file deleted: the tunnel stays, and nothing can take it down any more |
| `AgentReported` | `ReportedIsUp` | the first `wg-quick up` is killed with the interface half made, the second one is refused, and its result is ignored (`recovery.go:118`): the bot tells "brought up without it" (`server/main.py:274`) of a peer whose tunnel is not |
| `BackupCrash` | `HumanEditsWin` | after a crash between the merge (`backup.go:538`) and the restore (`backup.go:548`) HEAD equals `origin/main`; the next sync skips the restore, samples the old `/etc` over the merge result and pushes it. The comment at `backup.go:545` says the order of the steps excludes exactly this |
| `BackupPushRace` | `HumanEditsWin` | the rebase brings a human commit into HEAD that `/etc` never receives (`config.md:155`) |
| `BackupOfflineLoss` | `LocalEditsSurvive` | after a failed push HEAD is ahead; this is taken for a remote change. With `HumanEdits <- Modify` and `Faults <- NoFaults` instead, the restore after a human edit overwrites a local change made since the last sample (`backup.go:600`) |
| `BackupStaleLook` | `DaemonsFollowFiles` | `/remove` takes an interface down after the restore has seen it up (`backup.go:772`); the copy brings its file back, and nothing starts it. With `PairsStayWhole` in its place: the restore interleaves with `/peer` or `/remove` and leaves half a peer; `/peer` answers 500 from then on (`peer.go:43`) |
| `BackupKilledGit` | `CatchesUp` | a killed git leaves `.git/index.lock`, which nobody removes |
| `BackupFalseSuccess` | `SyncedIsEqual` | a failed fetch is ignored and success reported |
| `InstallPreset` | `BootstrapCompletes` | after a failed first push the repository is empty, and no later attempt publishes anything (`config.md:176`) |
| `InstallBrokenConfig` | `ConfigLoads` | a failed write leaves `config.yaml` cut short (`backup.go:172`) |
| `InstallFoldRestart` | `BootstrapKeepsEdits` | the fold retires `backup.yaml`; the next start bootstraps over unpushed changes |
| `InstallNoLoop` | `EditsReachRepo` | an install after `Run` has returned is not synced until the agent starts again (`config.md:153`); `install` excepts it as `unserved` |
| `UpdateBackport` | `NewestRuns` | the first release of the list, not the highest, is installed (`config.md:142`) |
| `PeerMoved` | `EndpointFits` | a peer that moves takes an endpoint along that was checked for the old node only: the new one may not reach it, or not take peers from its country (`info_collect.py:611`) |
| `LegacyRestart` | `RestartIsTrue` | `/restart` ignores a failed down, and an up that times out has no "ip link delete dev" in its output: 200, "have been restarted" (`restart.py`), and the tunnel is down |

`MismatchHasCause` is about a node without backup: `BackupStaleLook` shows the one further cause a
backup adds.

Others are exceptions a passing property names. The limit of `max_peers` is passed by requests that
race (`OvershootIsBounded` says by how many). A login fails, "unexpected error", when the cached
document expires between `in` and `[]` (`oidc.py:274-275`, in `FailsForAReason`; in `start_login` the
dialogue ends without an answer). A full table drops a login whose link has not expired
(`oidc.py:159`, in `LinkLives`). `/peer` and `/restart` of the Python agent answer 200 when `birdc`
fails, since `simple_run` returns the output of a failed command like any other (`misled` in
`SuccessIsTrueUnlessFault`). Two saves of `user_db.pkl` that overlap may leave the older table in the
file; `SavedWhenQuiet` excludes them (`clashed`). And a late callback of an external login replaces a
login made in between, though `/login` itself refuses that (`login.py:225`).

## 7. What is not modelled

* Authentication of requests and signatures: cryptography. A proof is right or wrong.
* Wording, formats and addresses, as far as no guard looks at them.
* Ping, trace, tcping, statistics, maps, `findnoc`, `whois`, `rank`, `listpeers`: queries that
  change no state; their difficulty is parsing, which a unit test reaches.
* The update command of the bot: it keeps no state, and `Updater` models what it starts.
* Looking glass, peer finder, BIRD client and the race inside `RunCommand` of the Go agent: a
  semaphore or a time limit around an I/O operation; the function that takes a slot gives it back.
* The dialogues of several chats at once: they share only the agents, whose interleavings are the
  subject of `AgentPeers` and `LegacyAgent`.
* The message that tells the chat of a failed external login (`main.py:325`): should it fail to be
  sent, the browser gets an error page and nothing else changes.
* Files that are cut short in the middle by a copy that stops: `CopyFails` copies whole files.
* Configuration of OIDC providers, the scripts, build and packaging.

Hazards of the code that the list in `PROJECT.json` leaves to the configurations above: the stale
count of the Go agent (`AgentCapacity`, and theorem `OvershootIsBounded`), a failed fetch (`BackupFalseSuccess`), the
version order (`SemverOrder`, and theorem `UpdatesGoUp`), the version a request compares with
(theorem `BinaryNeverGoesBack`), local edits lost to a restore (`BackupOfflineLoss`). One has no model: the recovery of the Go
agent walks `/etc/wireguard` while the backup loop may already restore into it (`main.go:156`).

## 8. Possible extensions

1. The recovery of the Go agent composed with the restore at start-up.
2. The small servers of the Go agent, should their slots ever be released by hand.
