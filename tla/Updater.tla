------------------------------- MODULE Updater -------------------------------
(***************************************************************************)
(* ReleaseUpdater (service/update.go) and its handler: the daily check and *)
(* the bot's /update/apply requests look for a release on GitHub, replace  *)
(* the agent's binary and have systemd restart the service.  Releases are  *)
(* published, given their assets and withdrawn meanwhile.                  *)
(***************************************************************************)
EXTENDS Semver, SequencesExt

CONSTANTS
    Requests,     \* /update/apply handlers that may run at once
    Catalog,      \* the releases [tag, pre] that may be published
    Ascending,    \* they are published in the order of their versions
    Withdrawals,  \* a release may be deleted
    Start,        \* the tag of the agent that runs at first
    AutoUpdate,   \* auto_update.enabled
    Channel,      \* auto_update.channel
    Channels,     \* channels the requests name
    Forces,       \* values of "force" in the requests
    MaxRequests,  \* bound on requests
    MaxFailures   \* bound on failed queries, downloads, restarts, and crashes

ASSUME CatalogAssumption == Catalog \subseteq [tag : Tag, pre : BOOLEAN] /\ Start \in Tag
ASSUME RequestAssumption == Requests \cap {"timer", "nobody"} = {}
ASSUME ChannelAssumption ==
    Channel \in {"stable", "candidate"} /\ Channels \subseteq {"stable", "candidate"}
ASSUME UpdaterFlagAssumption ==
    /\ {Ascending, Withdrawals, AutoUpdate} \cup Forces \subseteq BOOLEAN
    /\ MaxRequests \in Nat /\ MaxFailures \in Nat

VARIABLES
    releases,   \* what GitHub lists, newest publication first
    published,  \* releases published so far
    binary,     \* the agent at auto_update.agent_path
    running,    \* BuildVersion of the process
    stage,      \* where each Install is
    holder,     \* the Install that holds the updater's mutex
    channel,    \* its channel
    force,      \* its force flag
    found,      \* the release it downloads
    requests,   \* requests so far
    failures    \* faults so far

github == <<releases, published>>
locals == <<channel, force, found>>
updaterVars == <<releases, published, binary, running, stage, holder, channel, force,
                 found, requests, failures>>

Timer == "timer"
Workers == Requests \cup {Timer}
Nobody == "nobody"

NoRelease == [tag |-> Start, pre |-> FALSE]

UpdaterTypeOK ==
    /\ \A i \in 1 .. Len(releases) :
           [tag |-> releases[i].tag, pre |-> releases[i].pre] \in published
    /\ published \subseteq Catalog
    /\ {binary, running} \subseteq {Start} \cup {release.tag : release \in Catalog}
    /\ stage \in [Workers -> {"idle", "lock", "refetch", "download", "restart"}]
    /\ holder \in Workers \cup {Nobody}
    /\ \A w \in Workers : (holder = w) <=> stage[w] \in {"refetch", "download"}
    /\ channel \in [Workers -> {"stable", "candidate"}] /\ force \in [Workers -> BOOLEAN]
    /\ found \in [Workers -> Catalog \cup {NoRelease}]
    /\ requests \in 0 .. MaxRequests /\ failures \in 0 .. MaxFailures

Idle == [w \in Workers |-> "idle"]

UpdaterInit ==
    /\ releases = << >> /\ published = {}
    /\ binary = Start /\ running = Start
    /\ stage = Idle /\ holder = Nobody
    /\ channel = [w \in Workers |-> Channel]
    /\ force = [w \in Workers |-> FALSE]
    /\ found = [w \in Workers |-> NoRelease]
    /\ requests = 0 /\ failures = 0

-----------------------------------------------------------------------------
(* GitHub: a release appears before its assets are uploaded. *)
Publish(release) ==
    /\ release \notin published
    /\ Ascending => \A older \in published : Compare(older.tag, release.tag) < 0
    /\ published' = published \cup {release}
    /\ releases' = <<[tag |-> release.tag, pre |-> release.pre, asset |-> FALSE]>> \o releases
    /\ UNCHANGED <<binary, running, stage, holder, locals, requests, failures>>

Upload(i) ==
    /\ ~releases[i].asset
    /\ releases' = [releases EXCEPT ![i].asset = TRUE]
    /\ UNCHANGED <<published, binary, running, stage, holder, locals, requests, failures>>

Withdraw(i) ==
    /\ Withdrawals
    /\ releases' = RemoveAt(releases, i)
    /\ UNCHANGED <<published, binary, running, stage, holder, locals, requests, failures>>

-----------------------------------------------------------------------------
Candidates(chan) ==
    {i \in 1 .. Len(releases) :
        releases[i].asset /\ (chan = "stable" => ~releases[i].pre)}

(* latestRelease: the first release of the list that the channel admits and
   that has a binary for this machine. *)
Offered(chan) ==
    LET i == CHOOSE k \in Candidates(chan) : \A l \in Candidates(chan) : k <= l
    IN  [tag |-> releases[i].tag, pre |-> releases[i].pre]

Failure == failures < MaxFailures /\ failures' = failures + 1

Proceed(w, from, to) == stage[w] = from /\ stage' = [stage EXCEPT ![w] = to]

(* The timer of Run. *)
Tick ==
    /\ AutoUpdate
    /\ Proceed(Timer, "idle", "lock")
    /\ channel' = [channel EXCEPT ![Timer] = Channel]
    /\ force' = [force EXCEPT ![Timer] = FALSE]
    /\ UNCHANGED <<github, binary, running, holder, found, requests, failures>>

(* UpdateApplyHandler. *)
Apply(w, chan, forced) ==
    /\ requests < MaxRequests /\ requests' = requests + 1
    /\ Proceed(w, "idle", "lock")
    /\ channel' = [channel EXCEPT ![w] = chan]
    /\ force' = [force EXCEPT ![w] = forced]
    /\ UNCHANGED <<github, binary, running, holder, found, failures>>

Wanted(w) ==
    /\ Candidates(channel[w]) # {}
    /\ force[w] \/ UpdateAvailable(running, Offered(channel[w]).tag)

(* Install takes the mutex and checks; it lets the mutex go when GitHub does
   not answer or has nothing newer than the agent that runs. *)
Check(w) ==
    /\ holder = Nobody
    /\ \/ /\ Wanted(w)
          /\ Proceed(w, "lock", "refetch")
          /\ holder' = w
          /\ UNCHANGED failures
       \/ /\ ~Wanted(w)
          /\ Proceed(w, "lock", "idle")
          /\ UNCHANGED <<holder, failures>>
       \/ /\ Proceed(w, "lock", "idle") /\ Failure
          /\ UNCHANGED holder
    /\ UNCHANGED <<github, binary, running, locals, requests>>

RefetchConfigured(w) ==  \* mutation: the second query forgets the channel asked for
    /\ Candidates(Channel) # {}
    /\ Proceed(w, "refetch", "download")
    /\ found' = [found EXCEPT ![w] = Offered(Channel)]
    /\ UNCHANGED <<github, binary, running, holder, channel, force, requests, failures>>

(* GitHub is asked again for the release to install, and its version is not
   compared any more. *)
Refetch(w) ==
    /\ \/ /\ Candidates(channel[w]) # {}
          /\ Proceed(w, "refetch", "download")
          /\ found' = [found EXCEPT ![w] = Offered(channel[w])]
          /\ UNCHANGED <<holder, failures>>
       \/ /\ Candidates(channel[w]) = {}
          /\ Proceed(w, "refetch", "idle")
          /\ holder' = Nobody
          /\ UNCHANGED <<found, failures>>
       \/ /\ Proceed(w, "refetch", "idle") /\ Failure
          /\ holder' = Nobody
          /\ UNCHANGED found
    /\ UNCHANGED <<github, binary, running, channel, force, requests>>

Listed(release) ==
    \E i \in 1 .. Len(releases) :
        releases[i].tag = release.tag /\ releases[i].pre = release.pre

DownloadKeepsLock(w) ==  \* mutation: a failed download keeps the mutex
    /\ \/ /\ Listed(found[w])
          /\ Proceed(w, "download", "restart")
          /\ binary' = found[w].tag
          /\ holder' = Nobody
          /\ UNCHANGED failures
       \/ /\ Proceed(w, "download", "idle") /\ Failure
          /\ UNCHANGED <<binary, holder>>
    /\ UNCHANGED <<github, running, locals, requests>>

(* installAsset downloads next to the binary and renames over it. *)
Download(w) ==
    /\ \/ /\ Listed(found[w])
          /\ Proceed(w, "download", "restart")
          /\ binary' = found[w].tag
          /\ UNCHANGED failures
       \/ /\ ~Listed(found[w])
          /\ Proceed(w, "download", "idle")
          /\ UNCHANGED <<binary, failures>>
       \/ /\ Proceed(w, "download", "idle") /\ Failure
          /\ UNCHANGED binary
    /\ holder' = Nobody
    /\ UNCHANGED <<github, running, locals, requests>>

(* The process is replaced, and every goroutine of the old one is gone. *)
Replaced ==
    /\ running' = binary
    /\ stage' = Idle /\ holder' = Nobody
    /\ UNCHANGED <<github, binary, locals, requests>>

(* Restart, by the timer at once and by the handler half a second after its
   answer; a failure is only logged. *)
Restart(w) ==
    /\ stage[w] = "restart"
    /\ \/ /\ Replaced
          /\ UNCHANGED failures
       \/ /\ Proceed(w, "restart", "idle") /\ Failure
          /\ UNCHANGED <<github, binary, running, holder, locals, requests>>

(* systemd starts the agent again after a crash (Restart=on-failure). *)
Crash == Failure /\ Replaced

-----------------------------------------------------------------------------
UpdateStep(w) == Check(w) \/ Refetch(w) \/ Download(w) \/ Restart(w)

UpdaterNext ==
    \/ \E release \in Catalog : Publish(release)
    \/ \E i \in 1 .. Len(releases) : Upload(i) \/ Withdraw(i)
    \/ Tick
    \/ \E w \in Requests, chan \in Channels, forced \in Forces : Apply(w, chan, forced)
    \/ \E w \in Workers : UpdateStep(w)
    \/ Crash

UpdaterSpec == UpdaterInit /\ [][UpdaterNext]_updaterVars

(* The timer ticks, commands and queries have time limits. *)
FairUpdaterSpec ==
    UpdaterSpec /\ WF_updaterVars(Tick) /\ \A w \in Workers : WF_updaterVars(UpdateStep(w))

-----------------------------------------------------------------------------
(* Whatever the daily check and the requests do at once, forced or not, the
   binary is only replaced by a newer one (config.md:142, "installs newer
   releases"). *)
NeverBack == [][binary' # binary => UpdateAvailable(binary, binary')]_updaterVars

(* Install without force replaces the agent that runs by a newer one
   (config.md:142), although it asks GitHub twice. *)
NewerOnly ==
    [][\A w \in Workers :
          stage[w] = "download" /\ stage'[w] = "restart" /\ ~force[w] =>
              UpdateAvailable(running, binary')]_updaterVars

(* A request for the stable channel installs no pre-release, whatever channel
   is configured (config.md:143, api-reference.md:352). *)
StableIsStable ==
    \A w \in Workers : stage[w] = "download" /\ channel[w] = "stable" => ~found[w].pre

(* The mutex is never lost and the daily check goes on: once publications and
   faults cease, the agent runs what its channel offers, or something newer. *)
UpToDate ==
    <>[](Candidates(Channel) # {} => ~UpdateAvailable(running, Offered(Channel).tag))

(* The newest release of the channel ends up running (config.md:142). *)
NewestRuns ==
    <>[](\A i \in Candidates(Channel) : ~UpdateAvailable(running, releases[i].tag))
=============================================================================
