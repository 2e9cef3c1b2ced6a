---------------------------- MODULE LegacyAgent ----------------------------
(***************************************************************************)
(* The Python agent (src/agent), which the bot drives with the same        *)
(* requests as agent-v2.  Its handlers are coroutines of one event loop,   *)
(* but after the body has been read none of them awaits anything: wg-quick *)
(* and birdc are run with the loop standing still.  So one request is      *)
(* handled at a time, and what can go wrong lies between the commands of a *)
(* handler: one hangs for longer than simple_run waits and raises, one     *)
(* fails and is ignored, or the agent dies and leaves the rest undone.     *)
(*                                                                         *)
(* A WireGuard file is known by its endpoint.  open(..., "w") empties the  *)
(* file first: after a crash it may be "torn".                             *)
(***************************************************************************)
EXTENDS Naturals, FiniteSets

CONSTANTS
  ASNs,
  MaxPeers,     \* MAX_PEERS, 0 for no limit
  Open,         \* OPEN
  Workers,      \* max_workers of the recovery's thread pool
  ServerURL,    \* whether SERVER_URL is set: the example configuration leaves it empty
  MaxFaults,    \* bound of the model: commands that fail or hang
  MaxCrashes,   \* bound of the model: deaths of the agent or its container
  None

ASSUME LegacyAssumption ==
  /\ IsFiniteSet(ASNs) /\ None \notin ASNs
  /\ MaxPeers \in Nat /\ Open \in BOOLEAN /\ Workers \in Nat \ {0}
  /\ ServerURL \in BOOLEAN
  /\ MaxFaults \in Nat /\ MaxCrashes \in Nat

VARIABLES
  wg,        \* [ASNs -> what /etc/wireguard/dn42-<asn>.conf says]
  bird,      \* [ASNs -> what /etc/bird/dn42_peers/<asn>.conf says]
  iface,     \* [ASNs -> the configuration the interface came up with]
  sessions,  \* the ASNs whose sessions bird runs
  pc,        \* where the agent is: "boot", "recovery", "idle" or in a handler
  request,   \* the request being handled
  wgError,   \* wg_error of /restart
  rec,       \* [ASNs -> where _up of the recovery is]
  failures,  \* dns_failures
  answer,    \* the last answer
  faults, crashes,   \* counters for the bounds
  cut,       \* (observed) ASNs a crash found in the middle of a handler or a rewrite
  misled,    \* (observed) ASNs a wg-quick or birdc did not do its work for
  unreported, lost   \* (observed) endpoints removed: not yet, and never reported

observed == <<cut, misled, unreported, lost>>
vars == <<wg, bird, iface, sessions, pc, request, wgError, rec, failures, answer, faults, crashes,
          cut, misled, unreported, lost>>

Endpoints == {"ip", "host", "none"}
Ops == {"peer", "remove", "restart"}
NoRequest == [op |-> None, asn |-> None, endpoint |-> "none"]

HasWg(a) == wg[a] # "absent"
HasBird(a) == bird[a] # "absent"

-----------------------------------------------------------------------------
(* Commands.                                                               *)

UpUnchecked(a) == {<<wg[a], "ok">>}   \* mutation: a file that does not exist comes up

(* wg-quick up: the state of the interface and the output.  On an error it *)
(* removes the interface and prints "ip link delete dev"; an interface that*)
(* exists or a file that does not is refused without it.  The commands of  *)
(* a wg-quick that was killed may have left half an interface.             *)
UpOutcomes(a) ==
  IF wg[a] = "absent" \/ iface[a] # "down" THEN {<<iface[a], "refused">>}
  ELSE {<<wg[a], "ok">>}
       \cup (IF faults < MaxFaults
             THEN {<<"down", "deleted">>, <<"down", "timeout">>, <<"half", "timeout">>}
                  \cup (IF wg[a] = "host" THEN {<<"down", "dns">>} ELSE {})
             ELSE {})

DownOutcomes(a) ==
  IF wg[a] = "absent" \/ iface[a] = "down" THEN {<<iface[a], "refused">>}
  ELSE {<<"down", "ok">>}
       \cup (IF faults < MaxFaults
             THEN {<<iface[a], "failed">>, <<iface[a], "timeout">>, <<"down", "timeout">>}
             ELSE {})

(* What a command did, and whether it let its caller down.                 *)
Run(a, r) ==
  /\ iface' = [iface EXCEPT ![a] = r[1]]
  /\ IF r[2] \in {"ok", "refused"}
     THEN UNCHANGED <<faults, misled>>
     ELSE faults' = faults + 1 /\ misled' = misled \cup {a}

Reply(status) ==
  /\ pc' = "idle"
  /\ answer' = [op |-> request.op, asn |-> request.asn, status |-> status]
  /\ request' = NoRequest
  /\ wgError' = FALSE

Goto(place) == pc' = place /\ UNCHANGED <<request, answer, wgError>>

-----------------------------------------------------------------------------
(* /peer, /remove and /restart.                                            *)

Receive(op, a, e) ==
  /\ pc = "idle"
  /\ request' = [op |-> op, asn |-> a, endpoint |-> e]
  /\ pc' = CASE op = "peer" -> "check" [] op = "remove" -> "down" [] OTHER -> "bounce"
  /\ UNCHANGED <<wg, bird, iface, sessions, wgError, rec, failures, answer, faults, crashes, observed>>

CurrentPeerNumWg == Cardinality({a \in ASNs : HasWg(a)})   \* mutation: no comparison

(* get_current_peer_num: the number of peers, if there are as many files   *)
(* in one directory as in the other.                                       *)
CurrentPeerNum ==
  LET wgConfs == {a \in ASNs : HasWg(a)}
      birdConfs == {a \in ASNs : HasBird(a)} IN
  IF Cardinality(wgConfs) # Cardinality(birdConfs) THEN None ELSE Cardinality(wgConfs)

FullTooLate(n) == (MaxPeers # 0 /\ n > MaxPeers) \/ ~Open   \* mutation: off by one

Full(n) == (MaxPeers # 0 /\ n >= MaxPeers) \/ ~Open

Check ==
  /\ pc = "check"
  /\ IF CurrentPeerNum = None THEN Reply(500)
     ELSE IF ~(HasWg(request.asn) /\ HasBird(request.asn)) /\ Full(CurrentPeerNum) THEN Reply(503)
     ELSE Goto("write_wg")
  /\ UNCHANGED <<wg, bird, iface, sessions, rec, failures, faults, crashes, observed>>

WriteWg ==
  /\ pc = "write_wg"
  /\ wg' = [wg EXCEPT ![request.asn] = request.endpoint]
  /\ Goto("write_bird")
  /\ UNCHANGED <<bird, iface, sessions, rec, failures, faults, crashes, observed>>

WriteBird ==
  /\ pc = "write_bird"
  /\ bird' = [bird EXCEPT ![request.asn] = "whole"]
  /\ Goto("up")
  /\ UNCHANGED <<wg, iface, sessions, rec, failures, faults, crashes, observed>>

(* The output is looked at and not used.                                   *)
PeerUp ==
  /\ pc = "up"
  /\ \E r \in UpOutcomes(request.asn) : Run(request.asn, r)
  /\ Goto("configure")
  /\ UNCHANGED <<wg, bird, sessions, rec, failures, crashes, cut, unreported, lost>>

RemoveDownLate ==   \* mutation: the file goes before the interface
  /\ pc = "down"
  /\ wg' = [wg EXCEPT ![request.asn] = "absent"]
  /\ \E r \in DownOutcomes(request.asn) :
       /\ Run(request.asn, r)
       /\ IF r[2] = "timeout" THEN Reply(500) ELSE Goto("delete_wg")
  /\ UNCHANGED <<bird, sessions, rec, failures, crashes, cut, unreported, lost>>

(* wg-quick down of /remove is not guarded: when it hangs, the request ends*)
(* with nothing removed.  When it fails, the removal goes on.              *)
RemoveDown ==
  /\ pc = "down"
  /\ \E r \in DownOutcomes(request.asn) :
       /\ Run(request.asn, r)
       /\ IF r[2] = "timeout" THEN Reply(500) ELSE Goto("delete_wg")
  /\ UNCHANGED <<wg, bird, sessions, rec, failures, crashes, cut, unreported, lost>>

DeleteWg ==
  /\ pc = "delete_wg"
  /\ wg' = [wg EXCEPT ![request.asn] = "absent"]
  /\ Goto("delete_bird")
  /\ UNCHANGED <<bird, iface, sessions, rec, failures, faults, crashes, observed>>

DeleteBird ==
  /\ pc = "delete_bird"
  /\ bird' = [bird EXCEPT ![request.asn] = "absent"]
  /\ Goto("configure")
  /\ UNCHANGED <<wg, iface, sessions, rec, failures, faults, crashes, observed>>

(* "birdc c" and vnstat, the ends of /peer and /remove.  Nobody looks at   *)
(* what birdc says or at its status: when it fails, bird keeps the sessions*)
(* it has and the answer is 200.  When one of the two hangs, birdc before  *)
(* or after bird has read the files, the request fails.                    *)
Configured == {a \in ASNs : bird[a] = "whole"}

Configure ==
  /\ pc = "configure"
  /\ \/ sessions' = Configured /\ Reply(200) /\ UNCHANGED <<faults, misled>>
     \/ /\ faults < MaxFaults
        /\ faults' = faults + 1
        /\ misled' = misled \cup ASNs
        /\ \/ UNCHANGED sessions /\ Reply(200)
           \/ sessions' \in {sessions, Configured} /\ Reply(500)
  /\ UNCHANGED <<wg, bird, iface, rec, failures, crashes, cut, unreported, lost>>

RestartInPlace ==   \* mutation: /restart only runs wg-quick up
  /\ pc = "bounce"
  /\ Goto("reup")
  /\ UNCHANGED <<wg, bird, iface, sessions, rec, failures, faults, crashes, observed>>

RestartDown ==
  /\ pc = "bounce"
  /\ \E r \in DownOutcomes(request.asn) : Run(request.asn, r)
  /\ Goto("reup")
  /\ UNCHANGED <<wg, bird, sessions, rec, failures, crashes, cut, unreported, lost>>

IsWgError(output) == output \in {"deleted", "dns"}

RestartUp ==
  /\ pc = "reup"
  /\ \E r \in UpOutcomes(request.asn) :
       /\ Run(request.asn, r)
       /\ wgError' = IsWgError(r[2])
  /\ pc' = "restart_bird"
  /\ UNCHANGED <<wg, bird, sessions, request, rec, failures, answer, crashes, cut, unreported, lost>>

BirdVerdict(unknown) ==
  IF wgError THEN IF unknown THEN 404 ELSE 500
  ELSE IF unknown THEN 500 ELSE 200

(* birdc says "syntax error" of a session it does not know, and only both  *)
(* of them saying so is an error: a birdc that fails in any other way (bird*)
(* cannot be reached) counts as one that has restarted its session.  When  *)
(* one hangs, the request fails.                                           *)
RestartBird ==
  /\ pc = "restart_bird"
  /\ \/ /\ Reply(BirdVerdict(request.asn \notin sessions))
        /\ UNCHANGED <<faults, misled>>
     \/ /\ faults < MaxFaults
        /\ faults' = faults + 1
        /\ misled' = misled \cup {request.asn}
        /\ Reply(BirdVerdict(FALSE)) \/ Reply(500)
  /\ UNCHANGED <<wg, bird, iface, sessions, rec, failures, crashes, cut, unreported, lost>>

-----------------------------------------------------------------------------
(* ensure_wg_interfaces_up, before the first request is served.            *)

Boot ==
  /\ pc = "boot"
  /\ rec' = [a \in ASNs |-> IF HasWg(a) /\ iface[a] = "down" THEN "waiting" ELSE "done"]
  /\ failures' = {}
  /\ Goto("recovery")
  /\ UNCHANGED <<wg, bird, iface, sessions, faults, crashes, observed>>

Working == {a \in ASNs : rec[a] \notin {"waiting", "done"}}

StartUp(a) ==
  /\ pc = "recovery" /\ rec[a] = "waiting"
  /\ Cardinality(Working) < Workers
  /\ rec' = [rec EXCEPT ![a] = "first"]
  /\ UNCHANGED <<wg, bird, iface, sessions, pc, request, wgError, failures, answer, faults, crashes,
                 observed>>

(* A name that does not resolve, of an interface that is not up after all, *)
(* costs the file its endpoint.  An exception ends the thread.             *)
FirstUp(a) ==
  /\ pc = "recovery" /\ rec[a] = "first"
  /\ \E r \in UpOutcomes(a) :
       /\ Run(a, r)
       /\ rec' = [rec EXCEPT ![a] = IF r[2] = "dns" /\ wg[a] = "host" THEN "strip" ELSE "done"]
  /\ UNCHANGED <<wg, bird, sessions, pc, request, wgError, failures, answer, crashes, cut, unreported,
                 lost>>

RemoveEndpoint(a) ==
  /\ pc = "recovery" /\ rec[a] = "strip"
  /\ wg' = [wg EXCEPT ![a] = "none"]
  /\ unreported' = unreported \cup {a}
  /\ rec' = [rec EXCEPT ![a] = "second"]
  /\ UNCHANGED <<bird, iface, sessions, pc, request, wgError, failures, answer, faults, crashes, cut,
                 misled, lost>>

SecondUpIsEnough(a) ==   \* mutation: an interface that comes up is not reported
  /\ pc = "recovery" /\ rec[a] = "second"
  /\ \E r \in UpOutcomes(a) :
       /\ Run(a, r)
       /\ failures' = IF r[2] = "ok" THEN failures ELSE failures \cup {a}
  /\ rec' = [rec EXCEPT ![a] = "done"]
  /\ UNCHANGED <<wg, bird, sessions, pc, request, wgError, answer, crashes, cut, unreported, lost>>

SecondUp(a) ==
  /\ pc = "recovery" /\ rec[a] = "second"
  /\ \E r \in UpOutcomes(a) : Run(a, r)
  /\ failures' = failures \cup {a}
  /\ rec' = [rec EXCEPT ![a] = "done"]
  /\ UNCHANGED <<wg, bird, sessions, pc, request, wgError, answer, crashes, cut, unreported, lost>>

NotifyServerPatiently ==   \* mutation: the agent does not serve while a name fails
  /\ pc = "recovery"
  /\ \A a \in ASNs : rec[a] = "done"
  /\ failures = {}
  /\ Goto("idle")
  /\ UNCHANGED <<wg, bird, iface, sessions, rec, failures, faults, crashes, observed>>

(* One POST to the bot, whose failure is ignored - and none at all without *)
(* SERVER_URL or anything to tell; then the agent serves.                  *)
NotifyServer ==
  /\ pc = "recovery"
  /\ \A a \in ASNs : rec[a] = "done"
  /\ \/ /\ ~ServerURL \/ failures = {}
        /\ UNCHANGED <<unreported, lost, faults>>
     \/ /\ ServerURL /\ failures # {}
        /\ unreported' = unreported \ failures
        /\ \/ UNCHANGED <<lost, faults>>
           \/ /\ faults < MaxFaults
              /\ faults' = faults + 1
              /\ lost' = lost \cup failures
  /\ failures' = {}
  /\ Goto("idle")
  /\ UNCHANGED <<wg, bird, iface, sessions, rec, crashes, cut, misled>>

-----------------------------------------------------------------------------

(* The agent dies, alone or with its container: then the interfaces are    *)
(* gone, too, and bird starts from the files.  A file that was being       *)
(* written is empty or as it was.                                          *)
Crash ==
  /\ crashes < MaxCrashes
  /\ crashes' = crashes + 1
  /\ pc' = "boot"
  /\ request' = NoRequest /\ wgError' = FALSE
  /\ rec' = [a \in ASNs |-> "done"] /\ failures' = {}
  /\ cut' = cut \cup ({request.asn} \ {None}) \cup {a \in ASNs : rec[a] = "strip"}
  /\ lost' = lost \cup unreported
  /\ unreported' = {}
  /\ \/ wg' = wg
     \/ pc = "write_wg" /\ wg' = [wg EXCEPT ![request.asn] = "torn"]
     \/ \E a \in ASNs : rec[a] = "strip" /\ wg' = [wg EXCEPT ![a] = "torn"]
  /\ \/ bird' = bird
     \/ pc = "write_bird" /\ bird' = [bird EXCEPT ![request.asn] = "torn"]
  /\ \/ UNCHANGED <<iface, sessions>>
     \/ iface' = [a \in ASNs |-> "down"] /\ sessions' = {a \in ASNs : bird'[a] = "whole"}
  /\ UNCHANGED <<answer, faults, misled>>

Init ==
  /\ wg \in [ASNs -> {"absent"} \cup Endpoints]
  /\ MaxPeers # 0 => Cardinality({a \in ASNs : HasWg(a)}) <= MaxPeers
  /\ bird = [a \in ASNs |-> IF HasWg(a) THEN "whole" ELSE "absent"]
  /\ iface = [a \in ASNs |-> "down"]
  /\ sessions = Configured
  /\ pc = "boot"
  /\ request = NoRequest /\ wgError = FALSE
  /\ rec = [a \in ASNs |-> "done"] /\ failures = {}
  /\ answer = [op |-> None, asn |-> None, status |-> 0]
  /\ faults = 0 /\ crashes = 0
  /\ cut = {} /\ misled = {} /\ unreported = {} /\ lost = {}

Step ==
  \/ Check \/ WriteWg \/ WriteBird \/ PeerUp
  \/ RemoveDown \/ DeleteWg \/ DeleteBird \/ Configure
  \/ RestartDown \/ RestartUp \/ RestartBird
  \/ Boot \/ NotifyServer
  \/ \E a \in ASNs : StartUp(a) \/ FirstUp(a) \/ RemoveEndpoint(a) \/ SecondUp(a)

Next ==
  \/ Step \/ Crash
  \/ \E a \in ASNs : Receive("remove", a, "none") \/ Receive("restart", a, "none")
                     \/ \E e \in Endpoints : Receive("peer", a, e)

(* Every command and the POST have a time limit, so the agent goes on.     *)
Spec == Init /\ [][Next]_vars /\ WF_vars(Step)

-----------------------------------------------------------------------------
(* What the handlers that change nothing say.                              *)

(* /info of an ASN.                                                        *)
Info(a) ==
  CASE ~HasWg(a) /\ ~HasBird(a) -> "not found"
    [] HasWg(a) /\ ~HasBird(a)  -> "wg only"
    [] ~HasWg(a) /\ HasBird(a)  -> "bird only"
    [] OTHER -> IF wg[a] = "torn" THEN "wg error"
                ELSE IF bird[a] = "torn" THEN "no session"
                ELSE IF a \notin sessions THEN "bird error"
                ELSE "ok"

ErrorListOfWg ==   \* mutation: only the WireGuard directory is read
  {a \in ASNs : HasWg(a) /\ (~HasBird(a) \/ iface[a] \in {"down", "half"})}

(* /errorlist: the ASNs with files of only one kind, with an interface that*)
(* is down or was never set up, or with a session bird does not run.       *)
ErrorList ==
  {a \in ASNs : \/ HasWg(a) # HasBird(a)
                \/ HasWg(a) /\ iface[a] \in {"down", "half"}
                \/ bird[a] = "whole" /\ a \notin sessions}

-----------------------------------------------------------------------------
(* Properties.                                                             *)

Requests == [op : Ops \cup {None}, asn : ASNs \cup {None}, endpoint : Endpoints]
Answers == [op : Ops \cup {None}, asn : ASNs \cup {None}, status : {0, 200, 404, 500, 503}]

(* Types.                                                                  *)
TypeOK ==
  /\ wg \in [ASNs -> {"absent", "torn"} \cup Endpoints]
  /\ bird \in [ASNs -> {"absent", "torn", "whole"}]
  /\ iface \in [ASNs -> {"down", "half", "torn"} \cup Endpoints]
  /\ sessions \subseteq ASNs
  /\ pc \in {"boot", "recovery", "idle", "check", "write_wg", "write_bird", "up", "down", "delete_wg",
             "delete_bird", "configure", "bounce", "reup", "restart_bird"}
  /\ request \in Requests
  /\ wgError \in BOOLEAN
  /\ rec \in [ASNs -> {"waiting", "first", "strip", "second", "done"}]
  /\ failures \subseteq ASNs
  /\ answer \in Answers
  /\ faults \in 0..MaxFaults /\ crashes \in 0..MaxCrashes
  /\ cut \subseteq ASNs /\ misled \subseteq ASNs /\ unreported \subseteq ASNs /\ lost \subseteq ASNs

(* MAX_PEERS is never exceeded, whatever crashes and whatever the files    *)
(* they leave do to the count.                                             *)
CapacityKept == MaxPeers # 0 => Cardinality({a \in ASNs : HasWg(a)}) <= MaxPeers

(* A peer is half configured only while it is being worked on or after a   *)
(* crash in the middle: no command that hangs and no order of requests     *)
(* gets there.  (One half peer makes /pre_peer and /peer refuse everybody.)*)
MismatchHasCause ==
  \A a \in ASNs : HasWg(a) # HasBird(a) => a \in cut \/ a = request.asn

(* The number /pre_peer shows is that of the complete peers.  It takes     *)
(* crashes in the middle of two ASNs for the comparison of numbers, where  *)
(* the ASNs should be compared, to let a mismatch through.                 *)
CountIsHonest ==
  pc = "idle" /\ CurrentPeerNum # None /\ Cardinality(cut) < 2 =>
    CurrentPeerNum = Cardinality({a \in ASNs : HasWg(a) /\ HasBird(a)})

(* A peer that /info cannot show is one /errorlist names (after a crash,   *)
(* an empty file may escape it).                                           *)
ErrorListCoversInfo ==
  pc = "idle" => \A a \in ASNs \ cut : Info(a) \notin {"ok", "not found"} => a \in ErrorList

(* After 200 of /remove nothing of the peer is left, after 200 of /peer its*)
(* files are there and bird runs its sessions, and after 200 of /restart   *)
(* the interface runs the file and bird knows the sessions.  Excepted are  *)
(* an ASN a wg-quick or birdc has failed or hung for, in this request or in*)
(* an earlier one (a birdc that fails is not noticed, and it stands for all*)
(* ASNs when it was to read the files), and one a crash has cut short.     *)
Holds(x) ==
  CASE x.op = "remove"  -> /\ ~HasWg(x.asn) /\ ~HasBird(x.asn)
                           /\ iface[x.asn] = "down" /\ x.asn \notin sessions
    [] x.op = "restart" -> iface[x.asn] = wg[x.asn] /\ x.asn \in sessions
    [] OTHER            -> HasWg(x.asn) /\ HasBird(x.asn) /\ x.asn \in sessions

SuccessIsTrueUnlessFault ==
  [][pc # "idle" /\ answer'.status = 200 /\ pc' = "idle" /\ request.asn \notin misled' \cup cut =>
       pc = "recovery" \/ Holds(answer)' ]_vars

(* With SERVER_URL, a peer that has lost its endpoint is reported before   *)
(* anything is served, or the report got lost in a crash or with the bot:  *)
(* it is not forgotten.  (Without SERVER_URL nobody is told of any.)       *)
StrippedIsReported == ServerURL /\ unreported # {} => pc = "recovery"

(* The agent always comes back to serving.                                 *)
Serves == pc # "idle" ~> pc = "idle"

(* "The tunnel and Bird sessions have been restarted." (restart.py), of a  *)
(* peer whose sessions bird runs.                                          *)
RestartIsTrue ==
  [][answer'.op = "restart" /\ answer'.status = 200 /\ pc = "restart_bird" /\ answer'.asn \in sessions =>
       iface'[answer'.asn] = wg'[answer'.asn]]_vars

=============================================================================
