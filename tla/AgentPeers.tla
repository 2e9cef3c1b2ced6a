----------------------------- MODULE AgentPeers -----------------------------
(***************************************************************************)
(* Peer management on one agent-v2 node: the /peer, /remove and /restart   *)
(* handlers, each served by a goroutine of its own and none of them        *)
(* holding a lock, the files and the daemons they drive, and the recovery  *)
(* pass that runs at boot before the HTTP server starts.                   *)
(*                                                                         *)
(* A peer is one ASN.  Its WireGuard file is known by the kind of endpoint *)
(* it carries and its BIRD file by the sessions it declares; the rest of   *)
(* the text never influences a decision of the agent.  os.WriteFile first  *)
(* truncates, so a file that is being written is "empty" for a while.      *)
(***************************************************************************)
EXTENDS Integers, FiniteSets

CONSTANTS
    ASN,            \* autonomous systems that may peer
    Req,            \* goroutines serving management requests
    Requests,       \* the kinds of request the bot sends
    PeerInfos,      \* the /peer bodies the bot may send
    Initial,        \* ASNs configured when the node starts
    InitialInfo,    \* the body they were configured with
    MaxPeers,       \* max_peers in config.yaml, 0 = unlimited
    Open,           \* open in config.yaml
    ServerURL,      \* TRUE when server_url is set
    RecoverySlots,  \* capacity of the recovery semaphore
    Faults,         \* environment faults that may happen
    MaxCrashes      \* bound on agent crashes and host reboots

Ops       == {"peer", "remove", "restart"}
Endpoints == {"none", "addr", "host"}
WGFiles   == {"absent", "empty"} \union Endpoints
BirdFiles == {"absent", "empty", "v4", "v6", "v6+v4", "mp4", "mp6"}
Tunnels   == {"down", "partial", "empty"} \union Endpoints
FaultKinds == {"write", "remove", "wg", "bird", "dns", "post", "crash", "reboot"}
PeerInfo  == [endpoint : Endpoints,
              channel  : {"v6 only", "v4 only", "v6 & v4"},
              mpbgp    : {"v6", "v4", "none", "unknown"}]

ASSUME ASNAssumption == IsFiniteSet(ASN) /\ Initial \subseteq ASN
ASSUME ReqAssumption == IsFiniteSet(Req) /\ Req # {} /\ Requests \subseteq Ops
ASSUME InfoAssumption == PeerInfos \subseteq PeerInfo /\ PeerInfos # {} /\ InitialInfo \in PeerInfo
ASSUME LimitAssumption ==
    /\ MaxPeers \in Nat /\ RecoverySlots \in Nat \ {0} /\ MaxCrashes \in Nat
    /\ MaxPeers # 0 => Cardinality(Initial) <= MaxPeers
ASSUME FlagAssumption ==
    /\ Open \in BOOLEAN /\ ServerURL \in BOOLEAN /\ Faults \subseteq FaultKinds

VARIABLES
    wgConf,     \* /etc/wireguard/dn42-<asn>.conf
    birdConf,   \* /etc/bird/dn42_peers/<asn>.conf
    tunnel,     \* what the kernel interface dn42-<asn> runs
    birdRun,    \* the peer file BIRD has loaded
    agent,      \* the agent process
    req,        \* one record per request goroutine
    rec,        \* progress of the recovery goroutine of each ASN
    dnsFailed,  \* dnsFailures of the current recovery pass
    crashes,    \* crashes so far (bound only)
    (***********************************************************************)
    (* Observation only: what the environment or an overlap did to an ASN. *)
    (***********************************************************************)
    raced,      \* <<asn, op>>: a /remove of the ASN overlapped an op
    solo,       \* goroutines no other request on the same ASN overlapped
    fileFault,  \* a write, a removal or a crash left its files half done
    cmdFault,   \* wg-quick, DNS or BIRD let a handler down
    unreported, \* endpoint removed, server not told yet
    reported,   \* ASNs of the last notification
    lost        \* notifications a failed POST or a dead agent lost

files     == <<wgConf, birdConf>>
daemons   == <<tunnel, birdRun>>
recovery  == <<rec, dnsFailed, unreported, reported, lost>>
overlaps  == <<raced, solo>>
history   == <<overlaps, fileFault, cmdFault>>
vars == <<wgConf, birdConf, tunnel, birdRun, agent, req, rec, dnsFailed,
          crashes, raced, solo, fileFault, cmdFault, unreported, reported, lost>>

PeerPCs    == {"count_wg", "count_bird", "stat_wg", "stat_bird", "open_wg",
               "write_wg", "open_bird", "write_bird", "wg_up", "configure"}
RemovePCs  == {"down", "rm_wg", "rm_bird", "configure"}
RestartPCs == {"down", "up", "bounce_v4", "bounce_v6"}
PCs        == {"idle", "done"} \union PeerPCs \union RemovePCs \union RestartPCs
Statuses   == {0, 200, 404, 500, 503}

(* What a handler remembers between two of its calls: the WireGuard file
   exists, wg-quick cleaned up after an error, BIRD knows the v4 session. *)
Notes == {"wg exists", "wg error", "v4 known"}

NoRequest == [pc |-> "idle", op |-> "none", asn |-> "none",
              info |-> InitialInfo, n |-> 0, notes |-> {}, status |-> 0]

OptOp      == Ops \union {"none"}
OptASN     == ASN \union {"none"}

Request ==
    [pc : PCs, op : OptOp, asn : OptASN, info : PeerInfo,
     n : Nat, notes : SUBSET Notes, status : Statuses]

InFlight(r) == req[r].pc \notin {"idle", "done"}

HasWG(a)   == wgConf[a] # "absent"
HasBird(a) == birdConf[a] # "absent"

(* countPeers: the numbers of WireGuard and of BIRD peer files. *)
OthersCount == Cardinality({a \in ASN : HasWG(a)}) - 1  \* mutation: one file too few
WGCount == Cardinality({a \in ASN : HasWG(a)})
BirdCount == Cardinality({a \in ASN : HasBird(a)})

(* generateBirdConfig: one session per channel, one multiprotocol session,
   or an empty file when the combination is not known. *)
GenerateBirdConfig(info) ==
    CASE info.channel = "v6 only" -> "v6"
      [] info.channel = "v4 only" -> "v4"
      [] info.channel = "v6 & v4" /\ info.mpbgp = "v6"   -> "mp6"
      [] info.channel = "v6 & v4" /\ info.mpbgp = "v4"   -> "mp4"
      [] info.channel = "v6 & v4" /\ info.mpbgp = "none" -> "v6+v4"
      [] OTHER -> "empty"

(* The names DN42_<asn>_v4 and DN42_<asn>_v6 a loaded peer file defines. *)
Sessions(file) ==
    CASE file \in {"v4", "mp4"} -> {"v4"}
      [] file \in {"v6", "mp6"} -> {"v6"}
      [] file = "v6+v4"         -> {"v4", "v6"}
      [] OTHER                  -> {}

(***************************************************************************)
(* wg-quick, as the agent uses it.  It refuses an interface without a file *)
(* or one that exists already.  A name that does not resolve, or another   *)
(* error, makes it clean up ("ip link delete dev"), unless the 10 s limit  *)
(* of RunCommand or the client's disconnect kills it first: the interface  *)
(* may then stay behind, half made.                                        *)
(***************************************************************************)
UpOutcomes(conf, cur) ==
    IF conf = "absent" \/ cur # "down" THEN {<<cur, "refused">>}
    ELSE {<<conf, "ok">>}
         \union (IF conf = "host" /\ "dns" \in Faults
                 THEN {<<"down", "dns">>, <<"partial", "dns killed">>} ELSE {})
         \union (IF "wg" \in Faults
                 THEN {<<"down", "failed">>, <<"down", "killed">>, <<"partial", "killed">>}
                 ELSE {})

DownOutcomes(conf, cur) ==
    IF conf = "absent" \/ cur = "down" THEN {<<cur, "refused">>}
    ELSE {<<"down", "ok">>}
         \union (IF "wg" \in Faults THEN {<<cur, "killed">>} ELSE {})

Failed(outcome) == outcome \in {"dns", "dns killed", "failed", "killed"}

(* The recovery has a remedy for a name that does not resolve, if wg-quick
   lives to say so and to clean up. *)
LetDown(outcome) == Failed(outcome) /\ outcome # "dns"

-----------------------------------------------------------------------------
TypeOK ==
    /\ wgConf \in [ASN -> WGFiles]
    /\ birdConf \in [ASN -> BirdFiles]
    /\ tunnel \in [ASN -> Tunnels]
    /\ birdRun \in [ASN -> BirdFiles]
    /\ agent \in {"stopped", "recovering", "serving"}
    /\ req \in [Req -> Request]
    /\ rec \in [ASN -> {"idle", "todo", "up", "strip", "rewrite", "again", "done"}]
    /\ dnsFailed \subseteq ASN /\ crashes \in 0 .. MaxCrashes
    /\ raced \subseteq ASN \X Ops /\ solo \subseteq Req
    /\ fileFault \subseteq ASN /\ cmdFault \subseteq ASN
    /\ unreported \subseteq ASN /\ reported \subseteq ASN /\ lost \subseteq ASN

(* The host has booted: BIRD has loaded the files that exist, no tunnel is
   up (nothing enables wg-quick@ units) and the agent is not started. *)
Init ==
    /\ wgConf = [a \in ASN |-> IF a \in Initial THEN InitialInfo.endpoint ELSE "absent"]
    /\ birdConf = [a \in ASN |-> IF a \in Initial THEN GenerateBirdConfig(InitialInfo)
                                                 ELSE "absent"]
    /\ tunnel = [a \in ASN |-> "down"]
    /\ birdRun = birdConf
    /\ agent = "stopped"
    /\ req = [r \in Req |-> NoRequest]
    /\ rec = [a \in ASN |-> "idle"]
    /\ dnsFailed = {} /\ crashes = 0
    /\ raced = {} /\ solo = {} /\ fileFault = {} /\ cmdFault = {}
    /\ unreported = {} /\ reported = {} /\ lost = {}

-----------------------------------------------------------------------------
(* A request reaches a free goroutine.  Overlaps on one ASN are recorded. *)
Start(r, op, a, info) ==
    LET rivals  == {s \in Req \ {r} : InFlight(s) /\ req[s].asn = a}
        clash   == {o \in Ops : \E s \in rivals :
                       \/ op = "remove" /\ o # "remove" /\ req[s].op = o
                       \/ op = o /\ o # "remove" /\ req[s].op = "remove"}
        firstPC == IF op = "peer" THEN "count_wg" ELSE "down"
    IN  /\ agent = "serving"
        /\ ~InFlight(r)
        /\ req' = [req EXCEPT ![r] =
                     [NoRequest EXCEPT !.pc = firstPC, !.op = op, !.asn = a,
                                       !.info = IF op = "peer" THEN info ELSE InitialInfo]]
        /\ solo' = (solo \ {s \in Req : s = r \/ req[s].asn = a})
                      \union (IF rivals = {} THEN {r} ELSE {})
        /\ raced' = raced \union ({a} \X clash)
        /\ UNCHANGED <<files, daemons, agent, recovery, crashes, fileFault, cmdFault>>

At(r, op, pc) == req[r].op = op /\ req[r].pc = pc

Goto(r, pc) == req' = [req EXCEPT ![r].pc = pc]

Reply(r, code) ==
    req' = [req EXCEPT ![r] = [@ EXCEPT !.pc = "done", !.status = code, !.n = 0,
                                        !.notes = {}]]

(* PeerHandler: getPeerNum lists the WireGuard directory ... *)
CountWG(r) ==
    /\ At(r, "peer", "count_wg")
    /\ req' = [req EXCEPT ![r] = [@ EXCEPT !.pc = "count_bird", !.n = WGCount]]
    /\ UNCHANGED <<files, daemons, agent, recovery, crashes, history>>

(* ... then the BIRD directory; different counts refuse every request. *)
CountBird(r) ==
    /\ At(r, "peer", "count_bird")
    /\ IF req[r].n # BirdCount THEN Reply(r, 500) ELSE Goto(r, "stat_wg")
    /\ UNCHANGED <<files, daemons, agent, recovery, crashes, history>>

StatWG(r) ==
    /\ At(r, "peer", "stat_wg")
    /\ req' = [req EXCEPT ![r] = [@ EXCEPT !.pc = "stat_bird",
                                        !.notes = IF HasWG(req[r].asn) THEN {"wg exists"} ELSE {}]]
    /\ UNCHANGED <<files, daemons, agent, recovery, crashes, history>>

OffByOneMayAdd(n) == Open /\ ~(MaxPeers # 0 /\ n > MaxPeers)  \* mutation

(* An existing peer may always be updated; a new one needs an open node
   and a count, taken earlier, below the limit. *)
MayAdd(n) == Open /\ ~(MaxPeers # 0 /\ n >= MaxPeers)

StatBird(r) ==
    /\ At(r, "peer", "stat_bird")
    /\ IF "wg exists" \in req[r].notes \/ HasBird(req[r].asn) \/ MayAdd(req[r].n)
       THEN req' = [req EXCEPT ![r] = [@ EXCEPT !.pc = "open_wg", !.n = 0, !.notes = {}]]
       ELSE Reply(r, 503)
    /\ UNCHANGED <<files, daemons, agent, recovery, crashes, history>>

(* os.WriteFile truncates, then writes; either half may fail. *)
OpenWG(r) ==
    LET a == req[r].asn IN
    /\ At(r, "peer", "open_wg")
    /\ \/ /\ wgConf' = [wgConf EXCEPT ![a] = "empty"]
          /\ Goto(r, "write_wg")
          /\ UNCHANGED fileFault
       \/ /\ "write" \in Faults
          /\ Reply(r, 500)
          /\ fileFault' = fileFault \union {a}
          /\ UNCHANGED wgConf
    /\ UNCHANGED <<birdConf, daemons, agent, recovery, crashes, overlaps, cmdFault>>

WriteWGOnly(r) ==  \* mutation: the BIRD file is never written
    /\ At(r, "peer", "write_wg")
    /\ wgConf' = [wgConf EXCEPT ![req[r].asn] = req[r].info.endpoint]
    /\ Goto(r, "wg_up")
    /\ UNCHANGED <<birdConf, daemons, agent, recovery, crashes, history>>

WriteWG(r) ==
    LET a == req[r].asn IN
    /\ At(r, "peer", "write_wg")
    /\ \/ /\ wgConf' = [wgConf EXCEPT ![a] = req[r].info.endpoint]
          /\ Goto(r, "open_bird")
          /\ UNCHANGED fileFault
       \/ /\ "write" \in Faults
          /\ Reply(r, 500)
          /\ fileFault' = fileFault \union {a}
          /\ UNCHANGED wgConf
    /\ UNCHANGED <<birdConf, daemons, agent, recovery, crashes, overlaps, cmdFault>>

OpenBird(r) ==
    LET a == req[r].asn IN
    /\ At(r, "peer", "open_bird")
    /\ \/ /\ birdConf' = [birdConf EXCEPT ![a] = "empty"]
          /\ Goto(r, "write_bird")
          /\ UNCHANGED fileFault
       \/ /\ "write" \in Faults
          /\ Reply(r, 500)
          /\ fileFault' = fileFault \union {a}
          /\ UNCHANGED birdConf
    /\ UNCHANGED <<wgConf, daemons, agent, recovery, crashes, overlaps, cmdFault>>

WriteBird(r) ==
    LET a == req[r].asn IN
    /\ At(r, "peer", "write_bird")
    /\ \/ /\ birdConf' = [birdConf EXCEPT ![a] = GenerateBirdConfig(req[r].info)]
          /\ Goto(r, "wg_up")
          /\ UNCHANGED fileFault
       \/ /\ "write" \in Faults
          /\ Reply(r, 500)
          /\ fileFault' = fileFault \union {a}
          /\ UNCHANGED birdConf
    /\ UNCHANGED <<wgConf, daemons, agent, recovery, crashes, overlaps, cmdFault>>

(* wg-quick up; its result is ignored, so a running tunnel keeps running
   with the configuration it was started with. *)
PeerUp(r) ==
    LET a == req[r].asn IN
    /\ At(r, "peer", "wg_up")
    /\ \E out \in UpOutcomes(wgConf[a], tunnel[a]) :
          /\ tunnel' = [tunnel EXCEPT ![a] = out[1]]
          /\ cmdFault' = IF Failed(out[2]) THEN cmdFault \union {a} ELSE cmdFault
    /\ Goto(r, "configure")
    /\ UNCHANGED <<files, birdRun, agent, recovery, crashes, overlaps, fileFault>>

(* RemoveHandler: wg-quick down, two removals, all errors ignored. *)
RemoveDown(r) ==
    LET a == req[r].asn IN
    /\ At(r, "remove", "down")
    /\ \E out \in DownOutcomes(wgConf[a], tunnel[a]) :
          /\ tunnel' = [tunnel EXCEPT ![a] = out[1]]
          /\ cmdFault' = IF Failed(out[2]) THEN cmdFault \union {a} ELSE cmdFault
    /\ Goto(r, "rm_wg")
    /\ UNCHANGED <<files, birdRun, agent, recovery, crashes, overlaps, fileFault>>

RemoveWGOnly(r) ==  \* mutation: the BIRD file is left behind
    /\ At(r, "remove", "rm_wg")
    /\ wgConf' = [wgConf EXCEPT ![req[r].asn] = "absent"]
    /\ Goto(r, "configure")
    /\ UNCHANGED <<birdConf, daemons, agent, recovery, crashes, history>>

RemoveWG(r) ==
    LET a == req[r].asn IN
    /\ At(r, "remove", "rm_wg")
    /\ \/ /\ wgConf' = [wgConf EXCEPT ![a] = "absent"]
          /\ UNCHANGED fileFault
       \/ /\ "remove" \in Faults
          /\ fileFault' = fileFault \union {a}
          /\ UNCHANGED wgConf
    /\ Goto(r, "rm_bird")
    /\ UNCHANGED <<birdConf, daemons, agent, recovery, crashes, overlaps, cmdFault>>

RemoveBird(r) ==
    LET a == req[r].asn IN
    /\ At(r, "remove", "rm_bird")
    /\ \/ /\ birdConf' = [birdConf EXCEPT ![a] = "absent"]
          /\ UNCHANGED fileFault
       \/ /\ "remove" \in Faults
          /\ fileFault' = fileFault \union {a}
          /\ UNCHANGED birdConf
    /\ Goto(r, "configure")
    /\ UNCHANGED <<wgConf, daemons, agent, recovery, crashes, overlaps, cmdFault>>

ConfigureTooEarly(r) ==  \* mutation: /remove answers without a reload
    /\ req[r].op \in {"peer", "remove"} /\ req[r].pc = "configure"
    /\ birdRun' = IF req[r].op = "peer" THEN birdConf ELSE birdRun
    /\ Reply(r, 200)
    /\ UNCHANGED <<files, tunnel, agent, recovery, crashes, history>>

(* Last step of /peer and /remove: BIRD rereads every peer file.  Whether it
   did is ignored and the answer is 200 either way. *)
Configure(r) ==
    /\ req[r].op \in {"peer", "remove"} /\ req[r].pc = "configure"
    /\ \/ /\ birdRun' = birdConf
          /\ UNCHANGED cmdFault
       \/ /\ "bird" \in Faults
          /\ cmdFault' = cmdFault \union {req[r].asn}
          /\ UNCHANGED birdRun
    /\ Reply(r, 200)
    /\ UNCHANGED <<files, tunnel, agent, recovery, crashes, overlaps, fileFault>>

RestartWithoutDown(r) ==  \* mutation: the tunnel is not stopped first
    /\ At(r, "restart", "down")
    /\ Goto(r, "up")
    /\ UNCHANGED <<files, daemons, agent, recovery, crashes, history>>

(* RestartHandler: down, up, then both sessions are restarted. *)
RestartDown(r) ==
    LET a == req[r].asn IN
    /\ At(r, "restart", "down")
    /\ \E out \in DownOutcomes(wgConf[a], tunnel[a]) :
          /\ tunnel' = [tunnel EXCEPT ![a] = out[1]]
          /\ cmdFault' = IF Failed(out[2]) THEN cmdFault \union {a} ELSE cmdFault
    /\ Goto(r, "up")
    /\ UNCHANGED <<files, birdRun, agent, recovery, crashes, overlaps, fileFault>>

RestartUp(r) ==
    LET a == req[r].asn IN
    /\ At(r, "restart", "up")
    /\ \E out \in UpOutcomes(wgConf[a], tunnel[a]) :
          /\ tunnel' = [tunnel EXCEPT ![a] = out[1]]
          /\ cmdFault' = IF Failed(out[2]) THEN cmdFault \union {a} ELSE cmdFault
          /\ req' = [req EXCEPT ![r] = [@ EXCEPT !.pc = "bounce_v4",
                        !.notes = IF out[2] \in {"dns", "failed"} THEN {"wg error"} ELSE {}]]
    /\ UNCHANGED <<files, birdRun, agent, recovery, crashes, overlaps, fileFault>>

(* A "syntax error" for both names means BIRD knows neither session. *)
RestartStatus(known, wgErr) ==
    IF ~known THEN (IF wgErr THEN 404 ELSE 500)
    ELSE IF wgErr THEN 500 ELSE 200

(* One "restart" command; a query BIRD never answered is no syntax error. *)
BounceOutcomes(a, session) ==
    {IF session \in Sessions(birdRun[a]) THEN "known" ELSE "unknown"}
        \union (IF "bird" \in Faults THEN {"killed"} ELSE {})

RestartV4(r) ==
    LET a == req[r].asn IN
    /\ At(r, "restart", "bounce_v4")
    /\ \E out \in BounceOutcomes(a, "v4") :
          /\ req' = [req EXCEPT ![r] = [@ EXCEPT !.pc = "bounce_v6",
                        !.notes = req[r].notes \union {n \in {"v4 known"} : out # "unknown"}]]
          /\ cmdFault' = IF Failed(out) THEN cmdFault \union {a} ELSE cmdFault
    /\ UNCHANGED <<files, daemons, agent, recovery, crashes, overlaps, fileFault>>

RestartV6(r) ==
    LET a == req[r].asn IN
    /\ At(r, "restart", "bounce_v6")
    /\ \E out \in BounceOutcomes(a, "v6") :
          /\ Reply(r, RestartStatus("v4 known" \in req[r].notes \/ out # "unknown",
                                    "wg error" \in req[r].notes))
          /\ cmdFault' = IF Failed(out) THEN cmdFault \union {a} ELSE cmdFault
    /\ UNCHANGED <<files, daemons, agent, recovery, crashes, overlaps, fileFault>>

-----------------------------------------------------------------------------
(* EnsureWGInterfacesUp, run to completion before the server listens: every
   configured interface that is not up gets a goroutine. *)
Boot ==
    /\ agent = "stopped"
    /\ agent' = "recovering"
    /\ rec' = [a \in ASN |-> IF HasWG(a) /\ tunnel[a] = "down" THEN "todo" ELSE "idle"]
    /\ dnsFailed' = {}
    /\ UNCHANGED <<files, daemons, req, unreported, reported, lost, crashes, history>>

Recovering(a, step) == agent = "recovering" /\ rec[a] = step

SlotsNeverReleased ==  \* mutation: no deferred release of the semaphore
    Cardinality({a \in ASN : rec[a] \in {"up", "strip", "rewrite", "again", "done"}})

SlotsUsed == Cardinality({a \in ASN : rec[a] \in {"up", "strip", "rewrite", "again"}})

RecoverAcquire(a) ==
    /\ Recovering(a, "todo")
    /\ SlotsUsed < RecoverySlots
    /\ rec' = [rec EXCEPT ![a] = "up"]
    /\ UNCHANGED <<files, daemons, agent, req, dnsFailed, unreported, reported,
                   lost, crashes, history>>

RecoverUpNoStrip(a) ==  \* mutation: a resolver error is not recognised
    /\ Recovering(a, "up")
    /\ \E out \in UpOutcomes(wgConf[a], tunnel[a]) :
          /\ tunnel' = [tunnel EXCEPT ![a] = out[1]]
          /\ cmdFault' = IF LetDown(out[2]) THEN cmdFault \union {a} ELSE cmdFault
    /\ rec' = [rec EXCEPT ![a] = "done"]
    /\ UNCHANGED <<files, birdRun, agent, req, dnsFailed, unreported, reported,
                   lost, crashes, overlaps, fileFault>>

(* Only a host name endpoint makes wg-quick print a resolver error. *)
RecoverUp(a) ==
    /\ Recovering(a, "up")
    /\ \E out \in UpOutcomes(wgConf[a], tunnel[a]) :
          /\ tunnel' = [tunnel EXCEPT ![a] = out[1]]
          /\ rec' = [rec EXCEPT ![a] = IF out[2] \in {"dns", "dns killed"}
                                       THEN "strip" ELSE "done"]
          /\ cmdFault' = IF LetDown(out[2]) THEN cmdFault \union {a} ELSE cmdFault
    /\ UNCHANGED <<files, birdRun, agent, req, dnsFailed, unreported, reported,
                   lost, crashes, overlaps, fileFault>>

(* removeEndpointFromConfig rewrites the file without its Endpoint line. *)
RecoverStrip(a) ==
    /\ Recovering(a, "strip")
    /\ \/ /\ wgConf' = [wgConf EXCEPT ![a] = "empty"]
          /\ rec' = [rec EXCEPT ![a] = "rewrite"]
          /\ unreported' = unreported \union {a}
          /\ UNCHANGED fileFault
       \/ /\ "write" \in Faults
          /\ rec' = [rec EXCEPT ![a] = "done"]
          /\ fileFault' = fileFault \union {a}
          /\ UNCHANGED <<wgConf, unreported>>
    /\ UNCHANGED <<birdConf, daemons, agent, req, dnsFailed, reported, lost, crashes,
                   overlaps, cmdFault>>

RecoverRewrite(a) ==
    /\ Recovering(a, "rewrite")
    /\ \/ /\ wgConf' = [wgConf EXCEPT ![a] = "none"]
          /\ rec' = [rec EXCEPT ![a] = "again"]
          /\ UNCHANGED fileFault
       \/ /\ "write" \in Faults
          /\ rec' = [rec EXCEPT ![a] = "done"]
          /\ fileFault' = fileFault \union {a}
          /\ UNCHANGED wgConf
    /\ UNCHANGED <<birdConf, daemons, agent, req, dnsFailed, unreported, reported,
                   lost, crashes, overlaps, cmdFault>>

RecoverAgainIfUp(a) ==  \* mutation: only a second start that works is told
    /\ Recovering(a, "again")
    /\ \E out \in UpOutcomes(wgConf[a], tunnel[a]) :
          /\ tunnel' = [tunnel EXCEPT ![a] = out[1]]
          /\ dnsFailed' = IF out[2] = "ok" THEN dnsFailed \union {a} ELSE dnsFailed
    /\ rec' = [rec EXCEPT ![a] = "done"]
    /\ UNCHANGED <<files, birdRun, agent, req, unreported, reported, lost, crashes,
                   history>>

(* The second wg-quick up; the failure is recorded whatever it returned. *)
RecoverAgain(a) ==
    /\ Recovering(a, "again")
    /\ \E out \in UpOutcomes(wgConf[a], tunnel[a]) :
          /\ tunnel' = [tunnel EXCEPT ![a] = out[1]]
          /\ cmdFault' = IF LetDown(out[2]) THEN cmdFault \union {a} ELSE cmdFault
    /\ rec' = [rec EXCEPT ![a] = "done"]
    /\ dnsFailed' = dnsFailed \union {a}
    /\ UNCHANGED <<files, birdRun, agent, req, unreported, reported, lost, crashes,
                   overlaps, fileFault>>

(* wg.Wait, then one POST to the bot, tried once, then the server listens. *)
Serve ==
    /\ agent = "recovering"
    /\ \A a \in ASN : rec[a] \in {"idle", "done"}
    /\ agent' = "serving"
    /\ \/ /\ ServerURL /\ dnsFailed # {}
          /\ reported' = dnsFailed
          /\ unreported' = unreported \ dnsFailed
          /\ UNCHANGED lost
       \/ /\ ServerURL /\ dnsFailed # {} /\ "post" \in Faults
          /\ lost' = lost \union dnsFailed
          /\ UNCHANGED <<reported, unreported>>
       \/ /\ ~ServerURL \/ dnsFailed = {}
          /\ UNCHANGED <<reported, unreported, lost>>
    /\ rec' = [a \in ASN |-> "idle"]
    /\ dnsFailed' = {}
    /\ UNCHANGED <<files, daemons, req, crashes, history>>

-----------------------------------------------------------------------------
(* The ASNs whose files a dying agent may leave half done: those a /peer, a
   /remove or a recovery goroutine was working on. *)
Abandoned == {a \in ASN : \/ rec[a] \in {"strip", "rewrite", "again"}
                          \/ \E r \in Req : /\ InFlight(r) /\ req[r].asn = a
                                            /\ req[r].op \in {"peer", "remove"}}

Down ==
    /\ agent # "stopped"
    /\ crashes < MaxCrashes
    /\ crashes' = crashes + 1
    /\ agent' = "stopped"
    /\ req' = [r \in Req |-> NoRequest]
    /\ rec' = [a \in ASN |-> "idle"]
    /\ dnsFailed' = {}
    /\ fileFault' = fileFault \union Abandoned
    /\ lost' = lost \union unreported
    /\ UNCHANGED <<files, unreported, reported, overlaps>>

(* The agent alone dies, or systemd restarts it for an update. *)
AgentCrash ==
    /\ "crash" \in Faults
    /\ Down
    /\ cmdFault' = cmdFault \union Abandoned
    /\ UNCHANGED daemons

(* The host goes down: no tunnel is left and BIRD loads the files afresh. *)
HostReboot ==
    /\ "reboot" \in Faults
    /\ Down
    /\ tunnel' = [a \in ASN |-> "down"]
    /\ birdRun' = birdConf
    /\ UNCHANGED cmdFault

-----------------------------------------------------------------------------
PeerStep(r) ==
    \/ CountWG(r) \/ CountBird(r) \/ StatWG(r) \/ StatBird(r)
    \/ OpenWG(r) \/ WriteWG(r) \/ OpenBird(r) \/ WriteBird(r)
    \/ PeerUp(r)

RemoveStep(r)  == RemoveDown(r) \/ RemoveWG(r) \/ RemoveBird(r)
RestartStep(r) == RestartDown(r) \/ RestartUp(r) \/ RestartV4(r) \/ RestartV6(r)
HandlerStep(r) == PeerStep(r) \/ RemoveStep(r) \/ RestartStep(r) \/ Configure(r)

RecoverStep(a) ==
    \/ RecoverAcquire(a) \/ RecoverUp(a) \/ RecoverStrip(a)
    \/ RecoverRewrite(a) \/ RecoverAgain(a)

Next ==
    \/ \E r \in Req, op \in Requests, a \in ASN, info \in PeerInfos : Start(r, op, a, info)
    \/ \E r \in Req : HandlerStep(r)
    \/ Boot
    \/ \E a \in ASN : RecoverStep(a)
    \/ Serve
    \/ AgentCrash
    \/ HostReboot

Spec == Init /\ [][Next]_vars

(* systemd restarts an agent that died (Restart=on-failure) and every command a
   handler or the recovery runs has a time limit, so each started step ends. *)
Fairness ==
    /\ WF_vars(Boot) /\ WF_vars(Serve)
    /\ \A r \in Req : WF_vars(HandlerStep(r))
    /\ \A a \in ASN : WF_vars(RecoverStep(a))

FairSpec == Spec /\ Fairness

-----------------------------------------------------------------------------
HalfConfigured(a) == HasWG(a) # HasBird(a)

(* A handler is between its work on one file and its work on the other. *)
Midway(a) ==
    \E r \in Req : /\ req[r].asn = a
                  /\ \/ req[r].op = "peer" /\ req[r].pc \in {"write_wg", "open_bird"}
                     \/ req[r].op = "remove" /\ req[r].pc = "rm_bird"

(* A count mismatch makes the node refuse every /peer and /pre_peer with 500
   (peer.go:43, peer_pre.go:33).  An ASN keeps only one of its two files
   only when a /peer and a /remove of it overlapped, or a write, a removal or
   a crash cut a handler short: no other interleaving can wedge the node. *)
MismatchHasCause ==
    \A a \in ASN : HalfConfigured(a) =>
        <<a, "peer">> \in raced \/ a \in fileFault \/ Midway(a)

(* config.md:84: the agent rejects new peers once the limit is reached.  The
   count is read long before the file is written, so concurrent requests can
   exceed it, but never by more than one peer per other goroutine. *)
OvershootBounded ==
    MaxPeers # 0 /\ raced = {} /\ fileFault = {} =>
        WGCount <= MaxPeers + Cardinality(Req) - 1

(* The limit as documented. *)
LimitRespected == MaxPeers # 0 => WGCount <= MaxPeers

(* 200 means done (api-reference.md): what the handler answered 200 to still
   holds as long as nothing else touched the ASN and no command failed. *)
Undisturbed(r) ==
    /\ req[r].pc = "done" /\ req[r].status = 200 /\ r \in solo
    /\ req[r].asn \notin fileFault \union cmdFault
    /\ \A op \in Ops : <<req[r].asn, op>> \notin raced

RepliesHonest ==
    \A r \in Req : Undisturbed(r) =>
        LET a == req[r].asn IN
        CASE req[r].op = "peer" ->
                /\ wgConf[a] = req[r].info.endpoint
                /\ birdConf[a] = GenerateBirdConfig(req[r].info)
                /\ birdRun[a] = birdConf[a]
                /\ tunnel[a] # "down"
          [] req[r].op = "remove" ->
                /\ ~HasWG(a) /\ ~HasBird(a)
                /\ birdRun[a] = "absent" /\ tunnel[a] = "down"
          [] req[r].op = "restart" ->
                /\ HasWG(a) /\ tunnel[a] = wgConf[a]

(* /remove "tears down the interface" and its 200 is "Peer removed
   successfully" (api-reference.md): no tunnel outlives an answered removal. *)
RemovedIsDown ==
    \A r \in Req : req[r].pc = "done" /\ req[r].op = "remove" /\ r \in solo
                     => tunnel[req[r].asn] = "down"

(* When the server starts to listen every configured interface is up and
   whole, and those the recovery found down run the file as it now is, with or
   without its endpoint (EnsureWGInterfacesUp): a peer whose name does not
   resolve starts without it and keeps no other down.  Excepted are ASNs whose
   file was left half done and those whose wg-quick was killed or failed over
   something else than a name: what a killed one leaves may be half made, and
   the bot hears of it as brought up all the same (ReportedIsUp). *)
BootBringsTunnelsUp ==
    [][agent = "recovering" /\ agent' = "serving" =>
         \A a \in ASN : HasWG(a) /\ a \notin fileFault \union cmdFault =>
             /\ tunnel[a] \notin {"down", "partial"}
             /\ rec[a] = "done" => tunnel[a] = wgConf[a]]_vars

(* An endpoint the recovery took out of a file is announced to the bot before
   the agent serves, unless the POST failed or the agent died in between. *)
StrippedIsReported ==
    agent = "serving" /\ ServerURL => unreported \subseteq fileFault \union lost

(* server/main.py:274 tells the administrators that the interfaces named in
   the notification were brought up without their endpoint.  The code does not
   keep it: the second wg-quick up is refused when the first was killed with
   the interface half made, and its result is ignored (recovery.go:118). *)
ReportedIsUp ==
    [][agent = "recovering" /\ agent' = "serving" =>
         \A a \in reported' \ reported : tunnel[a] = "none"]_vars

(* The recovery pass ends: goroutines waiting for one of the slots all get
   one, whatever happens to those that hold them. *)
BootCompletes == agent = "stopped" ~> agent = "serving"
=============================================================================
