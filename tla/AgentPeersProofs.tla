-------------------------- MODULE AgentPeersProofs --------------------------
(***************************************************************************)
(* Proofs about AgentPeers for every set of ASNs, any number of request    *)
(* goroutines and every setting: type correctness; that a node whose two   *)
(* configuration directories disagree has seen an overlap of /peer and     *)
(* /remove, a failed file operation or a crash; that the recovery at boot  *)
(* starts every tunnel it can and tells what it stripped; that a 200 of a  *)
(* handler is honest; and by how much racing handlers exceed the limit.    *)
(***************************************************************************)
EXTENDS AgentPeers, FiniteSetTheorems, TLAPS

(* Goroutine r moved to p: it keeps its operation, its ASN and the body it
   was sent, and no other goroutine moved. *)
Moved(r, p) ==
    /\ req' \in [Req -> Request]
    /\ \A s \in Req : req'[s].op = req[s].op /\ req'[s].asn = req[s].asn
    /\ \A s \in Req : s # r => req'[s].pc = req[s].pc
    /\ req'[r].pc = p
    /\ \A s \in Req : s # r => req'[s] = req[s]
    /\ req'[r].info = req[r].info

(* A goroutine at work serves a known operation for a known ASN. *)
InFlightTyped == \A r \in Req : InFlight(r) => req[r].op \in Ops /\ req[r].asn \in ASN

-----------------------------------------------------------------------------
(* A goroutine that keeps its operation and its ASN has moved. *)
LEMMA ChangeMoves ==
    ASSUME req \in [Req -> Request], NEW r \in Req, NEW q \in Request,
           q.op = req[r].op, q.asn = req[r].asn, q.info = req[r].info,
           req' = [req EXCEPT ![r] = q]
    PROVE  Moved(r, q.pc)
BY DEF Moved

(* Going to the next statement keeps the operation and the ASN. *)
LEMMA GotoMoves ==
    ASSUME req \in [Req -> Request], NEW r \in Req, NEW p \in PCs, Goto(r, p)
    PROVE  Moved(r, p)
BY DEF Moved, Goto, Request, PCs

(* Answering ends the request and keeps its operation and ASN. *)
LEMMA ReplyMoves ==
    ASSUME req \in [Req -> Request], NEW r \in Req, NEW c \in Statuses, Reply(r, c)
    PROVE  Moved(r, "done")
<1> DEFINE q == [req[r] EXCEPT !.pc = "done", !.status = c, !.n = 0, !.notes = {}]
<1>1. req[r] \in Request /\ "done" \in PCs /\ 0 \in Nat BY DEF PCs
<1>2. q \in Request BY <1>1, Zenon DEF Request
<1>3. q.op = req[r].op /\ q.asn = req[r].asn /\ q.info = req[r].info /\ q.pc = "done"
  BY <1>1 DEF Request
<1>4. req' = [req EXCEPT ![r] = q] BY DEF Reply
<1>5. Moved(r, q.pc)
  <2> HIDE DEF q
  <2> QED BY <1>2, <1>3, <1>4, ChangeMoves
<1>6. QED BY <1>3, <1>5

(* Counting files never leaves the naturals: ASN is finite. *)
LEMMA CountsAreNat == WGCount \in Nat /\ BirdCount \in Nat
<1>1. \A S \in SUBSET ASN : Cardinality(S) \in Nat
  BY ASNAssumption, FS_Subset, FS_CardinalityType
<1>2. QED BY <1>1 DEF WGCount, BirdCount

(* What wg-quick leaves behind is a state of the tunnel. *)
LEMMA OutcomesTyped ==
    ASSUME NEW conf \in WGFiles, NEW cur \in Tunnels
    PROVE  /\ \A out \in UpOutcomes(conf, cur) : out[1] \in Tunnels
           /\ \A out \in DownOutcomes(conf, cur) : out[1] \in Tunnels
<1>1. conf # "absent" => conf \in Tunnels
  BY DEF WGFiles, Tunnels
<1>2. "down" \in Tunnels /\ "partial" \in Tunnels BY DEF Tunnels
<1>3. ASSUME NEW out \in UpOutcomes(conf, cur) PROVE out[1] \in Tunnels
  <2>1. CASE conf = "absent" \/ cur # "down"
    <3>1. out = <<cur, "refused">> BY <2>1 DEF UpOutcomes
    <3>2. QED BY <3>1
  <2>2. CASE ~(conf = "absent" \/ cur # "down")
    <3>1. \/ out = <<conf, "ok">>
          \/ out = <<"down", "dns">> \/ out = <<"partial", "dns killed">>
          \/ out = <<"down", "failed">> \/ out = <<"down", "killed">>
          \/ out = <<"partial", "killed">>
      BY <2>2 DEF UpOutcomes
    <3>2. \A x, y : out = <<x, y>> => out[1] = x OBVIOUS
    <3>3. out[1] = conf \/ out[1] = "down" \/ out[1] = "partial" BY <3>1, <3>2, Zenon
    <3>4. QED BY <1>1, <1>2, <2>2, <3>3
  <2>3. QED BY <2>1, <2>2
<1>4. ASSUME NEW out \in DownOutcomes(conf, cur) PROVE out[1] \in Tunnels
  <2>1. out[1] \in {cur, "down"} BY <1>4 DEF DownOutcomes
  <2>2. QED BY <1>2, <2>1
<1>5. QED BY <1>3, <1>4

(* generateBirdConfig writes a well-typed file for every PeerInfo. *)
LEMMA BirdFilesTyped ==
    ASSUME NEW info \in PeerInfo
    PROVE  GenerateBirdConfig(info) \in BirdFiles \ {"absent"}
BY DEF GenerateBirdConfig, BirdFiles, PeerInfo

(* Every handler action but RestartV6 and the replies moves its goroutine
   forward; this is all of its effect on req the proofs need. *)
LEMMA HandlerMoves ==
    ASSUME TypeOK, NEW r \in Req, HandlerStep(r)
    PROVE  \E p \in PCs : Moved(r, p)
<1> req \in [Req -> Request] BY DEF TypeOK
<1>1. CASE CountWG(r)
  <2> DEFINE q == [req[r] EXCEPT !.pc = "count_bird", !.n = WGCount]
  <2>1. req[r] \in Request /\ "count_bird" \in PCs BY DEF PCs, PeerPCs
  <2>2. q \in Request BY <2>1, CountsAreNat, Zenon DEF Request
  <2>3. q.op = req[r].op /\ q.asn = req[r].asn /\ q.info = req[r].info BY <2>1 DEF Request
  <2>4. req' = [req EXCEPT ![r] = q] BY <1>1 DEF CountWG
  <2>5. q.pc \in PCs BY <2>2 DEF Request
  <2> HIDE DEF q
  <2>6. QED BY <2>2, <2>3, <2>4, <2>5, ChangeMoves
<1>2. CASE CountBird(r)
  BY <1>2, GotoMoves, ReplyMoves DEF CountBird, PCs, PeerPCs, Statuses
<1>3. CASE StatWG(r)
  <2> DEFINE t == IF HasWG(req[r].asn) THEN {"wg exists"} ELSE {}
             q == [req[r] EXCEPT !.pc = "stat_bird", !.notes = t]
  <2>1. req[r] \in Request /\ "stat_bird" \in PCs /\ t \in SUBSET Notes
    BY DEF PCs, PeerPCs, Notes
  <2>2. q.op = req[r].op /\ q.asn = req[r].asn /\ q.info = req[r].info BY <2>1 DEF Request
  <2>3. req' = [req EXCEPT ![r] = q] BY <1>3 DEF StatWG
  <2> HIDE DEF t
  <2>4. q \in Request BY <2>1, Zenon DEF Request
  <2>5. q.pc \in PCs BY <2>4 DEF Request
  <2> HIDE DEF q
  <2>6. QED BY <2>2, <2>3, <2>4, <2>5, ChangeMoves
<1>4. CASE StatBird(r)
  <2> DEFINE q == [req[r] EXCEPT !.pc = "open_wg", !.n = 0, !.notes = {}]
  <2>1. CASE Reply(r, 503) BY <2>1, ReplyMoves DEF PCs, Statuses
  <2>2. CASE req' = [req EXCEPT ![r] = q]
    <3>1. req[r] \in Request /\ "open_wg" \in PCs /\ 0 \in Nat BY DEF PCs, PeerPCs
    <3>2. q \in Request BY <3>1, Zenon DEF Request
    <3>3. q.op = req[r].op /\ q.asn = req[r].asn /\ q.info = req[r].info BY <3>1 DEF Request
    <3>4. q.pc \in PCs BY <3>2 DEF Request
    <3> HIDE DEF q
    <3>5. QED BY <2>2, <3>2, <3>3, <3>4, ChangeMoves
  <2>3. QED BY <1>4, <2>1, <2>2 DEF StatBird
<1>5. CASE OpenWG(r) \/ WriteWG(r) \/ OpenBird(r) \/ WriteBird(r)
  <2>1. (\E p \in PCs : Goto(r, p)) \/ Reply(r, 500)
    BY <1>5 DEF OpenWG, WriteWG, OpenBird, WriteBird, PCs, PeerPCs
  <2>2. QED BY <2>1, GotoMoves, ReplyMoves DEF PCs, Statuses
<1>6. CASE PeerUp(r) \/ RemoveDown(r) \/ RemoveWG(r) \/ RemoveBird(r) \/ RestartDown(r)
  <2>1. \E p \in PCs : Goto(r, p)
    BY <1>6 DEF PeerUp, RemoveDown, RemoveWG, RemoveBird, RestartDown,
                PCs, PeerPCs, RemovePCs, RestartPCs
  <2>2. QED BY <2>1, GotoMoves
<1>7. CASE Configure(r) BY <1>7, ReplyMoves DEF Configure, PCs, Statuses
<1>8. CASE RestartUp(r)
  <2>1. PICK t \in SUBSET Notes :
            req' = [req EXCEPT ![r] = [@ EXCEPT !.pc = "bounce_v4", !.notes = t]]
    BY <1>8 DEF RestartUp, Notes
  <2> DEFINE q == [req[r] EXCEPT !.pc = "bounce_v4", !.notes = t]
  <2>2. req[r] \in Request /\ "bounce_v4" \in PCs BY DEF PCs, RestartPCs
  <2>3. q \in Request BY <2>2, Zenon DEF Request
  <2>4. q.op = req[r].op /\ q.asn = req[r].asn /\ q.info = req[r].info BY <2>2 DEF Request
  <2>5. q.pc \in PCs BY <2>3 DEF Request
  <2>6. req' = [req EXCEPT ![r] = q] BY <2>1
  <2> HIDE DEF q
  <2>7. QED BY <2>3, <2>4, <2>5, <2>6, ChangeMoves
<1>9. CASE RestartV4(r)
  <2>1. req[r].notes \in SUBSET Notes BY DEF Request
  <2>2. PICK out \in BounceOutcomes(req[r].asn, "v4") :
            req' = [req EXCEPT ![r] = [@ EXCEPT !.pc = "bounce_v6",
                        !.notes = req[r].notes \union {n \in {"v4 known"} : out # "unknown"}]]
    BY <1>9 DEF RestartV4
  <2> DEFINE t == req[r].notes \union {n \in {"v4 known"} : out # "unknown"}
  <2> DEFINE q == [req[r] EXCEPT !.pc = "bounce_v6", !.notes = t]
  <2>3. t \in SUBSET Notes BY <2>1 DEF Notes
  <2>4. req[r] \in Request /\ "bounce_v6" \in PCs BY DEF PCs, RestartPCs
  <2>5. q.op = req[r].op /\ q.asn = req[r].asn /\ q.info = req[r].info BY <2>4 DEF Request
  <2>6. req' = [req EXCEPT ![r] = q] BY <2>2
  <2> HIDE DEF t
  <2>7. q \in Request BY <2>3, <2>4, Zenon DEF Request
  <2>8. q.pc \in PCs BY <2>7 DEF Request
  <2> HIDE DEF q
  <2>9. QED BY <2>5, <2>6, <2>7, <2>8, ChangeMoves
<1>10. CASE RestartV6(r)
  <2>1. \A known, wgErr : RestartStatus(known, wgErr) \in Statuses
    BY DEF RestartStatus, Statuses
  <2>2. PICK c \in Statuses : Reply(r, c) BY <1>10, <2>1 DEF RestartV6
  <2>3. QED BY <2>2, ReplyMoves DEF PCs
<1>11. QED
  BY <1>1, <1>2, <1>3, <1>4, <1>5, <1>6, <1>7, <1>8, <1>9, <1>10
  DEF HandlerStep, PeerStep, RemoveStep, RestartStep

-----------------------------------------------------------------------------
(* Type correctness. *)
LEMMA NoRequestTyped == NoRequest \in Request
<1>1. InitialInfo \in PeerInfo BY InfoAssumption
<1>2. QED BY <1>1 DEF NoRequest, Request, PCs, OptOp, OptASN, Statuses

(* The node the agent is first started on is well typed (main). *)
LEMMA TypeInit == Init => TypeOK
<1> SUFFICES ASSUME Init PROVE TypeOK OBVIOUS
<1>1. InitialInfo \in PeerInfo BY InfoAssumption
<1>2. wgConf \in [ASN -> WGFiles]
  BY <1>1 DEF Init, WGFiles, Endpoints, PeerInfo
<1>3. birdConf \in [ASN -> BirdFiles]
  BY <1>1, BirdFilesTyped DEF Init, BirdFiles
<1>4. req \in [Req -> Request] BY NoRequestTyped DEF Init
<1>5. tunnel \in [ASN -> Tunnels] BY DEF Init, Tunnels
<1>6. QED BY <1>2, <1>3, <1>4, <1>5, LimitAssumption DEF Init, TypeOK

(* A request that arrives keeps the types (the routes of main). *)
LEMMA TypeStart ==
    ASSUME TypeOK, InFlightTyped, NEW r \in Req, NEW op \in Requests, NEW a \in ASN,
           NEW info \in PeerInfos, Start(r, op, a, info)
    PROVE  TypeOK' /\ InFlightTyped'
<1> DEFINE pc == IF op = "peer" THEN "count_wg" ELSE "down"
           i == IF op = "peer" THEN info ELSE InitialInfo
           q == [NoRequest EXCEPT !.pc = pc, !.op = op, !.asn = a, !.info = i]
<1>1. op \in OptOp /\ a \in OptASN /\ i \in PeerInfo /\ pc \in PCs
  BY ReqAssumption, InfoAssumption DEF OptOp, OptASN, PCs, PeerPCs, RemovePCs
<1>2. op \in Ops BY ReqAssumption
<1>3. req' = [req EXCEPT ![r] = q] BY DEF Start
<1> HIDE DEF pc, i
<1>4. q \in Request BY <1>1, NoRequestTyped, Zenon DEF Request
<1> q.op = op /\ q.asn = a BY <1>4 DEF NoRequest
<1> HIDE DEF q
<1>5. req' \in [Req -> Request] /\ InFlightTyped'
  BY <1>2, <1>3, <1>4 DEF TypeOK, InFlightTyped, InFlight
<1>6. solo' \subseteq Req BY DEF Start, TypeOK
<1>7. raced' \subseteq ASN \X Ops
  <2>1. PICK clash \in SUBSET Ops : raced' = raced \union ({a} \X clash) BY DEF Start
  <2>2. QED BY <2>1 DEF TypeOK
<1>8. QED
  BY <1>5, <1>6, <1>7 DEF Start, TypeOK, files, daemons, recovery, vars

(* Every step of a handler keeps the table of requests in flight typed. *)
LEMMA HandlerInFlight ==
    ASSUME NEW r \in Req, HandlerStep(r)
    PROVE  InFlight(r)
BY DEF HandlerStep, PeerStep, RemoveStep, RestartStep, InFlight, At,
       CountWG, CountBird, StatWG, StatBird, OpenWG, WriteWG, OpenBird, WriteBird,
       PeerUp, RemoveDown, RemoveWG, RemoveBird, RestartDown, RestartUp,
       RestartV4, RestartV6, Configure

(* Every step of /peer, /remove and /restart keeps the types. *)
LEMMA TypeHandler ==
    ASSUME TypeOK, InFlightTyped, NEW r \in Req, HandlerStep(r)
    PROVE  TypeOK' /\ InFlightTyped'
<1>1. PICK p \in PCs : Moved(r, p) BY HandlerMoves
<1>2. req' \in [Req -> Request] BY <1>1 DEF Moved
<1>3. req[r].asn \in ASN BY HandlerInFlight DEF InFlightTyped
<1>4. req[r].info \in PeerInfo BY DEF TypeOK, Request
<1>5. wgConf[req[r].asn] \in WGFiles /\ tunnel[req[r].asn] \in Tunnels
  BY <1>3 DEF TypeOK
<1>6. InFlightTyped'
  BY <1>1, HandlerInFlight DEF Moved, InFlightTyped, InFlight
<1> USE <1>2, <1>3, <1>6 DEF TypeOK, files, daemons, recovery, overlaps, history
<1>7. CASE CountWG(r) \/ CountBird(r) \/ StatWG(r) \/ StatBird(r)
  <2>1. UNCHANGED <<files, daemons, agent, recovery, crashes, history>>
    BY <1>7, Zenon DEF CountWG, CountBird, StatWG, StatBird
  <2>2. QED BY <2>1
<1>8. CASE OpenWG(r)
  <2>1. "empty" \in WGFiles BY DEF WGFiles
  <2>2. QED BY <1>8, <2>1 DEF OpenWG
<1>9. CASE WriteWG(r)
  <2>1. req[r].info.endpoint \in WGFiles BY <1>4 DEF PeerInfo, WGFiles
  <2>2. QED BY <1>9, <2>1 DEF WriteWG
<1>10. CASE OpenBird(r)
  <2>1. "empty" \in BirdFiles BY DEF BirdFiles
  <2>2. QED BY <1>10, <2>1 DEF OpenBird
<1>11. CASE WriteBird(r)
  <2>1. GenerateBirdConfig(req[r].info) \in BirdFiles BY <1>4, BirdFilesTyped
  <2>2. QED BY <1>11, <2>1 DEF WriteBird
<1>12. CASE PeerUp(r)
  <2>1. \A out \in UpOutcomes(wgConf[req[r].asn], tunnel[req[r].asn]) : out[1] \in Tunnels
    BY <1>5, OutcomesTyped
  <2>2. QED BY <1>12, <2>1 DEF PeerUp
<1>13. CASE RestartUp(r)
  <2>1. \A out \in UpOutcomes(wgConf[req[r].asn], tunnel[req[r].asn]) : out[1] \in Tunnels
    BY <1>5, OutcomesTyped
  <2>2. QED BY <1>13, <2>1 DEF RestartUp
<1>14. CASE RemoveDown(r)
  <2>1. \A out \in DownOutcomes(wgConf[req[r].asn], tunnel[req[r].asn]) : out[1] \in Tunnels
    BY <1>5, OutcomesTyped
  <2>2. QED BY <1>14, <2>1 DEF RemoveDown
<1>15. CASE RestartDown(r)
  <2>1. \A out \in DownOutcomes(wgConf[req[r].asn], tunnel[req[r].asn]) : out[1] \in Tunnels
    BY <1>5, OutcomesTyped
  <2>2. QED BY <1>15, <2>1 DEF RestartDown
<1>16. CASE RemoveWG(r)
  <2>1. "absent" \in WGFiles BY DEF WGFiles
  <2>2. QED BY <1>16, <2>1 DEF RemoveWG
<1>17. CASE RemoveBird(r)
  <2>1. "absent" \in BirdFiles BY DEF BirdFiles
  <2>2. QED BY <1>17, <2>1 DEF RemoveBird
<1>18. CASE RestartV4(r)
  BY <1>18 DEF RestartV4
<1>19. CASE RestartV6(r)
  BY <1>19 DEF RestartV6
<1>20. CASE Configure(r)
  BY <1>20 DEF Configure
<1>21. QED
  BY <1>6, <1>7, <1>8, <1>9, <1>10, <1>11, <1>12, <1>13, <1>14, <1>15, <1>16,
     <1>17, <1>18, <1>19, <1>20
  DEF HandlerStep, PeerStep, RemoveStep, RestartStep

(* Every step of the recovery of one interface keeps the types. *)
LEMMA TypeRecover ==
    ASSUME TypeOK, InFlightTyped, NEW a \in ASN, RecoverStep(a)
    PROVE  TypeOK' /\ InFlightTyped'
<1>1. wgConf[a] \in WGFiles /\ tunnel[a] \in Tunnels BY DEF TypeOK
<1>2. \A out \in UpOutcomes(wgConf[a], tunnel[a]) : out[1] \in Tunnels
  BY <1>1, OutcomesTyped
<1>3. "empty" \in WGFiles /\ "none" \in WGFiles BY DEF WGFiles, Endpoints
<1>4. req' = req
  BY DEF RecoverStep, RecoverAcquire, RecoverUp, RecoverStrip, RecoverRewrite, RecoverAgain
<1>5. InFlightTyped' BY <1>4 DEF InFlightTyped, InFlight
<1> USE <1>4, <1>5 DEF TypeOK, files, daemons, overlaps, history
<1>6. CASE RecoverAcquire(a) BY <1>6 DEF RecoverAcquire
<1>7. CASE RecoverUp(a) BY <1>2, <1>7 DEF RecoverUp
<1>8. CASE RecoverStrip(a) BY <1>3, <1>8 DEF RecoverStrip
<1>9. CASE RecoverRewrite(a) BY <1>3, <1>9 DEF RecoverRewrite
<1>10. CASE RecoverAgain(a) BY <1>2, <1>10 DEF RecoverAgain
<1>11. QED BY <1>6, <1>7, <1>8, <1>9, <1>10 DEF RecoverStep

(* Start-up, the end of the recovery, shutdown and crashes keep the types. *)
LEMMA TypeProcess ==
    ASSUME TypeOK, InFlightTyped, Boot \/ Serve \/ AgentCrash \/ HostReboot
    PROVE  TypeOK' /\ InFlightTyped'
<1> USE DEF TypeOK, files, daemons, overlaps, history
<1>1. CASE Boot
  BY <1>1 DEF Boot, InFlightTyped, InFlight
<1>2. CASE Serve
  BY <1>2 DEF Serve, InFlightTyped, InFlight
<1>3. CASE Down /\ (AgentCrash \/ HostReboot)
  <2>1. req' \in [Req -> Request] BY <1>3, NoRequestTyped DEF Down
  <2>2. InFlightTyped' BY <1>3 DEF Down, InFlightTyped, InFlight, NoRequest
  <2>3. Abandoned \subseteq ASN BY DEF Abandoned
  <2>4. crashes' \in 0 .. MaxCrashes BY <1>3, LimitAssumption DEF Down
  <2>5. "down" \in Tunnels BY DEF Tunnels
  <2> HIDE DEF Abandoned
  <2>6. CASE AgentCrash BY <1>3, <2>1, <2>2, <2>3, <2>4, <2>6 DEF AgentCrash, Down
  <2>7. CASE HostReboot BY <1>3, <2>1, <2>2, <2>3, <2>4, <2>5, <2>7 DEF HostReboot, Down
  <2>8. QED BY <1>3, <2>6, <2>7
<1>4. QED BY <1>1, <1>2, <1>3 DEF AgentCrash, HostReboot

(* Every step of the agent keeps the types. *)
LEMMA TypeStep == TypeOK /\ InFlightTyped /\ [Next]_vars => TypeOK' /\ InFlightTyped'
<1> SUFFICES ASSUME TypeOK, InFlightTyped, [Next]_vars
             PROVE  TypeOK' /\ InFlightTyped'
  OBVIOUS
<1>1. CASE \E r \in Req, op \in Requests, a \in ASN, info \in PeerInfos : Start(r, op, a, info)
  BY <1>1, TypeStart
<1>2. CASE \E r \in Req : HandlerStep(r) BY <1>2, TypeHandler
<1>3. CASE \E a \in ASN : RecoverStep(a) BY <1>3, TypeRecover
<1>4. CASE Boot \/ Serve \/ AgentCrash \/ HostReboot BY <1>4, TypeProcess
<1>5. CASE UNCHANGED vars BY <1>5 DEF vars, TypeOK, InFlightTyped, InFlight
<1>6. QED BY <1>1, <1>2, <1>3, <1>4, <1>5 DEF Next

(* Type correctness of the peer handlers and of the recovery. *)
THEOREM TypeCorrect == Spec => []TypeOK
<1>1. Init => TypeOK /\ InFlightTyped
  BY TypeInit DEF Init, InFlightTyped, InFlight, NoRequest
<1>2. TypeOK /\ InFlightTyped /\ [Next]_vars => (TypeOK /\ InFlightTyped)'
  BY TypeStep
<1>3. QED BY <1>1, <1>2, PTL DEF Spec

-----------------------------------------------------------------------------
(***************************************************************************)
(* MismatchHasCause.  It is not inductive: that the two files of an ASN    *)
(* agree again after a handler's second file operation depends on where    *)
(* the other handlers of that ASN are.  The strengthening says that        *)
(* without an overlap /peer and /remove never work on an ASN together      *)
(* (OverlapSeen), that nobody serves while the recovery runs and that the  *)
(* recovery only rewrites files that exist (BootQuiet), and what each      *)
(* handler has already done to the files (FilesPaired).                    *)
(***************************************************************************)
OverlapSeen ==
    \A r, s \in Req :
        /\ InFlight(r) /\ req[r].op = "peer"
        /\ InFlight(s) /\ req[s].op = "remove"
        /\ req[r].asn = req[s].asn
        => <<req[r].asn, "peer">> \in raced

BootQuiet ==
    /\ agent # "serving" => \A r \in Req : ~InFlight(r)
    /\ \A a \in ASN : rec[a] # "idle" => agent = "recovering" /\ HasWG(a)

Calm(a) == <<a, "peer">> \notin raced /\ a \notin fileFault

PairedAt(a) ==
    /\ HalfConfigured(a) => Midway(a)
    /\ \A r \in Req : req[r].asn = a =>
          /\ At(r, "peer", "write_wg") \/ At(r, "peer", "open_bird") => HasWG(a)
          /\ At(r, "peer", "write_bird") => HasWG(a) /\ HasBird(a)
          /\ At(r, "remove", "rm_bird") => ~HasWG(a)

FilesPaired == \A a \in ASN : Calm(a) => PairedAt(a)

MismatchInv == TypeOK /\ InFlightTyped /\ OverlapSeen /\ BootQuiet /\ FilesPaired

(* At first every ASN has both its files or neither (peer.go:43). *)
LEMMA MismatchInit == Init => OverlapSeen /\ BootQuiet /\ FilesPaired
<1> SUFFICES ASSUME Init PROVE OverlapSeen /\ BootQuiet /\ FilesPaired OBVIOUS
<1>1. \A r \in Req : ~InFlight(r) /\ req[r].pc = "idle"
  BY DEF Init, InFlight, NoRequest
<1>2. \A a \in ASN : ~HalfConfigured(a)
  <2>1. InitialInfo \in PeerInfo /\ InitialInfo.endpoint # "absent"
    BY InfoAssumption DEF PeerInfo, Endpoints
  <2>2. GenerateBirdConfig(InitialInfo) # "absent" BY <2>1, BirdFilesTyped
  <2>3. QED BY <2>1, <2>2 DEF Init, HalfConfigured, HasWG, HasBird
<1>3. QED
  BY <1>1, <1>2 DEF Init, OverlapSeen, BootQuiet, FilesPaired, PairedAt, At

(* Handlers leave the process, the recovery and the overlaps alone. *)
LEMMA HandlerKeeps ==
    ASSUME NEW r \in Req, HandlerStep(r)
    PROVE  agent' = agent /\ rec' = rec /\ raced' = raced
BY Zenon DEF HandlerStep, PeerStep, RemoveStep, RestartStep, recovery, overlaps, history,
       CountWG, CountBird, StatWG, StatBird, OpenWG, WriteWG, OpenBird, WriteBird,
       PeerUp, RemoveDown, RemoveWG, RemoveBird, RestartDown, RestartUp,
       RestartV4, RestartV6, Configure

(* A handler step neither forgets nor invents an overlapping /peer and /remove. *)
LEMMA OverlapHandler ==
    ASSUME TypeOK, OverlapSeen, NEW r \in Req, HandlerStep(r)
    PROVE  OverlapSeen'
<1>1. PICK p \in PCs : Moved(r, p) BY HandlerMoves
<1>2. InFlight(r) BY HandlerInFlight
<1>3. raced' = raced BY HandlerKeeps
<1>4. \A s \in Req : InFlight(s)' => InFlight(s) BY <1>1, <1>2 DEF Moved, InFlight
<1>5. QED BY <1>1, <1>3, <1>4 DEF OverlapSeen, Moved

(* What a handler step cannot disturb: the ASNs it does not serve. *)
LEMMA OtherASN ==
    ASSUME NEW r \in Req, NEW p \in PCs, Moved(r, p), raced' = raced,
           fileFault \subseteq fileFault', NEW a \in ASN, a # req[r].asn,
           wgConf'[a] = wgConf[a], birdConf'[a] = birdConf[a],
           Calm(a) => PairedAt(a)
    PROVE  Calm(a)' => PairedAt(a)'
BY DEF Moved, Calm, PairedAt, HalfConfigured, Midway, HasWG, HasBird, At

(* A step that touches no file, of a handler that is between two files
   neither before nor after it. *)
LEMMA NoFileTouched ==
    ASSUME NEW r \in Req, NEW p \in PCs, Moved(r, p), raced' = raced,
           wgConf' = wgConf, birdConf' = birdConf, fileFault' = fileFault,
           req[r].pc \notin {"write_wg", "open_bird", "write_bird", "rm_bird"},
           p \notin {"write_wg", "open_bird", "write_bird", "rm_bird"},
           FilesPaired
    PROVE  FilesPaired'
BY DEF Moved, FilesPaired, Calm, PairedAt, HalfConfigured, Midway, HasWG, HasBird, At

(* A step on the files of one ASN is judged by that ASN alone. *)
LEMMA OneASN ==
    ASSUME NEW r \in Req, NEW p \in PCs, Moved(r, p), raced' = raced,
           fileFault \subseteq fileFault', FilesPaired,
           NEW b \in ASN, req[r].asn = b, Calm(b)' => PairedAt(b)',
           \A a \in ASN \ {b} : wgConf'[a] = wgConf[a] /\ birdConf'[a] = birdConf[a]
    PROVE  FilesPaired'
<1>1. SUFFICES ASSUME NEW a \in ASN PROVE Calm(a)' => PairedAt(a)'
  BY DEF FilesPaired
<1>2. CASE a = b BY <1>2
<1>3. CASE a # b BY <1>3, OtherASN DEF FilesPaired
<1>4. QED BY <1>2, <1>3

(* The two file operations of /peer. *)
LEMMA FilesPeer ==
    ASSUME TypeOK, OverlapSeen, FilesPaired,
           NEW r \in Req, NEW b \in ASN, req[r].asn = b,
           OpenWG(r) \/ WriteWG(r) \/ OpenBird(r) \/ WriteBird(r)
    PROVE  FilesPaired'
<1> req \in [Req -> Request] /\ wgConf \in [ASN -> WGFiles] /\ birdConf \in [ASN -> BirdFiles]
  BY DEF TypeOK
<1>1. HandlerStep(r) BY DEF HandlerStep, PeerStep
<1>2. PICK p \in PCs : Moved(r, p) BY <1>1, HandlerMoves
<1>3. InFlight(r) /\ req[r].op = "peer" /\ raced' = raced
  BY <1>1, HandlerInFlight, HandlerKeeps
  DEF OpenWG, WriteWG, OpenBird, WriteBird, At
<1>4. fileFault \subseteq fileFault'
  BY DEF OpenWG, WriteWG, OpenBird, WriteBird
<1>5. \A a \in ASN \ {b} : wgConf'[a] = wgConf[a] /\ birdConf'[a] = birdConf[a]
  BY DEF OpenWG, WriteWG, OpenBird, WriteBird
<1>6. ASSUME Calm(b)' PROVE PairedAt(b)'
  <2>1. Calm(b) /\ b \notin fileFault' BY <1>3, <1>4, <1>6 DEF Calm
  <2>2. PairedAt(b) BY <1>3, <2>1 DEF FilesPaired
  <2>3. \A s \in Req : req[s].asn = b /\ req[s].op = "remove" => ~InFlight(s)
    BY <1>3, <2>1 DEF OverlapSeen, Calm
  <2>4. \A s \in Req : req[s].asn = b => ~At(s, "remove", "rm_bird")
    BY <2>3 DEF At, InFlight
  <2>5. req[r].info \in PeerInfo BY DEF TypeOK, Request
  <2>6. req[r].info.endpoint # "absent" BY <2>5 DEF PeerInfo, Endpoints
  <2>7. GenerateBirdConfig(req[r].info) # "absent" BY <2>5, BirdFilesTyped
  <2>8. CASE OpenWG(r)
    <3> DEFINE v == "empty"
    <3>1. wgConf' = [wgConf EXCEPT ![b] = v] /\ Goto(r, "write_wg") /\ birdConf' = birdConf
      BY <2>1, <2>8 DEF OpenWG
    <3>2. wgConf'[b] = "empty" /\ birdConf' = birdConf /\ p = "write_wg"
      BY <1>2, <3>1 DEF Goto, Moved
    <3>3. QED
      BY <1>2, <1>3, <2>2, <2>4, <3>2
      DEF Moved, PairedAt, HalfConfigured, Midway, HasWG, HasBird, At
  <2>9. CASE WriteWG(r)
    <3> DEFINE v == req[r].info.endpoint
    <3>1. wgConf' = [wgConf EXCEPT ![b] = v] /\ Goto(r, "open_bird") /\ birdConf' = birdConf
      BY <2>1, <2>9 DEF WriteWG
    <3>2. wgConf'[b] # "absent" /\ birdConf' = birdConf /\ p = "open_bird"
      BY <1>2, <3>1, <2>6 DEF Goto, Moved
    <3>3. QED
      BY <1>2, <1>3, <2>2, <2>4, <3>2
      DEF Moved, PairedAt, HalfConfigured, Midway, HasWG, HasBird, At
  <2>10. CASE OpenBird(r)
    <3> DEFINE v == "empty"
    <3>1. birdConf' = [birdConf EXCEPT ![b] = v] /\ Goto(r, "write_bird") /\ wgConf' = wgConf
      BY <2>1, <2>10 DEF OpenBird
    <3>2. birdConf'[b] # "absent" /\ wgConf' = wgConf /\ p = "write_bird"
      BY <1>2, <3>1 DEF Goto, Moved
    <3>3. HasWG(b) BY <2>2, <2>10 DEF PairedAt, OpenBird
    <3>4. QED
      BY <1>2, <1>3, <2>2, <2>4, <3>2, <3>3
      DEF Moved, PairedAt, HalfConfigured, Midway, HasWG, HasBird, At
  <2>11. CASE WriteBird(r)
    <3> DEFINE v == GenerateBirdConfig(req[r].info)
    <3>1. birdConf' = [birdConf EXCEPT ![b] = v] /\ Goto(r, "wg_up") /\ wgConf' = wgConf
      BY <2>1, <2>11 DEF WriteBird
    <3>2. birdConf'[b] # "absent" /\ wgConf' = wgConf /\ p = "wg_up"
      BY <1>2, <3>1, <2>7 DEF Goto, Moved
    <3>3. HasWG(b) BY <2>2, <2>11 DEF PairedAt, WriteBird
    <3>4. QED
      BY <1>2, <1>3, <2>2, <2>4, <3>2, <3>3
      DEF Moved, PairedAt, HalfConfigured, Midway, HasWG, HasBird, At
  <2>12. QED BY <2>8, <2>9, <2>10, <2>11
<1>7. QED BY <1>2, <1>3, <1>4, <1>5, <1>6, OneASN

(* The two file operations of /remove. *)
LEMMA FilesRemove ==
    ASSUME TypeOK, OverlapSeen, FilesPaired,
           NEW r \in Req, NEW b \in ASN, req[r].asn = b,
           RemoveWG(r) \/ RemoveBird(r)
    PROVE  FilesPaired'
<1> req \in [Req -> Request] /\ wgConf \in [ASN -> WGFiles] /\ birdConf \in [ASN -> BirdFiles]
  BY DEF TypeOK
<1>1. HandlerStep(r) BY DEF HandlerStep, RemoveStep
<1>2. PICK p \in PCs : Moved(r, p) BY <1>1, HandlerMoves
<1>3. InFlight(r) /\ req[r].op = "remove" /\ raced' = raced
  BY <1>1, HandlerInFlight, HandlerKeeps DEF RemoveWG, RemoveBird, At
<1>4. fileFault \subseteq fileFault' BY DEF RemoveWG, RemoveBird
<1>5. \A a \in ASN \ {b} : wgConf'[a] = wgConf[a] /\ birdConf'[a] = birdConf[a]
  BY DEF RemoveWG, RemoveBird
<1>6. ASSUME Calm(b)' PROVE PairedAt(b)'
  <2>1. Calm(b) /\ b \notin fileFault' BY <1>3, <1>4, <1>6 DEF Calm
  <2>2. PairedAt(b) BY <1>3, <2>1 DEF FilesPaired
  <2>3. \A s \in Req : req[s].asn = b /\ req[s].op = "peer" => ~InFlight(s)
    BY <1>3, <2>1 DEF OverlapSeen, Calm
  <2>4. \A s \in Req : req[s].asn = b /\ req[s].op = "peer" =>
            req[s].pc \notin {"write_wg", "open_bird", "write_bird"}
    BY <2>3 DEF InFlight
  <2>5. CASE RemoveWG(r)
    <3>1. wgConf'[b] = "absent" /\ birdConf' = birdConf /\ p = "rm_bird"
      BY <1>2, <1>3, <2>1, <2>5 DEF RemoveWG, Goto, Moved
    <3>2. QED
      BY <1>2, <1>3, <2>2, <2>4, <3>1
      DEF Moved, PairedAt, HalfConfigured, Midway, HasWG, HasBird, At
  <2>6. CASE RemoveBird(r)
    <3>1. birdConf'[b] = "absent" /\ wgConf' = wgConf /\ p = "configure"
      BY <1>2, <1>3, <2>1, <2>6 DEF RemoveBird, Goto, Moved
    <3>2. ~HasWG(b) BY <2>2, <2>6 DEF PairedAt, RemoveBird
    <3>3. QED
      BY <1>2, <1>3, <2>2, <2>4, <3>1, <3>2
      DEF Moved, PairedAt, HalfConfigured, Midway, HasWG, HasBird, At
  <2>7. QED BY <2>5, <2>6
<1>7. QED BY <1>2, <1>3, <1>4, <1>5, <1>6, OneASN

(* Every handler step. *)
LEMMA FilesHandler ==
    ASSUME TypeOK, InFlightTyped, OverlapSeen, FilesPaired, NEW r \in Req, HandlerStep(r)
    PROVE  FilesPaired'
<1>1. PICK p \in PCs : Moved(r, p) BY HandlerMoves
<1>2. req[r].asn \in ASN BY HandlerInFlight DEF InFlightTyped
<1>3. CASE OpenWG(r) \/ WriteWG(r) \/ OpenBird(r) \/ WriteBird(r)
  BY <1>2, <1>3, FilesPeer
<1>4. CASE RemoveWG(r) \/ RemoveBird(r) BY <1>2, <1>4, FilesRemove
<1>5. ASSUME wgConf' = wgConf, birdConf' = birdConf, fileFault' = fileFault,
             req[r].pc \notin {"write_wg", "open_bird", "write_bird", "rm_bird"},
             req'[r].pc \notin {"write_wg", "open_bird", "write_bird", "rm_bird"}
      PROVE  FilesPaired'
  BY <1>1, <1>5, HandlerKeeps, NoFileTouched DEF Moved
<1> req \in [Req -> Request] BY DEF TypeOK
<1> USE DEF At, Goto, Reply, files, history, overlaps
<1>6. CASE CountWG(r) BY <1>5, <1>6 DEF CountWG
<1>7. CASE CountBird(r)
  <2>1. CASE Reply(r, 500) BY <1>5, <1>7, <2>1 DEF CountBird
  <2>2. CASE Goto(r, "stat_wg") BY <1>5, <1>7, <2>2 DEF CountBird
  <2>3. QED BY <1>7, <2>1, <2>2 DEF CountBird
<1>8. CASE StatWG(r) BY <1>5, <1>8 DEF StatWG
<1>9. CASE StatBird(r)
  <2>1. req[r].pc = "stat_bird" /\ wgConf' = wgConf /\ birdConf' = birdConf
        /\ fileFault' = fileFault
    BY <1>9 DEF StatBird
  <2> DEFINE q == [req[r] EXCEPT !.pc = "open_wg", !.n = 0, !.notes = {}]
  <2>2. Reply(r, 503) \/ req' = [req EXCEPT ![r] = q]
    BY <1>9, Zenon DEF StatBird
  <2>3. q.pc = "open_wg" BY DEF Request
  <2> HIDE DEF q
  <2>4. CASE Reply(r, 503)
    <3>1. req'[r].pc = "done" BY <2>4
    <3>2. QED BY <1>5, <2>1, <3>1
  <2>5. CASE req' = [req EXCEPT ![r] = q]
    <3>1. req'[r].pc = "open_wg" BY <2>3, <2>5
    <3>2. QED BY <1>5, <2>1, <3>1
  <2>6. QED BY <2>2, <2>4, <2>5
<1>10. CASE PeerUp(r) BY <1>5, <1>10 DEF PeerUp
<1>11. CASE RemoveDown(r) BY <1>5, <1>11 DEF RemoveDown
<1>12. CASE RestartDown(r) BY <1>5, <1>12 DEF RestartDown
<1>13. CASE RestartUp(r) BY <1>5, <1>13 DEF RestartUp
<1>14. CASE RestartV4(r) BY <1>5, <1>14 DEF RestartV4
<1>15. CASE RestartV6(r) BY <1>5, <1>15 DEF RestartV6
<1>16. CASE Configure(r) BY <1>5, <1>16 DEF Configure
<1>17. QED
  BY <1>3, <1>4, <1>6, <1>7, <1>8, <1>9, <1>10, <1>11, <1>12, <1>13, <1>14, <1>15, <1>16
  DEF HandlerStep, PeerStep, RemoveStep, RestartStep

(* A handler step leaves every half-configured ASN with its cause. *)
LEMMA MismatchHandler ==
    ASSUME MismatchInv, NEW r \in Req, HandlerStep(r)
    PROVE  OverlapSeen' /\ BootQuiet' /\ FilesPaired'
<1>1. OverlapSeen' /\ FilesPaired'
  BY OverlapHandler, FilesHandler DEF MismatchInv
<1>2. agent = "serving" /\ agent' = "serving" /\ rec' = rec
  BY HandlerInFlight, HandlerKeeps DEF MismatchInv, BootQuiet
<1>3. QED BY <1>1, <1>2 DEF MismatchInv, BootQuiet

(* A request starts: it holds no file yet, and an overlap is recorded. *)
LEMMA MismatchStart ==
    ASSUME MismatchInv, NEW r \in Req, NEW op \in Requests, NEW a \in ASN,
           NEW info \in PeerInfos, Start(r, op, a, info)
    PROVE  OverlapSeen' /\ BootQuiet' /\ FilesPaired'
<1> USE DEF MismatchInv
<1>1. /\ ~InFlight(r) /\ agent = "serving" /\ agent' = agent /\ rec' = rec
      /\ wgConf' = wgConf /\ birdConf' = birdConf /\ fileFault' = fileFault
      /\ raced \subseteq raced'
  BY DEF Start, files, recovery
<1>2. /\ req'[r].op = op /\ req'[r].asn = a /\ req'[r].pc \in {"count_wg", "down"}
      /\ \A s \in Req \ {r} : req'[s] = req[s]
  BY DEF Start, TypeOK, NoRequest
<1>3. OverlapSeen'
  <2>1. ASSUME NEW s \in Req, s # r, InFlight(s), req[s].asn = a,
               {op, req[s].op} = {"peer", "remove"}
        PROVE  <<a, "peer">> \in raced'
    BY <2>1 DEF Start, Ops
  <2>2. QED BY <1>1, <1>2, <2>1 DEF OverlapSeen, InFlight
<1>4. BootQuiet' BY <1>1 DEF BootQuiet, HasWG
<1>5. FilesPaired'
  BY <1>1, <1>2 DEF FilesPaired, PairedAt, Calm, HalfConfigured, Midway, HasWG, HasBird,
                    At, InFlight
<1>6. QED BY <1>3, <1>4, <1>5

(* The recovery only rewrites files of ASNs nobody is serving. *)
LEMMA MismatchRecover ==
    ASSUME MismatchInv, NEW a \in ASN, RecoverStep(a)
    PROVE  OverlapSeen' /\ BootQuiet' /\ FilesPaired'
<1> USE DEF MismatchInv
<1> wgConf \in [ASN -> WGFiles] /\ rec \in [ASN -> {"idle", "todo", "up", "strip", "rewrite", "again", "done"}]
  BY DEF TypeOK
<1>1. agent = "recovering" /\ agent' = agent /\ req' = req /\ raced' = raced
      /\ birdConf' = birdConf /\ rec[a] # "idle"
  BY Zenon DEF RecoverStep, RecoverAcquire, RecoverUp, RecoverStrip, RecoverRewrite,
               RecoverAgain, Recovering, files, overlaps, history
<1>2. fileFault \subseteq fileFault'
  BY DEF RecoverStep, RecoverAcquire, RecoverUp, RecoverStrip, RecoverRewrite,
         RecoverAgain, history
<1>3. \A r \in Req : ~InFlight(r) /\ ~InFlight(r)'
  BY <1>1 DEF BootQuiet, InFlight
<1>4. HasWG(a) BY <1>1 DEF BootQuiet
<1>5. \A b \in ASN : HasWG(b)' = HasWG(b)
  <2>1. CASE wgConf' = wgConf BY <2>1 DEF HasWG
  <2>2. CASE wgConf' # wgConf
    BY <1>4, <2>2 DEF RecoverStep, RecoverAcquire, RecoverUp, RecoverStrip, RecoverRewrite,
                RecoverAgain, HasWG, files
  <2>3. QED BY <2>1, <2>2
<1>6. \A b \in ASN : b # a => rec'[b] = rec[b]
  BY DEF RecoverStep, RecoverAcquire, RecoverUp, RecoverStrip, RecoverRewrite, RecoverAgain
<1>7. BootQuiet' BY <1>1, <1>3, <1>4, <1>5, <1>6 DEF BootQuiet
<1>8. OverlapSeen' BY <1>3 DEF OverlapSeen
<1>9. FilesPaired'
  BY <1>1, <1>2, <1>5
  DEF FilesPaired, PairedAt, Calm, HalfConfigured, Midway, HasBird, At
<1>10. QED BY <1>7, <1>8, <1>9

(* Start-up, the end of the recovery, and crashes. *)
LEMMA MismatchProcess ==
    ASSUME MismatchInv, Boot \/ Serve \/ AgentCrash \/ HostReboot
    PROVE  OverlapSeen' /\ BootQuiet' /\ FilesPaired'
<1> USE DEF MismatchInv
<1>1. wgConf' = wgConf /\ birdConf' = birdConf /\ raced' = raced
  BY DEF Boot, Serve, AgentCrash, HostReboot, Down, files, overlaps, history
<1>2. CASE Boot
  <2>1. req' = req /\ fileFault' = fileFault BY <1>2 DEF Boot, history
  <2>2. BootQuiet' BY <1>1, <1>2, <2>1 DEF Boot, BootQuiet, InFlight, HasWG
  <2>3. QED
    BY <1>1, <2>1, <2>2 DEF OverlapSeen, InFlight, FilesPaired, PairedAt, Calm,
                            HalfConfigured, Midway, HasWG, HasBird, At
<1>3. CASE Serve
  <2>1. req' = req /\ fileFault' = fileFault BY <1>3 DEF Serve, history
  <2>2. BootQuiet' BY <1>1, <1>3, <2>1 DEF Serve, BootQuiet, InFlight, HasWG
  <2>3. QED
    BY <1>1, <2>1, <2>2 DEF OverlapSeen, InFlight, FilesPaired, PairedAt, Calm,
                            HalfConfigured, Midway, HasWG, HasBird, At
<1>4. CASE Down
  <2>1. /\ \A r \in Req : ~InFlight(r)' /\ req'[r].pc = "idle"
        /\ fileFault' = fileFault \union Abandoned
        /\ \A a \in ASN : rec'[a] = "idle"
    BY <1>4 DEF Down, InFlight, NoRequest
  <2>2. ASSUME NEW a \in ASN, Calm(a)' PROVE ~HalfConfigured(a)'
    <3>1. Calm(a) /\ a \notin Abandoned BY <1>1, <2>1, <2>2 DEF Calm
    <3>2. PairedAt(a) BY <3>1 DEF FilesPaired
    <3>3. ~Midway(a) BY <3>1 DEF Abandoned, Midway, InFlight
    <3>4. QED BY <1>1, <3>2, <3>3 DEF PairedAt, HalfConfigured, HasWG, HasBird
  <2>3. QED
    BY <2>1, <2>2 DEF OverlapSeen, BootQuiet, FilesPaired, PairedAt, At
<1>5. QED BY <1>2, <1>3, <1>4 DEF AgentCrash, HostReboot

(* Every step of the agent leaves every half-configured ASN with its cause. *)
LEMMA MismatchStep == MismatchInv /\ [Next]_vars => MismatchInv'
<1> SUFFICES ASSUME MismatchInv, [Next]_vars PROVE OverlapSeen' /\ BootQuiet' /\ FilesPaired'
  BY TypeStep DEF MismatchInv
<1>1. CASE \E r \in Req, op \in Requests, a \in ASN, info \in PeerInfos : Start(r, op, a, info)
  BY <1>1, MismatchStart
<1>2. CASE \E r \in Req : HandlerStep(r) BY <1>2, MismatchHandler
<1>3. CASE \E a \in ASN : RecoverStep(a) BY <1>3, MismatchRecover
<1>4. CASE Boot \/ Serve \/ AgentCrash \/ HostReboot BY <1>4, MismatchProcess
<1>5. CASE UNCHANGED vars
  BY <1>5 DEF vars, MismatchInv, OverlapSeen, BootQuiet, FilesPaired, PairedAt, Calm,
              HalfConfigured, Midway, HasWG, HasBird, At, InFlight
<1>6. QED BY <1>1, <1>2, <1>3, <1>4, <1>5 DEF Next

(* A node refuses new peers because its two configuration directories differ
   only after a /peer and a /remove of one ASN overlapped, a file operation
   failed or a crash struck, or while a handler is between its two files. *)
THEOREM MismatchAlwaysHasCause == Spec => []MismatchHasCause
<1>1. Init => MismatchInv
  BY TypeInit, MismatchInit DEF MismatchInv, Init, InFlightTyped, InFlight, NoRequest
<1>2. MismatchInv /\ [Next]_vars => MismatchInv' BY MismatchStep
<1>3. MismatchInv => MismatchHasCause
  BY DEF MismatchInv, FilesPaired, PairedAt, Calm, MismatchHasCause
<1>4. QED BY <1>1, <1>2, <1>3, PTL DEF Spec
-----------------------------------------------------------------------------
(***************************************************************************)
(* What the recovery and the answers promise.  A stripped endpoint that    *)
(* was not told to the bot is on its way to the notification, was lost on  *)
(* the way, or its file is half done (Reporting).  A half made interface   *)
(* is one whose wg-quick was killed (PartialSeen).  While the recovery     *)
(* runs, a configured tunnel was up, runs its file, or is down with its    *)
(* goroutine ahead of it, and no second wg-quick sees the host name again  *)
(* (Recovered).                                                            *)
(***************************************************************************)
Reporting ==
    /\ dnsFailed # {} => agent = "recovering"
    /\ ServerURL => \A a \in unreported :
          a \in fileFault \union lost \union dnsFailed \/ rec[a] \in {"rewrite", "again"}

PartialSeen == \A a \in ASN : tunnel[a] = "partial" => a \in cmdFault

RecoveredAt(a) ==
    /\ a \notin fileFault \union cmdFault =>
         /\ HasWG(a) /\ rec[a] = "idle" => tunnel[a] # "down"
         /\ rec[a] = "done" => tunnel[a] = wgConf[a]
         /\ rec[a] \notin {"idle", "done"} => tunnel[a] = "down"
    /\ rec[a] = "again" => wgConf[a] = "none"

Recovered == agent = "recovering" => \A a \in ASN : RecoveredAt(a)

BootInv == MismatchInv /\ Reporting /\ PartialSeen /\ Recovered

(* Before the agent starts nothing was stripped and nothing is promised. *)
LEMMA BootInvInit == Init => Reporting /\ PartialSeen /\ Recovered
BY DEF Init, Reporting, PartialSeen, Recovered

(* Handlers leave what the recovery reports alone. *)
LEMMA HandlerLeavesRecovery ==
    ASSUME NEW r \in Req, HandlerStep(r)
    PROVE  /\ UNCHANGED <<rec, dnsFailed, unreported, lost>>
           /\ fileFault \subseteq fileFault'
<1>1. recovery' = recovery
  BY Zenon DEF HandlerStep, PeerStep, RemoveStep, RestartStep,
       CountWG, CountBird, StatWG, StatBird, OpenWG, WriteWG, OpenBird, WriteBird,
       PeerUp, RemoveDown, RemoveWG, RemoveBird, RestartDown, RestartUp,
       RestartV4, RestartV6, Configure
<1>2. fileFault \subseteq fileFault'
  <2>1. fileFault' = fileFault \/ fileFault' = fileFault \union {req[r].asn}
    BY Zenon DEF HandlerStep, PeerStep, RemoveStep, RestartStep, history,
       CountWG, CountBird, StatWG, StatBird, OpenWG, WriteWG, OpenBird, WriteBird,
       PeerUp, RemoveDown, RemoveWG, RemoveBird, RestartDown, RestartUp,
       RestartV4, RestartV6, Configure
  <2>2. QED BY <2>1
<1>3. QED BY <1>1, <1>2 DEF recovery

(* A goroutine of the recovery takes the endpoint out, writes the file and
   starts the tunnel again; only then is the ASN in the notification. *)
LEMMA ReportingRecover ==
    ASSUME MismatchInv, Reporting, NEW a \in ASN, RecoverStep(a)
    PROVE  Reporting'
<1> rec \in [ASN -> {"idle", "todo", "up", "strip", "rewrite", "again", "done"}]
    /\ unreported \subseteq ASN
  BY DEF MismatchInv, TypeOK
<1>1. agent = "recovering" /\ agent' = "recovering" /\ lost' = lost
  BY Zenon DEF RecoverStep, RecoverAcquire, RecoverUp, RecoverStrip, RecoverRewrite,
               RecoverAgain, Recovering, files, overlaps, history
<1>2. CASE RecoverAcquire(a) BY <1>1, <1>2 DEF RecoverAcquire, Recovering, Reporting, history
<1>3. CASE RecoverUp(a)
  <2>1. /\ UNCHANGED <<dnsFailed, unreported, fileFault>> /\ rec[a] = "up"
        /\ \E s \in {"strip", "done"} : rec' = [rec EXCEPT ![a] = s]
    BY <1>3 DEF RecoverUp, Recovering
  <2>2. QED BY <1>1, <2>1 DEF Reporting
<1>4. CASE RecoverStrip(a) BY <1>1, <1>4 DEF RecoverStrip, Recovering, Reporting
<1>5. CASE RecoverRewrite(a) BY <1>1, <1>5 DEF RecoverRewrite, Recovering, Reporting
<1>6. CASE RecoverAgain(a)
  <2>1. /\ dnsFailed' = dnsFailed \union {a} /\ UNCHANGED <<unreported, fileFault>>
        /\ rec' = [rec EXCEPT ![a] = "done"]
    BY <1>6 DEF RecoverAgain
  <2>2. QED BY <1>1, <2>1 DEF Reporting
<1>7. QED BY <1>2, <1>3, <1>4, <1>5, <1>6 DEF RecoverStep

(* Every step keeps track of the endpoints that were not reported yet. *)
LEMMA ReportingStep == MismatchInv /\ Reporting /\ [Next]_vars => Reporting'
<1> SUFFICES ASSUME MismatchInv, Reporting, [Next]_vars PROVE Reporting' OBVIOUS
<1> unreported \subseteq ASN BY DEF MismatchInv, TypeOK
<1>1. CASE \E r \in Req, op \in Requests, a \in ASN, info \in PeerInfos : Start(r, op, a, info)
  <2>1. UNCHANGED <<agent, rec, dnsFailed, unreported, lost, fileFault>>
    BY <1>1 DEF Start, recovery
  <2>2. QED BY <2>1 DEF Reporting
<1>2. CASE \E r \in Req : HandlerStep(r)
  <2>1. UNCHANGED <<agent, rec, dnsFailed, unreported, lost>> /\ fileFault \subseteq fileFault'
    BY <1>2, HandlerLeavesRecovery, HandlerKeeps
  <2>2. QED BY <2>1 DEF Reporting
<1>3. CASE \E a \in ASN : RecoverStep(a) BY <1>3, ReportingRecover
<1>4. CASE Boot
  <2>1. agent = "stopped" /\ dnsFailed' = {} /\ UNCHANGED <<unreported, lost, fileFault>>
    BY <1>4 DEF Boot, history
  <2>2. \A a \in ASN : rec[a] = "idle" BY <2>1 DEF MismatchInv, BootQuiet
  <2>3. QED BY <2>1, <2>2 DEF Reporting
<1>5. CASE Serve
  <2>1. \A a \in ASN : rec[a] \notin {"rewrite", "again"} BY <1>5 DEF Serve
  <2>2. dnsFailed' = {} /\ fileFault' = fileFault BY <1>5 DEF Serve, history
  <2>3. QED BY <1>5, <2>1, <2>2 DEF Serve, Reporting
<1>6. CASE Down
  BY <1>6 DEF Down, Reporting
<1>7. CASE UNCHANGED vars BY <1>7 DEF vars, Reporting
<1>8. QED BY <1>1, <1>2, <1>3, <1>4, <1>5, <1>6, <1>7 DEF Next, AgentCrash, HostReboot

(* The ways wg-quick up may end on an interface that is down. *)
LEMMA UpResults ==
    ASSUME NEW conf \in WGFiles, NEW cur \in Tunnels, NEW out \in UpOutcomes(conf, cur)
    PROVE  \/ out[1] = cur /\ out[2] = "refused"
           \/ out[1] = conf /\ out[2] = "ok"
           \/ conf = "host" /\ out[1] = "down" /\ out[2] = "dns"
           \/ conf = "host" /\ out[1] = "partial" /\ out[2] = "dns killed"
           \/ out[1] = "down" /\ out[2] \in {"failed", "killed"}
           \/ out[1] = "partial" /\ out[2] = "killed"
<1>1. CASE conf = "absent" \/ cur # "down"
  <2>1. out = <<cur, "refused">> BY <1>1 DEF UpOutcomes
  <2>2. QED BY <2>1
<1>2. CASE ~(conf = "absent" \/ cur # "down")
  <2>1. \/ out = <<conf, "ok">>
        \/ conf = "host" /\ (out = <<"down", "dns">> \/ out = <<"partial", "dns killed">>)
        \/ out = <<"down", "failed">> \/ out = <<"down", "killed">>
        \/ out = <<"partial", "killed">>
    BY <1>2 DEF UpOutcomes
  <2>2. \A x, y : out = <<x, y>> => out[1] = x /\ out[2] = y OBVIOUS
  <2>3. QED BY <2>1, <2>2, Zenon
<1>3. QED BY <1>1, <1>2

(* It leaves half an interface only if it was killed ... *)
LEMMA UpPartial ==
    ASSUME NEW conf \in WGFiles, NEW cur \in Tunnels, NEW out \in UpOutcomes(conf, cur),
           out[1] = "partial"
    PROVE  cur = "partial" \/ out[2] \in {"dns killed", "killed"}
<1> conf # "partial" BY DEF WGFiles, Endpoints
<1> QED BY UpResults

(* The outcome of wg-quick when no fault is recorded: an interface that was
   down runs the file there is, and a running one keeps running. *)
LEMMA UpWorks ==
    ASSUME NEW conf \in WGFiles, NEW cur \in Tunnels, NEW out \in UpOutcomes(conf, cur),
           ~Failed(out[2])
    PROVE  out[1] = IF conf = "absent" \/ cur # "down" THEN cur ELSE conf
<1>1. CASE conf = "absent" \/ cur # "down"
  <2>1. out = <<cur, "refused">> BY <1>1 DEF UpOutcomes
  <2>2. QED BY <1>1, <2>1
<1>2. CASE ~(conf = "absent" \/ cur # "down")
  <2>1. \/ out = <<conf, "ok">>
        \/ out = <<"down", "dns">> \/ out = <<"partial", "dns killed">>
        \/ out = <<"down", "failed">> \/ out = <<"down", "killed">>
        \/ out = <<"partial", "killed">>
    BY <1>2 DEF UpOutcomes
  <2>2. \A x, y : out = <<x, y>> => out[1] = x /\ out[2] = y OBVIOUS
  <2>3. Failed("dns") /\ Failed("dns killed") /\ Failed("failed") /\ Failed("killed")
    BY DEF Failed
  <2>4. out = <<conf, "ok">> BY <2>1, <2>2, <2>3, Zenon
  <2>5. QED BY <1>2, <2>4
<1>3. QED BY <1>1, <1>2

(* A name that does not resolve leaves no interface; no other file than one
   with a host name meets it. *)
LEMMA UpUnresolved ==
    ASSUME NEW conf \in WGFiles, NEW cur \in Tunnels, NEW out \in UpOutcomes(conf, cur),
           out[2] \in {"dns", "dns killed"}
    PROVE  conf = "host" /\ (out[2] = "dns" => out[1] = "down")
BY UpResults

(* The recovery's own wg-quick, between the places before it and after it. *)
LEMMA RecoverySteps ==
    ASSUME MismatchInv, NEW a \in ASN, RecoverStep(a)
    PROVE  /\ agent = "recovering" /\ agent' = "recovering" /\ HasWG(a)
           /\ fileFault \subseteq fileFault' /\ cmdFault \subseteq cmdFault'
           /\ \A b \in ASN \ {a} :
                 wgConf'[b] = wgConf[b] /\ tunnel'[b] = tunnel[b] /\ rec'[b] = rec[b]
           /\ \/ UNCHANGED <<tunnel, cmdFault>>
              \/ /\ wgConf' = wgConf
                 /\ \E out \in UpOutcomes(wgConf[a], tunnel[a]) :
                      /\ tunnel'[a] = out[1]
                      /\ LetDown(out[2]) => a \in cmdFault'
<1> /\ rec \in [ASN -> {"idle", "todo", "up", "strip", "rewrite", "again", "done"}]
    /\ wgConf \in [ASN -> WGFiles] /\ tunnel \in [ASN -> Tunnels]
  BY DEF MismatchInv, TypeOK
<1>1. agent = "recovering" /\ agent' = "recovering" /\ HasWG(a)
  BY DEF RecoverStep, RecoverAcquire, RecoverUp, RecoverStrip, RecoverRewrite,
         RecoverAgain, Recovering, MismatchInv, BootQuiet
<1>2. fileFault \subseteq fileFault' /\ cmdFault \subseteq cmdFault'
  BY DEF RecoverStep, RecoverAcquire, RecoverUp, RecoverStrip, RecoverRewrite,
         RecoverAgain, history
<1>3. \A b \in ASN \ {a} : wgConf'[b] = wgConf[b] /\ tunnel'[b] = tunnel[b] /\ rec'[b] = rec[b]
  BY DEF RecoverStep, RecoverAcquire, RecoverUp, RecoverStrip, RecoverRewrite,
         RecoverAgain, files, daemons
<1>4. CASE RecoverAcquire(a) \/ RecoverStrip(a) \/ RecoverRewrite(a)
  BY <1>1, <1>2, <1>3, <1>4
     DEF RecoverAcquire, RecoverStrip, RecoverRewrite, daemons, history
<1>5. CASE RecoverUp(a) \/ RecoverAgain(a)
  <2>1. wgConf' = wgConf BY <1>5 DEF RecoverUp, RecoverAgain, files
  <2>2. PICK out \in UpOutcomes(wgConf[a], tunnel[a]) :
            /\ tunnel' = [tunnel EXCEPT ![a] = out[1]]
            /\ cmdFault' = IF LetDown(out[2]) THEN cmdFault \union {a} ELSE cmdFault
    BY <1>5 DEF RecoverUp, RecoverAgain
  <2>3. tunnel'[a] = out[1] /\ (LetDown(out[2]) => a \in cmdFault') BY <2>2
  <2>4. QED BY <1>1, <1>2, <1>3, <2>1, <2>3
<1>6. QED BY <1>4, <1>5 DEF RecoverStep

(* No handler leaves half an interface behind that it does not account for. *)
LEMMA HandlerPartial ==
    ASSUME TypeOK, InFlightTyped, PartialSeen, NEW r \in Req, HandlerStep(r)
    PROVE  PartialSeen'
<1> DEFINE a == req[r].asn
<1> wgConf \in [ASN -> WGFiles] /\ tunnel \in [ASN -> Tunnels] BY DEF TypeOK
<1>1. a \in ASN BY HandlerInFlight DEF InFlightTyped
<1>2. CASE UNCHANGED tunnel /\ cmdFault \subseteq cmdFault' BY <1>2 DEF PartialSeen
<1>3. CASE PeerUp(r) \/ RestartUp(r)
  <2>1. PICK out \in UpOutcomes(wgConf[a], tunnel[a]) :
            /\ tunnel' = [tunnel EXCEPT ![a] = out[1]]
            /\ cmdFault' = IF Failed(out[2]) THEN cmdFault \union {a} ELSE cmdFault
    BY <1>3 DEF PeerUp, RestartUp
  <2>2. out[1] = "partial" => tunnel[a] = "partial" \/ Failed(out[2])
    BY <1>1, UpPartial DEF Failed
  <2>3. QED BY <1>1, <2>1, <2>2 DEF PartialSeen
<1>4. CASE RemoveDown(r) \/ RestartDown(r)
  <2>1. PICK out \in DownOutcomes(wgConf[a], tunnel[a]) :
            /\ tunnel' = [tunnel EXCEPT ![a] = out[1]]
            /\ cmdFault' = IF Failed(out[2]) THEN cmdFault \union {a} ELSE cmdFault
    BY <1>4 DEF RemoveDown, RestartDown
  <2>2. out[1] \in {tunnel[a], "down"} BY DEF DownOutcomes
  <2>3. QED BY <1>1, <2>1, <2>2 DEF PartialSeen
<1>5. \/ UNCHANGED tunnel /\ cmdFault \subseteq cmdFault'
      \/ PeerUp(r) \/ RestartUp(r) \/ RemoveDown(r) \/ RestartDown(r)
  BY DEF HandlerStep, PeerStep, RemoveStep, RestartStep, CountWG, CountBird, StatWG,
         StatBird, OpenWG, WriteWG, OpenBird, WriteBird, RemoveWG, RemoveBird,
         RestartV4, RestartV6, Configure, history, daemons
<1>6. QED BY <1>2, <1>3, <1>4, <1>5

(* Half an interface is always accounted for. *)
LEMMA PartialStep == MismatchInv /\ PartialSeen /\ [Next]_vars => PartialSeen'
<1> SUFFICES ASSUME MismatchInv, PartialSeen, [Next]_vars PROVE PartialSeen' OBVIOUS
<1> wgConf \in [ASN -> WGFiles] /\ tunnel \in [ASN -> Tunnels] BY DEF MismatchInv, TypeOK
<1>1. CASE \E r \in Req, op \in Requests, a \in ASN, info \in PeerInfos : Start(r, op, a, info)
  BY <1>1 DEF Start, PartialSeen, daemons
<1>2. CASE \E r \in Req : HandlerStep(r) BY <1>2, HandlerPartial DEF MismatchInv
<1>3. CASE \E a \in ASN : RecoverStep(a)
  <2>1. PICK a \in ASN : RecoverStep(a) BY <1>3
  <2>2. CASE UNCHANGED <<tunnel, cmdFault>> BY <2>2 DEF PartialSeen
  <2>3. ASSUME NEW out \in UpOutcomes(wgConf[a], tunnel[a]), tunnel'[a] = out[1],
               LetDown(out[2]) => a \in cmdFault'
        PROVE  tunnel'[a] = "partial" => a \in cmdFault'
    <3>1. out[1] = "partial" => tunnel[a] = "partial" \/ LetDown(out[2])
      BY UpPartial DEF LetDown, Failed
    <3>2. cmdFault \subseteq cmdFault' BY <2>1, RecoverySteps
    <3>3. QED BY <2>3, <3>1, <3>2 DEF PartialSeen
  <2>4. QED BY <2>1, <2>2, <2>3, RecoverySteps DEF PartialSeen
<1>4. CASE Boot \/ Serve BY <1>4 DEF Boot, Serve, PartialSeen, daemons, history
<1>5. CASE AgentCrash BY <1>5 DEF AgentCrash, PartialSeen, daemons
<1>6. CASE HostReboot BY <1>6 DEF HostReboot, PartialSeen
<1>7. CASE UNCHANGED vars BY <1>7 DEF vars, PartialSeen
<1>8. QED BY <1>1, <1>2, <1>3, <1>4, <1>5, <1>6, <1>7 DEF Next

(* Every step of the recovery leaves a tunnel that runs its file, one that is
   down with a goroutine ahead of it, or a recorded failure behind. *)
LEMMA RecoveredRecover ==
    ASSUME MismatchInv, Recovered, NEW a \in ASN, RecoverStep(a)
    PROVE  Recovered'
<1> /\ rec \in [ASN -> {"idle", "todo", "up", "strip", "rewrite", "again", "done"}]
    /\ wgConf \in [ASN -> WGFiles] /\ tunnel \in [ASN -> Tunnels]
  BY DEF MismatchInv, TypeOK
<1>1. agent = "recovering" /\ agent' = "recovering" /\ HasWG(a) BY RecoverySteps
<1>2. fileFault \subseteq fileFault' /\ cmdFault \subseteq cmdFault' BY RecoverySteps
<1>3. \A b \in ASN \ {a} : RecoveredAt(b)'
  BY <1>1, <1>2, RecoverySteps DEF Recovered, RecoveredAt, HasWG
<1>4. SUFFICES RecoveredAt(a)' BY <1>1, <1>3 DEF Recovered
<1>5. RecoveredAt(a) BY <1>1 DEF Recovered
<1>6. CASE RecoverAcquire(a)
  BY <1>2, <1>5, <1>6 DEF RecoverAcquire, Recovering, RecoveredAt, files, daemons, history
<1>7. CASE RecoverUp(a)
  <2>1. PICK out \in UpOutcomes(wgConf[a], tunnel[a]) :
            /\ tunnel' = [tunnel EXCEPT ![a] = out[1]]
            /\ rec' = [rec EXCEPT ![a] = IF out[2] \in {"dns", "dns killed"}
                                         THEN "strip" ELSE "done"]
            /\ cmdFault' = IF LetDown(out[2]) THEN cmdFault \union {a} ELSE cmdFault
    BY <1>7 DEF RecoverUp
  <2>2. rec[a] = "up" /\ UNCHANGED wgConf BY <1>7 DEF RecoverUp, Recovering, files
  <2>3. SUFFICES ASSUME a \notin fileFault' \union cmdFault'
                 PROVE  /\ rec'[a] = "done" => tunnel'[a] = wgConf'[a]
                        /\ rec'[a] # "done" => tunnel'[a] = "down"
    BY <2>1, <2>2 DEF RecoveredAt
  <2>4. ~LetDown(out[2]) /\ tunnel[a] = "down"
    BY <1>2, <1>5, <2>1, <2>2, <2>3 DEF RecoveredAt
  <2>5. CASE out[2] \in {"dns", "dns killed"}
    <3>1. out[1] = "down" BY <2>4, <2>5, UpUnresolved DEF LetDown, Failed
    <3>2. QED BY <2>1, <2>5, <3>1
  <2>6. CASE out[2] \notin {"dns", "dns killed"}
    <3>1. ~Failed(out[2]) BY <2>4, <2>6 DEF LetDown
    <3>2. out[1] = wgConf[a] BY <1>1, <2>4, <3>1, UpWorks DEF HasWG
    <3>3. QED BY <2>1, <2>2, <2>6, <3>2
  <2>7. QED BY <2>5, <2>6
<1>8. CASE RecoverStrip(a)
  BY <1>2, <1>5, <1>8 DEF RecoverStrip, Recovering, RecoveredAt, daemons
<1>9. CASE RecoverRewrite(a)
  BY <1>2, <1>5, <1>9 DEF RecoverRewrite, Recovering, RecoveredAt, daemons
<1>10. CASE RecoverAgain(a)
  <2>1. PICK out \in UpOutcomes(wgConf[a], tunnel[a]) :
            /\ tunnel' = [tunnel EXCEPT ![a] = out[1]]
            /\ cmdFault' = IF LetDown(out[2]) THEN cmdFault \union {a} ELSE cmdFault
    BY <1>10 DEF RecoverAgain
  <2>2. /\ rec[a] = "again" /\ rec'[a] = "done" /\ UNCHANGED wgConf /\ wgConf[a] = "none"
    BY <1>5, <1>10 DEF RecoverAgain, Recovering, RecoveredAt, files
  <2>3. SUFFICES ASSUME a \notin fileFault' \union cmdFault' PROVE tunnel'[a] = wgConf'[a]
    BY <2>2 DEF RecoveredAt
  <2>4. ~LetDown(out[2]) /\ tunnel[a] = "down"
    BY <1>2, <1>5, <2>1, <2>2, <2>3 DEF RecoveredAt
  <2>5. out[2] # "dns" BY <2>2, UpUnresolved
  <2>6. out[1] = wgConf[a] BY <2>2, <2>4, <2>5, UpWorks DEF LetDown
  <2>7. QED BY <2>1, <2>2, <2>6
<1>11. QED BY <1>6, <1>7, <1>8, <1>9, <1>10 DEF RecoverStep

(* The recovery's promise is kept by every step. *)
LEMMA RecoveredStep == MismatchInv /\ Recovered /\ [Next]_vars => Recovered'
<1> SUFFICES ASSUME MismatchInv, Recovered, [Next]_vars PROVE Recovered' OBVIOUS
<1> tunnel \in [ASN -> Tunnels] BY DEF MismatchInv, TypeOK
<1>1. CASE \E r \in Req, op \in Requests, a \in ASN, info \in PeerInfos : Start(r, op, a, info)
  BY <1>1 DEF Start, Recovered
<1>2. CASE \E r \in Req : HandlerStep(r)
  <2>1. agent' = "serving" BY <1>2, HandlerInFlight, HandlerKeeps DEF MismatchInv, BootQuiet
  <2>2. QED BY <2>1 DEF Recovered
<1>3. CASE \E a \in ASN : RecoverStep(a) BY <1>3, RecoveredRecover
<1>4. CASE Boot BY <1>4 DEF Boot, Recovered, RecoveredAt, HasWG, files, daemons
<1>5. CASE Serve BY <1>5 DEF Serve, Recovered
<1>6. CASE Down BY <1>6 DEF Down, Recovered
<1>7. CASE UNCHANGED vars BY <1>7 DEF vars, Recovered, RecoveredAt, HasWG
<1>8. QED BY <1>1, <1>2, <1>3, <1>4, <1>5, <1>6, <1>7 DEF Next, AgentCrash, HostReboot

(* The invariant behind MismatchHasCause holds in every reachable state. *)
LEMMA MismatchAlways == Spec => []MismatchInv
<1>1. Init => MismatchInv
  BY TypeInit, MismatchInit DEF MismatchInv, Init, InFlightTyped, InFlight, NoRequest
<1>2. QED BY <1>1, MismatchStep, PTL DEF Spec

(* And so does the one behind the two properties of the recovery. *)
LEMMA BootInvAlways == Spec => []BootInv
<1> DEFINE Kept == Reporting /\ PartialSeen /\ Recovered
<1>1. Spec => []Kept
  <2>1. Kept /\ MismatchInv /\ [Next]_vars => Kept'
    BY ReportingStep, PartialStep, RecoveredStep
  <2>2. Init => Kept BY BootInvInit
  <2>3. QED BY <2>1, <2>2, MismatchAlways, PTL DEF Spec
<1>2. MismatchInv /\ Kept => BootInv BY DEF BootInv
<1>3. QED BY <1>1, <1>2, MismatchAlways, PTL

(* An endpoint the recovery took out of a file is told to the bot before the
   agent serves; else the notification was lost or the file is half done. *)
THEOREM StrippedEndpointsAreTold == Spec => []StrippedIsReported
<1>1. BootInv => StrippedIsReported
  <2>1. TypeOK => unreported \subseteq ASN BY DEF TypeOK
  <2>2. QED BY <2>1 DEF BootInv, MismatchInv, BootQuiet, Reporting, StrippedIsReported
<1>2. QED BY <1>1, BootInvAlways, PTL

(* The server starts to listen with every configured tunnel up and whole, those
   the recovery started with their file as it is; but for those whose file was
   left half done or whose wg-quick was killed or failed over something else
   than a name (EnsureWGInterfacesUp). *)
THEOREM BootStartsTunnels == Spec => BootBringsTunnelsUp
<1> DEFINE Listens == agent = "recovering" /\ agent' = "serving" =>
                         \A a \in ASN : HasWG(a) /\ a \notin fileFault \union cmdFault =>
                             /\ tunnel[a] \notin {"down", "partial"}
                             /\ rec[a] = "done" => tunnel[a] = wgConf[a]
<1>1. BootInv /\ [Next]_vars => [Listens]_vars
  <2> SUFFICES ASSUME BootInv, Next, agent = "recovering", agent' = "serving",
                      NEW a \in ASN, HasWG(a), a \notin fileFault \union cmdFault
               PROVE  /\ tunnel[a] \notin {"down", "partial"}
                      /\ rec[a] = "done" => tunnel[a] = wgConf[a]
    OBVIOUS
  <2>1. Serve
    <3>1. ~(\E r \in Req, op \in Requests, b \in ASN, info \in PeerInfos :
                Start(r, op, b, info))
      BY DEF Start
    <3>2. ~(\E r \in Req : HandlerStep(r)) BY HandlerKeeps
    <3>3. ~(\E b \in ASN : RecoverStep(b))
      BY DEF RecoverStep, RecoverAcquire, RecoverUp, RecoverStrip, RecoverRewrite, RecoverAgain
    <3>4. ~Boot /\ ~AgentCrash /\ ~HostReboot BY DEF Boot, AgentCrash, HostReboot, Down
    <3>5. QED BY <3>1, <3>2, <3>3, <3>4 DEF Next
  <2>2. rec[a] \in {"idle", "done"} BY <2>1 DEF Serve
  <2>3. wgConf[a] \in WGFiles \ {"absent"} BY DEF BootInv, MismatchInv, TypeOK, HasWG
  <2>4. RecoveredAt(a) /\ tunnel[a] # "partial" BY DEF BootInv, Recovered, PartialSeen
  <2>5. QED BY <2>2, <2>3, <2>4 DEF RecoveredAt, WGFiles, Endpoints
<1>2. QED BY <1>1, BootInvAlways, PTL DEF Spec, BootBringsTunnelsUp

-----------------------------------------------------------------------------
(***************************************************************************)
(* RepliesHonest needs to know where a handler is and what it has done by  *)
(* then (Progress), that a goroutine nothing overlapped is alone on its    *)
(* ASN, and what the ASN's files and daemons agree on while no command     *)
(* fails and no removal overlaps anything (Settled): no file, no tunnel;   *)
(* no tunnel under a removal; BIRD runs the file unless a handler is still *)
(* going to make it reread.                                                *)
(***************************************************************************)
AtWorkTyped ==
    /\ agent # "serving" => \A r \in Req : req[r].pc = "idle"
    /\ \A r \in Req : req[r].pc # "idle" => req[r].op \in Ops /\ req[r].asn \in ASN

Alone ==
    \A r \in solo, s \in Req :
        s # r /\ req[r].pc # "idle" /\ req[s].asn = req[r].asn => ~InFlight(s)

RemovalSeen ==
    \A r, s \in Req :
        /\ InFlight(r) /\ req[r].op # "remove"
        /\ InFlight(s) /\ req[s].op = "remove"
        /\ req[r].asn = req[s].asn
        => <<req[r].asn, req[r].op>> \in raced

Unharmed(a) == a \notin fileFault \union cmdFault /\ \A op \in Ops : <<a, op>> \notin raced

WillConfigure(r) ==
    InFlight(r) /\ req[r].op # "restart" /\ req[r].pc \in {"write_bird", "wg_up", "configure"}

Settled(a) ==
    /\ ~HasWG(a) => tunnel[a] = "down"
    /\ \A r \in Req : /\ InFlight(r) /\ req[r].asn = a
                      /\ req[r].op = "remove" /\ req[r].pc # "down"
                      => tunnel[a] = "down"
    /\ birdRun[a] = birdConf[a] \/ \E r \in Req : req[r].asn = a /\ WillConfigure(r)

(* What handler r has achieved when it is about to make a call. *)
PeerProgress(r) ==
    LET a == req[r].asn IN
    /\ req[r].pc \in {"open_bird", "write_bird", "wg_up", "configure", "done"}
         => wgConf[a] = req[r].info.endpoint
    /\ req[r].pc \in {"wg_up", "configure", "done"}
         => birdConf[a] = GenerateBirdConfig(req[r].info)
    /\ req[r].pc \in {"configure", "done"} => tunnel[a] # "down"
    /\ req[r].pc = "done" => birdRun[a] = birdConf[a]

RemoveProgress(r) ==
    LET a == req[r].asn IN
    /\ req[r].pc \in {"rm_wg", "rm_bird", "configure", "done"} => tunnel[a] = "down"
    /\ req[r].pc \in {"rm_bird", "configure", "done"} => ~HasWG(a)
    /\ req[r].pc \in {"configure", "done"} => ~HasBird(a)
    /\ req[r].pc = "done" => birdRun[a] = birdConf[a]

RestartProgress(r) ==
    LET a == req[r].asn IN
    /\ req[r].pc = "up" => tunnel[a] = "down"
    /\ req[r].pc \in {"bounce_v4", "bounce_v6", "done"} /\ HasWG(a) => tunnel[a] = wgConf[a]
    /\ req[r].pc = "bounce_v4" => "v4 known" \notin req[r].notes
    /\ req[r].pc = "bounce_v6" /\ "v4 known" \in req[r].notes => HasWG(a)
    /\ req[r].pc = "done" /\ req[r].status = 200 => HasWG(a)

Progress(r) ==
    /\ req[r].op = "peer" /\ (req[r].pc = "done" => req[r].status = 200) => PeerProgress(r)
    /\ req[r].op = "remove" => RemoveProgress(r)
    /\ req[r].op = "restart" => RestartProgress(r)

HonestInv ==
    /\ MismatchInv /\ AtWorkTyped /\ Alone /\ RemovalSeen
    /\ \A a \in ASN : Unharmed(a) => Settled(a)
    /\ \A r \in solo : req[r].pc # "idle" /\ Unharmed(req[r].asn) => Progress(r)

(* Before the first request every ASN is settled. *)
LEMMA HonestInit == Init /\ MismatchInv => HonestInv
<1> SUFFICES ASSUME Init, MismatchInv PROVE HonestInv OBVIOUS
<1>1. \A r \in Req : req[r].pc = "idle" BY DEF Init, NoRequest
<1>2. solo = {} /\ birdRun = birdConf /\ \A a \in ASN : tunnel[a] = "down" BY DEF Init
<1>3. \A a \in ASN : Settled(a) BY <1>2 DEF Settled
<1>4. QED BY <1>1, <1>2, <1>3 DEF HonestInv, AtWorkTyped, Alone, RemovalSeen, InFlight

(* A handler changes its own record only, never the body it was sent, and
   whatever the environment did to an ASN stays recorded. *)
LEMMA HandlerEdits ==
    ASSUME TypeOK, NEW r \in Req, HandlerStep(r)
    PROVE  /\ \A s \in Req \ {r} : req'[s] = req[s]
           /\ req'[r].info = req[r].info
           /\ solo' = solo /\ raced' = raced
           /\ fileFault \subseteq fileFault' /\ cmdFault \subseteq cmdFault'
<1>1. solo' = solo /\ raced' = raced
  BY Zenon DEF HandlerStep, PeerStep, RemoveStep, RestartStep, overlaps, history,
       CountWG, CountBird, StatWG, StatBird, OpenWG, WriteWG, OpenBird, WriteBird,
       PeerUp, RemoveDown, RemoveWG, RemoveBird, RestartDown, RestartUp,
       RestartV4, RestartV6, Configure
<1>2. cmdFault' = cmdFault \/ cmdFault' = cmdFault \union {req[r].asn}
  BY Zenon DEF HandlerStep, PeerStep, RemoveStep, RestartStep, history,
       CountWG, CountBird, StatWG, StatBird, OpenWG, WriteWG, OpenBird, WriteBird,
       PeerUp, RemoveDown, RemoveWG, RemoveBird, RestartDown, RestartUp,
       RestartV4, RestartV6, Configure
<1>3. PICK p \in PCs : Moved(r, p) BY HandlerMoves
<1>4. QED BY <1>1, <1>2, <1>3, HandlerLeavesRecovery DEF Moved

(* The ASN whose handler moved is settled again if the step left no tunnel
   without its file or under a removal, and BIRD with the file or about to
   reread it. *)
LEMMA SettledAgain ==
    ASSUME NEW r \in Req, NEW p \in PCs, Moved(r, p), NEW b \in ASN, req[r].asn = b,
           InFlight(r), Settled(b), \A s \in Req \ {r} : req'[s] = req[s],
           ~HasWG(b)' => tunnel'[b] = "down",
           \/ tunnel'[b] \in {tunnel[b], "down"}
           \/ \A s \in Req : InFlight(s) /\ req[s].asn = b => req[s].op # "remove",
           req[r].op = "remove" /\ p \notin {"idle", "done", "down"} => tunnel'[b] = "down",
           \/ WillConfigure(r)'
           \/ birdRun'[b] = birdConf'[b]
           \/ birdRun'[b] = birdRun[b] /\ birdConf'[b] = birdConf[b] /\ ~WillConfigure(r)
    PROVE  Settled(b)'
<1>1. req'[r].asn = b /\ req'[r].op = req[r].op /\ req'[r].pc = p BY DEF Moved
<1>2. ASSUME NEW s \in Req, InFlight(s)', req'[s].asn = b, req'[s].op = "remove",
             req'[s].pc # "down"
      PROVE  tunnel'[b] = "down"
  <2>1. CASE s = r BY <1>1, <1>2, <2>1 DEF InFlight
  <2>2. CASE s # r
    <3>1. InFlight(s) /\ req[s].asn = b /\ req[s].op = "remove" /\ req[s].pc # "down"
      BY <1>2, <2>2 DEF InFlight
    <3>2. QED BY <3>1 DEF Settled
  <2>3. QED BY <2>1, <2>2
<1>3. birdRun'[b] = birdConf'[b] \/ \E s \in Req : req'[s].asn = b /\ WillConfigure(s)'
  <2>1. CASE WillConfigure(r)' BY <1>1, <2>1
  <2>2. CASE birdRun'[b] = birdRun[b] /\ birdConf'[b] = birdConf[b] /\ ~WillConfigure(r)
    <3>1. ASSUME NEW s \in Req, req[s].asn = b, WillConfigure(s)
          PROVE  req'[s].asn = b /\ WillConfigure(s)'
      BY <2>2, <3>1 DEF WillConfigure, InFlight
    <3>2. QED BY <2>2, <3>1 DEF Settled
  <2>3. QED BY <2>1, <2>2
<1>4. QED BY <1>2, <1>3 DEF Settled

(* A handler step is judged by what it does to its own ASN: the others keep
   their files and tunnels, and BIRD at most rereads them. *)
LEMMA HonestOneASN ==
    ASSUME HonestInv, NEW r \in Req, HandlerStep(r), NEW b \in ASN, req[r].asn = b,
           \A c \in ASN \ {b} :
               /\ wgConf'[c] = wgConf[c] /\ birdConf'[c] = birdConf[c]
               /\ tunnel'[c] = tunnel[c] /\ birdRun'[c] \in {birdRun[c], birdConf[c]},
           Unharmed(b)' => Settled(b)',
           r \in solo /\ Unharmed(b)' => Progress(r)'
    PROVE  /\ AtWorkTyped' /\ Alone' /\ RemovalSeen'
           /\ \A a \in ASN : Unharmed(a)' => Settled(a)'
           /\ \A s \in solo' : (req[s].pc # "idle" /\ Unharmed(req[s].asn) => Progress(s))'
<1> TypeOK BY DEF HonestInv, MismatchInv
<1>1. PICK p \in PCs : Moved(r, p) BY HandlerMoves
<1>2. InFlight(r) /\ agent' = agent BY HandlerInFlight, HandlerKeeps
<1>3. /\ \A s \in Req \ {r} : req'[s] = req[s]
      /\ solo' = solo /\ raced' = raced
      /\ fileFault \subseteq fileFault' /\ cmdFault \subseteq cmdFault'
  BY HandlerEdits
<1>4. \A s \in Req : /\ req'[s].op = req[s].op /\ req'[s].asn = req[s].asn
                     /\ InFlight(s)' => InFlight(s)
                     /\ req[s].pc = "idle" => req'[s].pc = "idle"
  BY <1>1, <1>2 DEF Moved, InFlight
<1>5. AtWorkTyped'
  <2>1. agent = "serving" BY <1>2 DEF HonestInv, AtWorkTyped, InFlight
  <2>2. \A s \in Req : req'[s].pc # "idle" => req[s].pc # "idle" BY <1>4
  <2>3. QED BY <1>2, <1>4, <2>1, <2>2 DEF HonestInv, AtWorkTyped
<1>6. Alone' BY <1>3, <1>4 DEF HonestInv, Alone, TypeOK
<1>7. RemovalSeen' BY <1>3, <1>4 DEF HonestInv, RemovalSeen
<1>8. \A c : Unharmed(c)' => Unharmed(c) BY <1>3 DEF Unharmed
<1>9. ASSUME NEW c \in ASN, Unharmed(c)' PROVE Settled(c)'
  <2>1. CASE c = b BY <1>9, <2>1
  <2>2. CASE c # b
    <3>1. Settled(c) BY <1>8, <1>9 DEF HonestInv
    <3>2. /\ wgConf'[c] = wgConf[c] /\ birdConf'[c] = birdConf[c]
          /\ tunnel'[c] = tunnel[c] /\ birdRun'[c] \in {birdRun[c], birdConf[c]}
      BY <2>2
    <3>3. \A s \in Req : req'[s].asn = c => s # r BY <1>4, <2>2
    <3>4. \A s \in Req : req[s].asn = c /\ WillConfigure(s)
                            => req'[s].asn = c /\ WillConfigure(s)'
      BY <1>3, <2>2 DEF WillConfigure, InFlight
    <3>5. QED BY <1>3, <3>1, <3>2, <3>3, <3>4 DEF Settled, HasWG, InFlight
  <2>3. QED BY <2>1, <2>2
<1>10. ASSUME NEW s \in solo', req'[s].pc # "idle", Unharmed(req[s].asn)' PROVE Progress(s)'
  <2> s \in Req /\ s \in solo BY <1>3 DEF TypeOK
  <2>1. CASE s = r BY <1>3, <1>4, <1>10, <2>1
  <2>2. CASE s # r
    <3>1. req'[s] = req[s] BY <1>3, <2>2
    <3>2. req[s].asn # b BY <1>2, <1>10, <2>2, <3>1 DEF HonestInv, Alone
    <3>3. PICK c \in ASN : req[s].asn = c
      BY <1>10, <3>1 DEF HonestInv, AtWorkTyped
    <3>4. Progress(s) BY <1>8, <1>10, <3>1, <3>3 DEF HonestInv
    <3>5. /\ wgConf'[c] = wgConf[c] /\ birdConf'[c] = birdConf[c]
          /\ tunnel'[c] = tunnel[c] /\ birdRun'[c] \in {birdRun[c], birdConf[c]}
      BY <3>2, <3>3
    <3>6. PeerProgress(s) => PeerProgress(s)' BY <3>1, <3>3, <3>5 DEF PeerProgress
    <3>7. RemoveProgress(s) => RemoveProgress(s)'
      BY <3>1, <3>3, <3>5 DEF RemoveProgress, HasWG, HasBird
    <3>8. RestartProgress(s) => RestartProgress(s)'
      <4>1. req'[s] = req[s] /\ req'[s].asn = c BY <3>1, <3>3
      <4>2. SUFFICES ASSUME RestartProgress(s) PROVE RestartProgress(s)' OBVIOUS
      <4>3. /\ req'[s].pc = "up" => tunnel'[c] = "down"
            /\ req'[s].pc \in {"bounce_v4", "bounce_v6", "done"} /\ wgConf'[c] # "absent"
                 => tunnel'[c] = wgConf'[c]
        BY <3>3, <3>5, <4>1, <4>2 DEF RestartProgress, HasWG
      <4>4. /\ req'[s].pc = "bounce_v4" => "v4 known" \notin req'[s].notes
            /\ req'[s].pc = "bounce_v6" /\ "v4 known" \in req'[s].notes => wgConf'[c] # "absent"
        BY <3>3, <3>5, <4>1, <4>2 DEF RestartProgress, HasWG
      <4>5. req'[s].pc = "done" /\ req'[s].status = 200 => wgConf'[c] # "absent"
        BY <3>3, <3>5, <4>1, <4>2 DEF RestartProgress, HasWG
      <4>6. QED BY <4>1, <4>3, <4>4, <4>5 DEF RestartProgress, HasWG
    <3>9. QED BY <3>1, <3>4, <3>6, <3>7, <3>8 DEF Progress
  <2>3. QED BY <2>1, <2>2
<1>11. QED BY <1>5, <1>6, <1>7, <1>9, <1>10

(* wg-quick down, when no fault is recorded: an interface with a file is
   gone, and one without a file is left as it is. *)
LEMMA DownWorks ==
    ASSUME NEW conf, NEW cur, NEW out \in DownOutcomes(conf, cur), ~Failed(out[2])
    PROVE  out[1] = IF conf = "absent" THEN cur ELSE "down"
<1>1. CASE conf = "absent" \/ cur = "down"
  <2>1. out = <<cur, "refused">> BY <1>1 DEF DownOutcomes
  <2>2. QED BY <1>1, <2>1
<1>2. CASE ~(conf = "absent" \/ cur = "down")
  <2>1. out = <<"down", "ok">> \/ out = <<cur, "killed">> BY <1>2 DEF DownOutcomes
  <2>2. Failed("killed") BY DEF Failed
  <2>3. QED BY <1>2, <2>1, <2>2
<1>3. QED BY <1>1, <1>2

(* What the lemmas on the single calls of a handler conclude. *)
KeepsASN(r, b) ==
    /\ \A c \in ASN \ {b} :
           /\ wgConf'[c] = wgConf[c] /\ birdConf'[c] = birdConf[c]
           /\ tunnel'[c] = tunnel[c] /\ birdRun'[c] \in {birdRun[c], birdConf[c]}
    /\ Unharmed(b)' => Settled(b)'
    /\ r \in solo /\ Unharmed(b)' => Progress(r)'

(* What they start from. *)
LEMMA HandlerFacts ==
    ASSUME HonestInv, NEW r \in Req, HandlerStep(r), NEW b \in ASN, req[r].asn = b
    PROVE  /\ req \in [Req -> Request] /\ wgConf \in [ASN -> WGFiles]
           /\ birdConf \in [ASN -> BirdFiles] /\ tunnel \in [ASN -> Tunnels]
           /\ birdRun \in [ASN -> BirdFiles]
           /\ InFlight(r) /\ \A s \in Req \ {r} : req'[s] = req[s]
           /\ req' \in [Req -> Request]
           /\ req'[r].op = req[r].op /\ req'[r].asn = b /\ req'[r].info = req[r].info
           /\ req[r].info \in PeerInfo
           /\ Unharmed(b)' => Unharmed(b) /\ Settled(b) /\ b \notin fileFault' \union cmdFault'
           /\ r \in solo /\ Unharmed(b)' => Progress(r)
<1> TypeOK BY DEF HonestInv, MismatchInv
<1>1. PICK p \in PCs : Moved(r, p) BY HandlerMoves
<1>2. InFlight(r) BY HandlerInFlight
<1>3. Unharmed(b)' => Unharmed(b) /\ b \notin fileFault' \union cmdFault'
  BY HandlerEdits DEF Unharmed
<1>4. req[r].info \in PeerInfo BY DEF TypeOK, Request
<1>5. r \in solo /\ Unharmed(b) => Progress(r) BY <1>2 DEF HonestInv, InFlight
<1>6. req' \in [Req -> Request] /\ req'[r].op = req[r].op /\ req'[r].asn = b
      /\ req'[r].info = req[r].info /\ \A s \in Req \ {r} : req'[s] = req[s]
  BY <1>1 DEF Moved
<1>7. QED BY <1>2, <1>3, <1>4, <1>5, <1>6 DEF HonestInv, TypeOK

(* An answer carries its status. *)
LEMMA ReplyAnswers ==
    ASSUME req \in [Req -> Request], NEW r \in Req, NEW c, Reply(r, c)
    PROVE  req'[r].pc = "done" /\ req'[r].status = c
<1> DEFINE q == [req[r] EXCEPT !.pc = "done", !.status = c, !.n = 0, !.notes = {}]
<1>1. q.pc = "done" /\ q.status = c
  <2>1. req[r] \in Request OBVIOUS
  <2>2. QED BY <2>1 DEF Request
<1>2. req' = [req EXCEPT ![r] = q] BY DEF Reply
<1> HIDE DEF q
<1>3. QED BY <1>1, <1>2

(* A call of /peer or /restart that changes no file and no daemon, or only
   the WireGuard file, which it does not remove. *)
LEMMA SettledSame ==
    ASSUME HonestInv, NEW r \in Req, HandlerStep(r), NEW b \in ASN, req[r].asn = b,
           req[r].op # "remove", ~WillConfigure(r),
           wgConf'[b] = wgConf[b] \/ wgConf'[b] # "absent",
           UNCHANGED <<birdConf, daemons>>, Unharmed(b)'
    PROVE  Settled(b)'
<1>1. PICK p \in PCs : Moved(r, p) BY HandlerMoves DEF HonestInv, MismatchInv
<1>2. /\ InFlight(r) /\ Settled(b) /\ \A s \in Req \ {r} : req'[s] = req[s]
  BY HandlerFacts
<1>3. tunnel' = tunnel /\ birdRun' = birdRun BY DEF daemons
<1>4. ~HasWG(b)' => tunnel'[b] = "down" BY <1>2, <1>3 DEF Settled, HasWG
<1>5. QED BY <1>1, <1>2, <1>3, <1>4, SettledAgain

(* The first four calls of /peer only look. *)
LEMMA HonestLooks ==
    ASSUME HonestInv, NEW r \in Req, NEW b \in ASN, req[r].asn = b,
           CountWG(r) \/ CountBird(r) \/ StatWG(r) \/ StatBird(r)
    PROVE  KeepsASN(r, b)
<1>1. HandlerStep(r) BY DEF HandlerStep, PeerStep
<1>2. req \in [Req -> Request] /\ req'[r].op = req[r].op BY <1>1, HandlerFacts
<1>3. UNCHANGED <<wgConf, birdConf, daemons>> /\ req[r].op = "peer"
      /\ req[r].pc \in {"count_wg", "count_bird", "stat_wg", "stat_bird"}
  BY DEF CountWG, CountBird, StatWG, StatBird, At, files
<1>4. Unharmed(b)' => Settled(b)' BY <1>1, <1>3, SettledSame DEF WillConfigure
<1>5. \/ req'[r].pc \in {"count_bird", "stat_wg", "stat_bird", "open_wg"}
      \/ req'[r].pc = "done" /\ req'[r].status # 200
  <2> req[r] \in Request BY <1>2
  <2> USE <1>2 DEF Goto, Request
  <2>1. CASE CountWG(r) BY <2>1 DEF CountWG
  <2>2. CASE CountBird(r)
    <3>1. CASE Reply(r, 500) BY <3>1, ReplyAnswers
    <3>2. CASE Goto(r, "stat_wg") BY <3>2
    <3>3. QED BY <2>2, <3>1, <3>2 DEF CountBird
  <2>3. CASE StatWG(r) BY <2>3 DEF StatWG
  <2>4. CASE StatBird(r)
    <3>1. CASE Reply(r, 503) BY <3>1, ReplyAnswers
    <3> DEFINE q == [req[r] EXCEPT !.pc = "open_wg", !.n = 0, !.notes = {}]
    <3>2. CASE req' = [req EXCEPT ![r] = q]
      <4>1. q.pc = "open_wg" OBVIOUS
      <4> HIDE DEF q
      <4>2. QED BY <3>2, <4>1
    <3>3. QED BY <2>4, <3>1, <3>2 DEF StatBird
  <2>5. QED BY <2>1, <2>2, <2>3, <2>4
<1>6. Progress(r)' BY <1>2, <1>3, <1>5 DEF Progress, PeerProgress
<1>7. QED BY <1>3, <1>4, <1>6 DEF KeepsASN, daemons

(* The two halves of writing the WireGuard file. *)
LEMMA HonestWriteWG ==
    ASSUME HonestInv, NEW r \in Req, NEW b \in ASN, req[r].asn = b, OpenWG(r) \/ WriteWG(r)
    PROVE  KeepsASN(r, b)
<1>1. HandlerStep(r) BY DEF HandlerStep, PeerStep
<1>2. /\ req \in [Req -> Request] /\ wgConf \in [ASN -> WGFiles]
      /\ req'[r].op = req[r].op /\ req'[r].asn = b /\ req'[r].info = req[r].info
      /\ req[r].info \in PeerInfo /\ (Unharmed(b)' => b \notin fileFault')
  BY <1>1, HandlerFacts
<1>3. UNCHANGED <<birdConf, daemons>> /\ req[r].op = "peer"
      /\ req[r].pc \in {"open_wg", "write_wg"}
      /\ \A c \in ASN \ {b} : wgConf'[c] = wgConf[c]
  BY <1>2 DEF OpenWG, WriteWG, At
<1>4. req[r].info.endpoint # "absent" BY <1>2 DEF PeerInfo, Endpoints
<1>5. wgConf'[b] = wgConf[b] \/ wgConf'[b] # "absent"
  BY <1>2, <1>4 DEF OpenWG, WriteWG
<1>6. Unharmed(b)' => Settled(b)' BY <1>1, <1>3, <1>5, SettledSame DEF WillConfigure
<1>7. ASSUME Unharmed(b)' PROVE Progress(r)'
  <2>1. \/ OpenWG(r) /\ Goto(r, "write_wg")
        \/ WriteWG(r) /\ Goto(r, "open_bird") /\ wgConf' = [wgConf EXCEPT ![b] = req[r].info.endpoint]
    BY <1>2, <1>7 DEF OpenWG, WriteWG
  <2>2. \/ req'[r].pc = "write_wg"
        \/ req'[r].pc = "open_bird" /\ wgConf'[b] = req[r].info.endpoint
    BY <1>2, <2>1 DEF Goto, Request
  <2>3. PeerProgress(r)' BY <1>2, <2>2 DEF PeerProgress
  <2>4. QED BY <1>2, <1>3, <2>3 DEF Progress
<1>8. QED BY <1>3, <1>6, <1>7 DEF KeepsASN, daemons

(* The two halves of writing the BIRD file: BIRD is about to reread it. *)
LEMMA HonestWriteBird ==
    ASSUME HonestInv, NEW r \in Req, NEW b \in ASN, req[r].asn = b,
           OpenBird(r) \/ WriteBird(r)
    PROVE  KeepsASN(r, b)
<1>1. HandlerStep(r) BY DEF HandlerStep, PeerStep
<1>2. /\ req \in [Req -> Request] /\ birdConf \in [ASN -> BirdFiles]
      /\ req'[r].op = req[r].op /\ req'[r].asn = b /\ req'[r].info = req[r].info
      /\ InFlight(r) /\ \A s \in Req \ {r} : req'[s] = req[s]
      /\ (Unharmed(b)' => Settled(b) /\ b \notin fileFault')
      /\ (r \in solo /\ Unharmed(b)' => Progress(r))
  BY <1>1, HandlerFacts
<1>3. UNCHANGED <<wgConf, daemons>> /\ req[r].op = "peer"
      /\ req[r].pc \in {"open_bird", "write_bird"}
      /\ \A c \in ASN \ {b} : birdConf'[c] = birdConf[c]
  BY <1>2 DEF OpenBird, WriteBird, At
<1>4. PICK p \in PCs : Moved(r, p) BY <1>1, HandlerMoves DEF HonestInv, MismatchInv
<1>5. ASSUME Unharmed(b)'
      PROVE  \/ p = "write_bird" /\ req[r].pc = "open_bird"
             \/ p = "wg_up" /\ req[r].pc = "write_bird"
                 /\ birdConf'[b] = GenerateBirdConfig(req[r].info)
  <2>1. \/ req[r].pc = "open_bird" /\ Goto(r, "write_bird")
        \/ /\ req[r].pc = "write_bird" /\ Goto(r, "wg_up")
           /\ birdConf' = [birdConf EXCEPT ![b] = GenerateBirdConfig(req[r].info)]
    BY <1>2, <1>5 DEF OpenBird, WriteBird, At
  <2>2. req'[r].pc = p BY <1>4 DEF Moved
  <2>3. QED BY <1>2, <2>1, <2>2 DEF Goto, Request
<1>6. ASSUME Unharmed(b)' PROVE Settled(b)'
  <2>1. WillConfigure(r)' BY <1>2, <1>3, <1>4, <1>5, <1>6 DEF WillConfigure, InFlight, Moved
  <2>2. ~HasWG(b)' => tunnel'[b] = "down" /\ tunnel'[b] = tunnel[b]
    BY <1>2, <1>3, <1>6 DEF Settled, HasWG, daemons
  <2>3. tunnel'[b] = tunnel[b] /\ req[r].op # "remove" BY <1>3 DEF daemons
  <2>4. QED BY <1>2, <1>4, <1>6, <2>1, <2>2, <2>3, SettledAgain
<1>7. ASSUME r \in solo, Unharmed(b)' PROVE Progress(r)'
  <2>1. wgConf[b] = req[r].info.endpoint BY <1>2, <1>3, <1>7 DEF Progress, PeerProgress
  <2>2. req'[r].pc = p BY <1>4 DEF Moved
  <2>3. PeerProgress(r)' BY <1>2, <1>3, <1>5, <1>7, <2>1, <2>2 DEF PeerProgress
  <2>4. QED BY <1>2, <1>3, <2>3 DEF Progress
<1>8. QED BY <1>3, <1>6, <1>7 DEF KeepsASN, daemons

(* No removal of an unharmed ASN is in flight beside a /peer or a /restart. *)
LEMMA NoRemovalBeside ==
    ASSUME HonestInv, NEW r \in Req, NEW b \in ASN, req[r].asn = b, InFlight(r),
           req[r].op # "remove", Unharmed(b)
    PROVE  \A s \in Req : InFlight(s) /\ req[s].asn = b => req[s].op # "remove"
<1>1. req[r].op \in Ops BY DEF HonestInv, AtWorkTyped, InFlight
<1>2. QED BY <1>1 DEF HonestInv, RemovalSeen, Unharmed

(* wg-quick up of /peer. *)
LEMMA HonestPeerUp ==
    ASSUME HonestInv, NEW r \in Req, NEW b \in ASN, req[r].asn = b, PeerUp(r)
    PROVE  KeepsASN(r, b)
<1>1. HandlerStep(r) BY DEF HandlerStep, PeerStep
<1>2. /\ req \in [Req -> Request] /\ wgConf \in [ASN -> WGFiles] /\ tunnel \in [ASN -> Tunnels]
      /\ req'[r].op = req[r].op /\ req'[r].asn = b /\ req'[r].info = req[r].info
      /\ req[r].info \in PeerInfo /\ InFlight(r) /\ \A s \in Req \ {r} : req'[s] = req[s]
      /\ (Unharmed(b)' => Unharmed(b) /\ Settled(b) /\ b \notin cmdFault')
      /\ (r \in solo /\ Unharmed(b)' => Progress(r))
  BY <1>1, HandlerFacts
<1>3. UNCHANGED <<wgConf, birdConf, birdRun>> /\ req[r].op = "peer" /\ req[r].pc = "wg_up"
      /\ Goto(r, "configure")
  BY DEF PeerUp, At, files
<1>4. PICK out \in UpOutcomes(wgConf[b], tunnel[b]) :
          /\ tunnel' = [tunnel EXCEPT ![b] = out[1]]
          /\ cmdFault' = IF Failed(out[2]) THEN cmdFault \union {b} ELSE cmdFault
  BY DEF PeerUp
<1>5. PICK p \in PCs : Moved(r, p) BY <1>1, HandlerMoves DEF HonestInv, MismatchInv
<1>6. req'[r].pc = "configure" BY <1>2, <1>3 DEF Goto, Request
<1>7. Unharmed(b)' => tunnel'[b] = IF wgConf[b] = "absent" \/ tunnel[b] # "down"
                                   THEN tunnel[b] ELSE wgConf[b]
  BY <1>2, <1>4, UpWorks
<1>8. ASSUME Unharmed(b)' PROVE Settled(b)'
  <2>1. WillConfigure(r)' BY <1>2, <1>3, <1>6 DEF WillConfigure, InFlight
  <2>2. ~HasWG(b)' => tunnel'[b] = "down" BY <1>2, <1>3, <1>7, <1>8 DEF Settled, HasWG
  <2>3. \A s \in Req : InFlight(s) /\ req[s].asn = b => req[s].op # "remove"
    BY <1>2, <1>3, <1>8, NoRemovalBeside
  <2>4. QED BY <1>2, <1>3, <1>5, <1>8, <2>1, <2>2, <2>3, SettledAgain
<1>9. ASSUME r \in solo, Unharmed(b)' PROVE Progress(r)'
  <2>1. /\ wgConf[b] = req[r].info.endpoint
        /\ birdConf[b] = GenerateBirdConfig(req[r].info)
    BY <1>2, <1>3, <1>9 DEF Progress, PeerProgress
  <2>2. wgConf[b] \notin {"absent", "down"} BY <1>2, <2>1 DEF PeerInfo, Endpoints
  <2>3. tunnel'[b] # "down" BY <1>7, <1>9, <2>2
  <2>4. PeerProgress(r)' BY <1>2, <1>3, <1>6, <2>1, <2>3 DEF PeerProgress
  <2>5. QED BY <1>2, <1>3, <2>4 DEF Progress
<1>10. QED BY <1>2, <1>3, <1>4, <1>8, <1>9 DEF KeepsASN

(* wg-quick down of /remove and of /restart: the tunnel is gone. *)
LEMMA HonestDown ==
    ASSUME HonestInv, NEW r \in Req, NEW b \in ASN, req[r].asn = b,
           RemoveDown(r) \/ RestartDown(r)
    PROVE  KeepsASN(r, b)
<1>1. HandlerStep(r) BY DEF HandlerStep, RemoveStep, RestartStep
<1>2. /\ req \in [Req -> Request] /\ wgConf \in [ASN -> WGFiles] /\ tunnel \in [ASN -> Tunnels]
      /\ req'[r].op = req[r].op /\ req'[r].asn = b
      /\ InFlight(r) /\ \A s \in Req \ {r} : req'[s] = req[s]
      /\ (Unharmed(b)' => Settled(b) /\ b \notin cmdFault')
  BY <1>1, HandlerFacts
<1>3. UNCHANGED <<wgConf, birdConf, birdRun>> /\ req[r].pc = "down"
      /\ \/ req[r].op = "remove" /\ Goto(r, "rm_wg")
         \/ req[r].op = "restart" /\ Goto(r, "up")
  BY DEF RemoveDown, RestartDown, At, files
<1>4. PICK out \in DownOutcomes(wgConf[b], tunnel[b]) :
          /\ tunnel' = [tunnel EXCEPT ![b] = out[1]]
          /\ cmdFault' = IF Failed(out[2]) THEN cmdFault \union {b} ELSE cmdFault
  BY DEF RemoveDown, RestartDown
<1>5. PICK p \in PCs : Moved(r, p) BY <1>1, HandlerMoves DEF HonestInv, MismatchInv
<1>6. \/ req[r].op = "remove" /\ req'[r].pc = "rm_wg"
      \/ req[r].op = "restart" /\ req'[r].pc = "up"
  BY <1>2, <1>3 DEF Goto, Request
<1>7. Unharmed(b)' => tunnel'[b] = "down"
  <2>1. Unharmed(b)' => tunnel'[b] = IF wgConf[b] = "absent" THEN tunnel[b] ELSE "down"
    BY <1>2, <1>4, DownWorks
  <2>2. QED BY <1>2, <2>1 DEF Settled, HasWG
<1>8. ASSUME Unharmed(b)' PROVE Settled(b)'
  <2>1. ~WillConfigure(r) /\ birdRun'[b] = birdRun[b] /\ birdConf'[b] = birdConf[b]
    BY <1>3 DEF WillConfigure
  <2>2. QED BY <1>2, <1>5, <1>7, <1>8, <2>1, SettledAgain
<1>9. ASSUME Unharmed(b)' PROVE Progress(r)'
  BY <1>2, <1>6, <1>7, <1>9 DEF Progress, RemoveProgress, RestartProgress
<1>10. QED BY <1>2, <1>3, <1>4, <1>8, <1>9 DEF KeepsASN

(* The two removals of /remove. *)
LEMMA HonestRemoveFiles ==
    ASSUME HonestInv, NEW r \in Req, NEW b \in ASN, req[r].asn = b,
           RemoveWG(r) \/ RemoveBird(r)
    PROVE  KeepsASN(r, b)
<1>1. HandlerStep(r) BY DEF HandlerStep, RemoveStep
<1>2. /\ req \in [Req -> Request] /\ wgConf \in [ASN -> WGFiles] /\ birdConf \in [ASN -> BirdFiles]
      /\ req'[r].op = req[r].op /\ req'[r].asn = b
      /\ InFlight(r) /\ \A s \in Req \ {r} : req'[s] = req[s]
      /\ (Unharmed(b)' => Settled(b) /\ b \notin fileFault')
      /\ (r \in solo /\ Unharmed(b)' => Progress(r))
  BY <1>1, HandlerFacts
<1>3. UNCHANGED daemons /\ req[r].op = "remove" /\ req[r].pc \in {"rm_wg", "rm_bird"}
      /\ \A c \in ASN \ {b} : wgConf'[c] = wgConf[c] /\ birdConf'[c] = birdConf[c]
  BY <1>2 DEF RemoveWG, RemoveBird, At
<1>4. PICK p \in PCs : Moved(r, p) BY <1>1, HandlerMoves DEF HonestInv, MismatchInv
<1>5. ASSUME Unharmed(b)'
      PROVE  \/ /\ req[r].pc = "rm_wg" /\ req'[r].pc = "rm_bird"
                /\ wgConf'[b] = "absent" /\ birdConf'[b] = birdConf[b]
             \/ /\ req[r].pc = "rm_bird" /\ req'[r].pc = "configure"
                /\ wgConf'[b] = wgConf[b] /\ birdConf'[b] = "absent"
  <2>1. \/ /\ req[r].pc = "rm_wg" /\ Goto(r, "rm_bird")
           /\ wgConf' = [wgConf EXCEPT ![b] = "absent"] /\ birdConf' = birdConf
        \/ /\ req[r].pc = "rm_bird" /\ Goto(r, "configure")
           /\ birdConf' = [birdConf EXCEPT ![b] = "absent"] /\ wgConf' = wgConf
    BY <1>2, <1>5 DEF RemoveWG, RemoveBird, At
  <2>2. QED BY <1>2, <2>1 DEF Goto, Request
<1>6. tunnel'[b] = tunnel[b] /\ birdRun'[b] = birdRun[b] BY <1>3 DEF daemons
<1>7. Unharmed(b)' => tunnel'[b] = "down" BY <1>2, <1>3, <1>6 DEF Settled
<1>8. ASSUME Unharmed(b)' PROVE Settled(b)'
  <2>1. CASE req'[r].pc = "rm_bird"
    <3>1. ~WillConfigure(r) BY <1>5, <1>8, <2>1 DEF WillConfigure
    <3>2. birdConf'[b] = birdConf[b] BY <1>5, <1>8, <2>1
    <3>3. QED BY <1>2, <1>4, <1>6, <1>7, <1>8, <3>1, <3>2, SettledAgain
  <2>2. CASE req'[r].pc = "configure"
    <3>1. WillConfigure(r)' BY <1>2, <1>3, <2>2 DEF WillConfigure, InFlight
    <3>2. QED BY <1>2, <1>4, <1>7, <1>8, <3>1, SettledAgain
  <2>3. QED BY <1>5, <1>8, <2>1, <2>2
<1>9. ASSUME r \in solo, Unharmed(b)' PROVE Progress(r)'
  <2>1. RemoveProgress(r) BY <1>2, <1>3, <1>9 DEF Progress
  <2>2. RemoveProgress(r)'
    BY <1>2, <1>5, <1>7, <1>9, <2>1 DEF RemoveProgress, HasWG, HasBird
  <2>3. QED BY <1>2, <1>3, <2>2 DEF Progress
<1>10. QED BY <1>3, <1>8, <1>9 DEF KeepsASN, daemons

(* Last call of /peer and /remove: BIRD rereads every file. *)
LEMMA HonestConfigure ==
    ASSUME HonestInv, NEW r \in Req, NEW b \in ASN, req[r].asn = b, Configure(r)
    PROVE  KeepsASN(r, b)
<1>1. HandlerStep(r) BY DEF HandlerStep
<1>2. /\ req \in [Req -> Request]
      /\ req'[r].op = req[r].op /\ req'[r].asn = b /\ req'[r].info = req[r].info
      /\ InFlight(r) /\ \A s \in Req \ {r} : req'[s] = req[s]
      /\ (Unharmed(b)' => Settled(b) /\ b \notin cmdFault')
      /\ (r \in solo /\ Unharmed(b)' => Progress(r))
  BY <1>1, HandlerFacts
<1>3. UNCHANGED <<wgConf, birdConf, tunnel>> /\ req[r].op \in {"peer", "remove"}
      /\ req[r].pc = "configure" /\ birdRun' \in {birdRun, birdConf}
      /\ (Unharmed(b)' => birdRun' = birdConf)
  BY <1>2 DEF Configure, files
<1>4. PICK p \in PCs : Moved(r, p) BY <1>1, HandlerMoves DEF HonestInv, MismatchInv
<1>5. req'[r].pc = "done" /\ req'[r].status = 200 BY <1>2, ReplyAnswers DEF Configure
<1>6. ASSUME Unharmed(b)' PROVE Settled(b)'
  <2>1. tunnel'[b] = tunnel[b] /\ birdRun'[b] = birdConf'[b] BY <1>3, <1>6
  <2>2. ~HasWG(b)' => tunnel'[b] = "down" BY <1>2, <1>3, <1>6 DEF Settled, HasWG
  <2>3. p = "done" BY <1>4, <1>5 DEF Moved
  <2>4. QED BY <1>2, <1>4, <1>6, <2>1, <2>2, <2>3, SettledAgain
<1>7. ASSUME r \in solo, Unharmed(b)' PROVE Progress(r)'
  <2>1. birdRun'[b] = birdConf'[b] BY <1>3, <1>7
  <2>2. CASE req[r].op = "peer"
    <3>1. PeerProgress(r) BY <1>2, <1>3, <1>7, <2>2 DEF Progress
    <3>2. PeerProgress(r)' BY <1>2, <1>3, <2>1, <3>1 DEF PeerProgress
    <3>3. QED BY <1>2, <2>2, <3>2 DEF Progress
  <2>3. CASE req[r].op = "remove"
    <3>1. RemoveProgress(r) BY <1>2, <1>3, <1>7, <2>3 DEF Progress
    <3>2. RemoveProgress(r)' BY <1>2, <1>3, <2>1, <3>1 DEF RemoveProgress, HasWG, HasBird
    <3>3. QED BY <1>2, <2>3, <3>2 DEF Progress
  <2>4. QED BY <1>3, <2>2, <2>3
<1>8. QED BY <1>3, <1>6, <1>7 DEF KeepsASN

(* wg-quick up of /restart, on a tunnel that is down. *)
LEMMA HonestRestartUp ==
    ASSUME HonestInv, NEW r \in Req, NEW b \in ASN, req[r].asn = b, RestartUp(r)
    PROVE  KeepsASN(r, b)
<1>1. HandlerStep(r) BY DEF HandlerStep, RestartStep
<1>2. /\ req \in [Req -> Request] /\ wgConf \in [ASN -> WGFiles] /\ tunnel \in [ASN -> Tunnels]
      /\ req'[r].op = req[r].op /\ req'[r].asn = b
      /\ InFlight(r) /\ \A s \in Req \ {r} : req'[s] = req[s]
      /\ (Unharmed(b)' => Unharmed(b) /\ Settled(b) /\ b \notin cmdFault')
      /\ (r \in solo /\ Unharmed(b)' => Progress(r))
  BY <1>1, HandlerFacts
<1>3. UNCHANGED <<wgConf, birdConf, birdRun>> /\ req[r].op = "restart" /\ req[r].pc = "up"
  BY DEF RestartUp, At, files
<1>4. PICK out \in UpOutcomes(wgConf[b], tunnel[b]) :
          /\ tunnel' = [tunnel EXCEPT ![b] = out[1]]
          /\ cmdFault' = IF Failed(out[2]) THEN cmdFault \union {b} ELSE cmdFault
  BY DEF RestartUp
<1>5. PICK p \in PCs : Moved(r, p) BY <1>1, HandlerMoves DEF HonestInv, MismatchInv
<1>6. req'[r].pc = "bounce_v4" /\ "v4 known" \notin req'[r].notes
  <2>1. PICK t \in {{"wg error"}, {}} :
            req' = [req EXCEPT ![r] = [req[r] EXCEPT !.pc = "bounce_v4", !.notes = t]]
    BY DEF RestartUp
  <2> DEFINE q == [req[r] EXCEPT !.pc = "bounce_v4", !.notes = t]
  <2>2. req[r] \in Request BY <1>2
  <2>3. q.pc = "bounce_v4" /\ q.notes = t BY <2>2 DEF Request
  <2> HIDE DEF q
  <2>4. req'[r] = q BY <1>2, <2>1 DEF q
  <2>5. QED BY <2>3, <2>4
<1>7. Unharmed(b)' => tunnel'[b] = IF wgConf[b] = "absent" \/ tunnel[b] # "down"
                                   THEN tunnel[b] ELSE wgConf[b]
  BY <1>2, <1>4, UpWorks
<1>8. ASSUME Unharmed(b)' PROVE Settled(b)'
  <2>1. ~WillConfigure(r) /\ birdRun'[b] = birdRun[b] /\ birdConf'[b] = birdConf[b]
    BY <1>3 DEF WillConfigure
  <2>2. ~HasWG(b)' => tunnel'[b] = "down" BY <1>2, <1>3, <1>7, <1>8 DEF Settled, HasWG
  <2>3. \A s \in Req : InFlight(s) /\ req[s].asn = b => req[s].op # "remove"
    BY <1>2, <1>3, <1>8, NoRemovalBeside
  <2>4. QED BY <1>2, <1>3, <1>5, <1>8, <2>1, <2>2, <2>3, SettledAgain
<1>9. ASSUME r \in solo, Unharmed(b)' PROVE Progress(r)'
  <2>1. tunnel[b] = "down" BY <1>2, <1>3, <1>9 DEF Progress, RestartProgress
  <2>2. wgConf'[b] # "absent" => tunnel'[b] = wgConf'[b] BY <1>3, <1>7, <1>9, <2>1
  <2>3. RestartProgress(r)' BY <1>2, <1>6, <2>2 DEF RestartProgress, HasWG
  <2>4. QED BY <1>2, <1>3, <2>3 DEF Progress
<1>10. QED BY <1>2, <1>3, <1>4, <1>8, <1>9 DEF KeepsASN

(* A session BIRD knows belongs to a configured peer, if a /restart that is
   alone on the ASN asks. *)
LEMMA KnownIsConfigured ==
    ASSUME HonestInv, NEW r \in Req, NEW b \in ASN, req[r].asn = b, r \in solo,
           InFlight(r), req[r].op = "restart", Unharmed(b), birdRun[b] # "absent"
    PROVE  HasWG(b)
<1>1. \A s \in Req : s # r /\ req[s].asn = b => ~InFlight(s)
  BY DEF HonestInv, Alone, InFlight
<1>2. birdRun[b] = birdConf[b] BY <1>1 DEF HonestInv, Settled, WillConfigure
<1>3. ~Midway(b) BY <1>1 DEF Midway, InFlight
<1>4. Calm(b) BY DEF Calm, Unharmed, Ops
<1>5. ~HalfConfigured(b) BY <1>3, <1>4 DEF HonestInv, MismatchInv, FilesPaired, PairedAt
<1>6. QED BY <1>2, <1>5 DEF HalfConfigured, HasBird

(* Restarting the two sessions. *)
LEMMA HonestBounce ==
    ASSUME HonestInv, NEW r \in Req, NEW b \in ASN, req[r].asn = b,
           RestartV4(r) \/ RestartV6(r)
    PROVE  KeepsASN(r, b)
<1>1. HandlerStep(r) BY DEF HandlerStep, RestartStep
<1>2. /\ req \in [Req -> Request] /\ req'[r].op = req[r].op /\ req'[r].asn = b
      /\ InFlight(r)
      /\ (Unharmed(b)' => Unharmed(b) /\ b \notin cmdFault')
      /\ (r \in solo /\ Unharmed(b)' => Progress(r))
  BY <1>1, HandlerFacts
<1>3. UNCHANGED <<wgConf, birdConf, daemons>> /\ req[r].op = "restart"
  BY DEF RestartV4, RestartV6, At, files
<1>4. Unharmed(b)' => Settled(b)' BY <1>1, <1>3, SettledSame DEF WillConfigure
<1>5. ASSUME NEW session \in {"v4", "v6"}, NEW out \in BounceOutcomes(b, session),
             r \in solo, Unharmed(b)', out # "unknown",
             cmdFault' = IF Failed(out) THEN cmdFault \union {b} ELSE cmdFault
      PROVE  HasWG(b)
  <2>1. out = "known" BY <1>2, <1>5 DEF BounceOutcomes, Failed
  <2>2. session \in Sessions(birdRun[b]) BY <1>5, <2>1 DEF BounceOutcomes
  <2>3. birdRun[b] # "absent" BY <2>2 DEF Sessions
  <2>4. QED BY <1>2, <1>3, <1>5, <2>3, KnownIsConfigured
<1>6. ASSUME r \in solo, Unharmed(b)' PROVE Progress(r)'
  <2>1. RestartProgress(r) BY <1>2, <1>3, <1>6 DEF Progress
  <2>2. wgConf'[b] = wgConf[b] /\ tunnel'[b] = tunnel[b] BY <1>3 DEF daemons
  <2>3. CASE RestartV4(r)
    <3>1. PICK out \in BounceOutcomes(b, "v4") :
            /\ req' = [req EXCEPT ![r] = [@ EXCEPT !.pc = "bounce_v6",
                        !.notes = req[r].notes \union {n \in {"v4 known"} : out # "unknown"}]]
            /\ cmdFault' = IF Failed(out) THEN cmdFault \union {b} ELSE cmdFault
      BY <2>3 DEF RestartV4
    <3> DEFINE t == req[r].notes \union {n \in {"v4 known"} : out # "unknown"}
    <3> DEFINE q == [req[r] EXCEPT !.pc = "bounce_v6", !.notes = t]
    <3>2. req' = [req EXCEPT ![r] = q] BY <3>1
    <3>3. req[r] \in Request BY <1>2
    <3>4. q.pc = "bounce_v6" /\ q.notes = t BY <3>3 DEF Request
    <3>5. req'[r].pc = "bounce_v6" /\ req'[r].notes = t
      <4> HIDE DEF q, t
      <4>1. QED BY <1>2, <3>2, <3>4
    <3>6. req[r].pc = "bounce_v4" BY <2>3 DEF RestartV4, At
    <3>7. "v4 known" \notin req[r].notes BY <1>3, <2>1, <3>6 DEF RestartProgress
    <3>8. "v4 known" \in t => HasWG(b) BY <1>5, <1>6, <3>1, <3>7
    <3> HIDE DEF q, t
    <3>9. wgConf'[b] # "absent" => tunnel'[b] = wgConf'[b]
      BY <2>1, <2>2, <3>6 DEF RestartProgress, HasWG
    <3>10. RestartProgress(r)' BY <1>2, <2>2, <3>5, <3>8, <3>9 DEF RestartProgress, HasWG
    <3>11. QED BY <1>2, <1>3, <3>10 DEF Progress
  <2>4. CASE RestartV6(r)
    <3>1. PICK out \in BounceOutcomes(b, "v6") :
            /\ Reply(r, RestartStatus("v4 known" \in req[r].notes \/ out # "unknown",
                                      "wg error" \in req[r].notes))
            /\ cmdFault' = IF Failed(out) THEN cmdFault \union {b} ELSE cmdFault
      BY <2>4 DEF RestartV6
    <3>2. req[r].pc = "bounce_v6" BY <2>4 DEF RestartV6, At
    <3>3. \A known, wgErr : RestartStatus(known, wgErr) = 200 => known BY DEF RestartStatus
    <3>4. req'[r].pc = "done" /\ (req'[r].status = 200 => HasWG(b))
      <4>1. /\ req'[r].pc = "done"
            /\ req'[r].status = RestartStatus("v4 known" \in req[r].notes \/ out # "unknown",
                                              "wg error" \in req[r].notes)
        BY <1>2, <3>1, ReplyAnswers
      <4>2. "v4 known" \in req[r].notes => HasWG(b) BY <2>1, <3>2 DEF RestartProgress
      <4>3. out # "unknown" => HasWG(b) BY <1>5, <1>6, <3>1
      <4>4. ASSUME req'[r].status = 200 PROVE "v4 known" \in req[r].notes \/ out # "unknown"
        <5> DEFINE k == "v4 known" \in req[r].notes \/ out # "unknown"
                   e == "wg error" \in req[r].notes
        <5>1. RestartStatus(k, e) = 200 BY <4>1, <4>4
        <5> HIDE DEF k, e
        <5>2. k BY <3>3, <5>1
        <5>3. QED BY <5>2 DEF k
      <4>5. QED BY <4>1, <4>2, <4>3, <4>4
    <3>5. wgConf'[b] # "absent" => tunnel'[b] = wgConf'[b]
      BY <2>1, <2>2, <3>2 DEF RestartProgress, HasWG
    <3>6. RestartProgress(r)' BY <1>2, <2>2, <3>4, <3>5 DEF RestartProgress, HasWG
    <3>7. QED BY <1>2, <1>3, <3>6 DEF Progress
  <2>5. QED BY <2>3, <2>4
<1>7. QED BY <1>3, <1>4, <1>6 DEF KeepsASN, daemons

(* Every call of every handler. *)
LEMMA HonestHandler ==
    ASSUME HonestInv, NEW r \in Req, HandlerStep(r), MismatchInv'
    PROVE  HonestInv'
<1>1. PICK b \in ASN : req[r].asn = b
  BY HandlerInFlight DEF HonestInv, AtWorkTyped, InFlight
<1>2. KeepsASN(r, b)
  BY <1>1, HonestLooks, HonestWriteWG, HonestWriteBird, HonestPeerUp, HonestDown,
     HonestRemoveFiles, HonestConfigure, HonestRestartUp, HonestBounce
  DEF HandlerStep, PeerStep, RemoveStep, RestartStep
<1>3. /\ AtWorkTyped' /\ Alone' /\ RemovalSeen'
      /\ \A a \in ASN : Unharmed(a)' => Settled(a)'
      /\ \A s \in solo' : (req[s].pc # "idle" /\ Unharmed(req[s].asn) => Progress(s))'
  BY <1>1, <1>2, HonestOneASN DEF KeepsASN
<1>4. QED BY <1>3 DEF HonestInv

(* A request that arrives is alone unless it is recorded otherwise. *)
LEMMA HonestStart ==
    ASSUME HonestInv, NEW r \in Req, NEW op \in Requests, NEW a \in ASN,
           NEW info \in PeerInfos, Start(r, op, a, info), MismatchInv'
    PROVE  HonestInv'
<1> DEFINE rivals == {s \in Req \ {r} : InFlight(s) /\ req[s].asn = a}
<1> TypeOK BY DEF HonestInv, MismatchInv
<1>1. /\ agent = "serving" /\ agent' = agent /\ ~InFlight(r) /\ raced \subseteq raced'
      /\ UNCHANGED <<wgConf, birdConf, tunnel, birdRun, fileFault, cmdFault>>
      /\ solo' = (solo \ {s \in Req : s = r \/ req[s].asn = a})
                    \union (IF rivals = {} THEN {r} ELSE {})
  BY DEF Start, files, daemons
<1>2. /\ req'[r].op = op /\ req'[r].asn = a
      /\ req'[r].pc = IF op = "peer" THEN "count_wg" ELSE "down"
      /\ \A s \in Req \ {r} : req'[s] = req[s]
  BY DEF Start, TypeOK, NoRequest
<1>3. op \in Ops BY ReqAssumption
<1>4. AtWorkTyped' BY <1>1, <1>2, <1>3 DEF HonestInv, AtWorkTyped
<1>5. Alone'
  <2> SUFFICES ASSUME NEW q \in solo', NEW s \in Req, s # q, req'[q].pc # "idle",
                      req'[s].asn = req'[q].asn
               PROVE  ~InFlight(s)'
    BY DEF Alone
  <2>1. CASE q = r
    <3>1. rivals = {} BY <1>1, <2>1
    <3>2. QED BY <1>2, <2>1, <3>1 DEF InFlight
  <2>2. CASE q # r
    <3>1. q \in solo /\ req[q].asn # a /\ q \in Req BY <1>1, <2>2 DEF TypeOK
    <3>2. s # r BY <1>2, <2>2, <3>1
    <3>3. QED BY <1>2, <2>2, <3>1, <3>2 DEF HonestInv, Alone, InFlight
  <2>3. QED BY <2>1, <2>2
<1>6. RemovalSeen'
  <2>1. ASSUME NEW s \in rivals, op = "remove", req[s].op # "remove"
        PROVE  <<a, req[s].op>> \in raced'
    <3>1. req[s].op \in Ops BY <2>1 DEF HonestInv, AtWorkTyped, InFlight
    <3>2. QED BY <2>1, <3>1 DEF Start
  <2>2. ASSUME NEW s \in rivals, op # "remove", req[s].op = "remove"
        PROVE  <<a, op>> \in raced'
    BY <1>3, <2>2 DEF Start
  <2> SUFFICES ASSUME NEW q \in Req, NEW s \in Req, InFlight(q)', req'[q].op # "remove",
                      InFlight(s)', req'[s].op = "remove", req'[q].asn = req'[s].asn
               PROVE  <<req'[q].asn, req'[q].op>> \in raced'
    BY DEF RemovalSeen
  <2>3. q # s OBVIOUS
  <2>4. CASE q = r BY <1>2, <2>2, <2>3, <2>4 DEF InFlight
  <2>5. CASE s = r BY <1>2, <2>1, <2>3, <2>5 DEF InFlight
  <2>6. CASE q # r /\ s # r BY <1>1, <1>2, <2>6 DEF HonestInv, RemovalSeen, InFlight
  <2>7. QED BY <2>4, <2>5, <2>6
<1>7. \A c : Unharmed(c)' => Unharmed(c) BY <1>1 DEF Unharmed
<1>8. ASSUME NEW c \in ASN, Unharmed(c)' PROVE Settled(c)'
  <2>1. Settled(c) BY <1>7, <1>8 DEF HonestInv
  <2>2. \A s \in Req : req[s].asn = c /\ WillConfigure(s) => req'[s].asn = c /\ WillConfigure(s)'
    BY <1>1, <1>2 DEF WillConfigure, InFlight
  <2>3. ASSUME NEW s \in Req, InFlight(s)', req'[s].asn = c, req'[s].op = "remove",
               req'[s].pc # "down"
        PROVE  tunnel[c] = "down"
    <3>1. s # r BY <1>2, <2>3
    <3>2. QED BY <1>2, <2>1, <2>3, <3>1 DEF Settled, InFlight
  <2>4. QED BY <1>1, <2>1, <2>2, <2>3 DEF Settled, HasWG
<1>9. ASSUME NEW s \in solo', req'[s].pc # "idle", Unharmed(req[s].asn)' PROVE Progress(s)'
  <2>1. CASE s = r
    BY <1>2, <2>1 DEF Progress, PeerProgress, RemoveProgress, RestartProgress
  <2>2. CASE s # r
    <3>1. s \in solo /\ s \in Req BY <1>1, <2>2 DEF TypeOK
    <3>2. req'[s] = req[s] BY <1>2, <2>2, <3>1
    <3>3. Progress(s) BY <1>7, <1>9, <3>1, <3>2 DEF HonestInv
    <3>4. PeerProgress(s)' <=> PeerProgress(s) BY <1>1, <3>2 DEF PeerProgress
    <3>5. RemoveProgress(s)' <=> RemoveProgress(s)
      BY <1>1, <3>2 DEF RemoveProgress, HasWG, HasBird
    <3>6. RestartProgress(s)' <=> RestartProgress(s) BY <1>1, <3>2 DEF RestartProgress, HasWG
    <3>7. QED BY <3>2, <3>3, <3>4, <3>5, <3>6 DEF Progress
  <2>3. QED BY <2>1, <2>2
<1>10. QED BY <1>4, <1>5, <1>6, <1>8, <1>9 DEF HonestInv

(* While nobody is served an ASN stays settled if its file stays, BIRD keeps
   it or rereads it, and nothing forgets what happened to it. *)
LEMMA HonestUnserved ==
    ASSUME HonestInv, MismatchInv', \A r \in Req : req[r].pc = "idle", req' = req,
           UNCHANGED <<solo, raced, birdConf, birdRun>>, fileFault \subseteq fileFault',
           cmdFault \subseteq cmdFault',
           \A c \in ASN : HasWG(c)' \/ (~HasWG(c) /\ tunnel'[c] = tunnel[c])
    PROVE  HonestInv'
<1>1. \A c : Unharmed(c)' => Unharmed(c) BY DEF Unharmed
<1>2. solo' \subseteq Req BY DEF HonestInv, MismatchInv, TypeOK
<1>3. \A r \in Req : ~InFlight(r) BY DEF InFlight
<1>4. ASSUME NEW c \in ASN, Unharmed(c)' PROVE Settled(c)'
  BY <1>1, <1>3, <1>4 DEF HonestInv, Settled, WillConfigure, InFlight
<1>5. AtWorkTyped' /\ Alone' /\ RemovalSeen'
  BY <1>3 DEF AtWorkTyped, Alone, RemovalSeen, InFlight
<1>6. \A s \in solo' : req'[s].pc = "idle" BY <1>2
<1>7. QED BY <1>4, <1>5, <1>6 DEF HonestInv

(* The recovery, start-up, the first request and crashes. *)
LEMMA HonestProcess ==
    ASSUME HonestInv, MismatchInv',
           (\E a \in ASN : RecoverStep(a)) \/ Boot \/ Serve \/ AgentCrash \/ HostReboot
    PROVE  HonestInv'
<1> TypeOK BY DEF HonestInv, MismatchInv
<1>1. CASE \E a \in ASN : RecoverStep(a)
  <2>1. PICK a \in ASN : RecoverStep(a) BY <1>1
  <2> wgConf \in [ASN -> WGFiles] /\ tunnel \in [ASN -> Tunnels] BY DEF TypeOK
  <2>2. agent = "recovering" /\ rec[a] # "idle" /\ req' = req
        /\ UNCHANGED <<solo, raced, birdConf, birdRun>>
    BY <2>1 DEF RecoverStep, RecoverAcquire, RecoverUp, RecoverStrip, RecoverRewrite,
                RecoverAgain, Recovering, files, daemons, overlaps, history
  <2>3. fileFault \subseteq fileFault' /\ cmdFault \subseteq cmdFault'
    BY <2>1 DEF RecoverStep, RecoverAcquire, RecoverUp, RecoverStrip, RecoverRewrite,
                RecoverAgain, history
  <2>4. HasWG(a) BY <2>2 DEF HonestInv, MismatchInv, BootQuiet
  <2>5. \A c \in ASN \ {a} : wgConf'[c] = wgConf[c] /\ tunnel'[c] = tunnel[c]
    BY <2>1 DEF RecoverStep, RecoverAcquire, RecoverUp, RecoverStrip, RecoverRewrite,
                RecoverAgain, files, daemons
  <2>6. wgConf'[a] # "absent"
    BY <2>1, <2>4 DEF RecoverStep, RecoverAcquire, RecoverUp, RecoverStrip, RecoverRewrite,
                RecoverAgain, files, HasWG
  <2>7. ASSUME NEW c \in ASN PROVE HasWG(c)' \/ (~HasWG(c) /\ tunnel'[c] = tunnel[c])
    <3>1. CASE c = a BY <2>6, <3>1 DEF HasWG
    <3>2. CASE c # a BY <2>5, <3>2 DEF HasWG
    <3>3. QED BY <3>1, <3>2
  <2>8. \A r \in Req : req[r].pc = "idle" BY <2>2 DEF HonestInv, AtWorkTyped
  <2>9. QED BY <2>2, <2>3, <2>7, <2>8, HonestUnserved
<1>2. CASE Boot \/ Serve
  <2>1. \A r \in Req : req[r].pc = "idle" BY <1>2 DEF Boot, Serve, HonestInv, AtWorkTyped
  <2>2. UNCHANGED <<wgConf, tunnel, req, solo, raced, birdConf, birdRun, fileFault, cmdFault>>
    BY <1>2 DEF Boot, Serve, files, daemons, overlaps, history
  <2>3. \A c \in ASN : HasWG(c)' \/ (~HasWG(c) /\ tunnel'[c] = tunnel[c])
    BY <2>2 DEF HasWG
  <2>4. QED BY <2>1, <2>2, <2>3, HonestUnserved
<1>3. CASE Down /\ (AgentCrash \/ HostReboot)
  <2>1. /\ \A r \in Req : req'[r].pc = "idle"
        /\ UNCHANGED <<wgConf, birdConf, solo, raced>>
        /\ fileFault' = fileFault \union Abandoned /\ cmdFault \subseteq cmdFault'
        /\ \/ UNCHANGED <<tunnel, birdRun>>
           \/ birdRun' = birdConf /\ \A c \in ASN : tunnel'[c] = "down"
    BY <1>3 DEF Down, AgentCrash, HostReboot, NoRequest, files, daemons, overlaps
  <2>2. \A c : Unharmed(c)' => Unharmed(c) /\ c \notin Abandoned BY <2>1 DEF Unharmed
  <2>3. \A r \in Req : ~InFlight(r)' BY <2>1 DEF InFlight
  <2>4. ASSUME NEW c \in ASN, Unharmed(c)' PROVE Settled(c)'
    <3>1. Settled(c) BY <2>2, <2>4 DEF HonestInv
    <3>2. \A r \in Req : ~(req[r].asn = c /\ WillConfigure(r))
      <4>1. \A r \in Req : InFlight(r) => req[r].op \in Ops
        BY DEF HonestInv, AtWorkTyped, InFlight
      <4>2. QED BY <2>2, <2>4, <4>1 DEF WillConfigure, Abandoned, Ops
    <3>3. birdRun[c] = birdConf[c] BY <3>1, <3>2 DEF Settled
    <3>4. QED BY <2>1, <2>3, <3>1, <3>3 DEF Settled, HasWG
  <2>5. AtWorkTyped' /\ Alone' /\ RemovalSeen'
    BY <2>1, <2>3 DEF AtWorkTyped, Alone, RemovalSeen
  <2>6. \A s \in solo' : req'[s].pc = "idle" BY <2>1 DEF TypeOK
  <2>7. QED BY <2>4, <2>5, <2>6 DEF HonestInv
<1>4. QED BY <1>1, <1>2, <1>3 DEF AgentCrash, HostReboot

(* Every step of the agent keeps its answers honest. *)
LEMMA HonestStep == HonestInv /\ [Next]_vars => HonestInv'
<1> SUFFICES ASSUME HonestInv, [Next]_vars PROVE HonestInv' OBVIOUS
<1>1. MismatchInv' BY MismatchStep DEF HonestInv
<1>2. CASE \E r \in Req, op \in Requests, a \in ASN, info \in PeerInfos : Start(r, op, a, info)
  BY <1>1, <1>2, HonestStart
<1>3. CASE \E r \in Req : HandlerStep(r) BY <1>1, <1>3, HonestHandler
<1>4. CASE (\E a \in ASN : RecoverStep(a)) \/ Boot \/ Serve \/ AgentCrash \/ HostReboot
  BY <1>1, <1>4, HonestProcess
<1>5. CASE UNCHANGED vars
  <2> USE <1>5 DEF vars
  <2>1. AtWorkTyped' /\ Alone' /\ RemovalSeen'
    BY DEF HonestInv, AtWorkTyped, Alone, RemovalSeen, InFlight
  <2>2. \A a \in ASN : Unharmed(a)' => Settled(a)'
    BY DEF HonestInv, Unharmed, Settled, WillConfigure, HasWG, InFlight
  <2>3. ASSUME NEW r \in solo', req'[r].pc # "idle", Unharmed(req[r].asn)' PROVE Progress(r)'
    <3>1. Progress(r) BY <2>3 DEF HonestInv, Unharmed
    <3>2. PeerProgress(r) => PeerProgress(r)' BY DEF PeerProgress
    <3>3. RemoveProgress(r) => RemoveProgress(r)' BY DEF RemoveProgress, HasWG, HasBird
    <3>4. RestartProgress(r) => RestartProgress(r)' BY DEF RestartProgress, HasWG
    <3>5. QED BY <3>1, <3>2, <3>3, <3>4 DEF Progress
  <2>4. QED BY <1>1, <2>1, <2>2, <2>3 DEF HonestInv
<1>6. QED BY <1>2, <1>3, <1>4, <1>5 DEF Next

(* A 200 of /peer, /remove or /restart means done: unless the ASN was
   touched again, a command of its failed or a removal overlapped, its files
   and daemons are what was asked for (api-reference.md). *)
THEOREM AnswersAreHonest == Spec => []RepliesHonest
<1>1. HonestInv => RepliesHonest
  <2> SUFFICES ASSUME HonestInv, NEW r \in Req, Undisturbed(r), NEW a, a = req[r].asn
               PROVE  CASE req[r].op = "peer" ->
                              /\ wgConf[a] = req[r].info.endpoint
                              /\ birdConf[a] = GenerateBirdConfig(req[r].info)
                              /\ birdRun[a] = birdConf[a]
                              /\ tunnel[a] # "down"
                        [] req[r].op = "remove" ->
                              /\ ~HasWG(a) /\ ~HasBird(a)
                              /\ birdRun[a] = "absent" /\ tunnel[a] = "down"
                        [] req[r].op = "restart" ->
                              /\ HasWG(a) /\ tunnel[a] = wgConf[a]
    BY DEF RepliesHonest
  <2>1. req[r].pc = "done" /\ req[r].status = 200 /\ r \in solo /\ Unharmed(a)
    BY DEF Undisturbed, Unharmed
  <2>2. req[r].op \in Ops /\ a \in ASN BY <2>1 DEF HonestInv, AtWorkTyped
  <2>3. Progress(r) BY <2>1 DEF HonestInv
  <2>4. CASE req[r].op = "peer" BY <2>1, <2>3, <2>4 DEF Progress, PeerProgress
  <2>5. CASE req[r].op = "remove"
    BY <2>1, <2>3, <2>5 DEF Progress, RemoveProgress, HasBird
  <2>6. CASE req[r].op = "restart" BY <2>1, <2>3, <2>6 DEF Progress, RestartProgress
  <2>7. QED BY <2>2, <2>4, <2>5, <2>6 DEF Ops
<1>2. Init => MismatchInv
  BY TypeInit, MismatchInit DEF MismatchInv, Init, InFlightTyped, InFlight, NoRequest
<1>3. Init => HonestInv BY <1>2, HonestInit
<1>4. QED BY <1>1, <1>3, HonestStep, PTL DEF Spec

-----------------------------------------------------------------------------
(***************************************************************************)
(* OvershootBounded.  A /peer for a new ASN compares a count it took some  *)
(* calls ago, and others may have added files since.  Not inductive:       *)
(* one must count the handlers that will still add one.  Room says that    *)
(* these and the files together stay within the bound; they do because a   *)
(* handler counts itself in only while there are fewer files than allowed. *)
(***************************************************************************)
(* /peer handlers that may still add a WireGuard file: their count, taken
   earlier, was below the limit, or they have passed it. *)
Adders ==
    {r \in Req :
        /\ req[r].op = "peer" /\ ~HasWG(req[r].asn)
        /\ \/ req[r].pc = "open_wg"
           \/ /\ req[r].pc \in {"count_bird", "stat_wg", "stat_bird"}
              /\ req[r].n < MaxPeers}

(* What a handler has seen of its file still holds. *)
Noted ==
    \A r \in Req :
        At(r, "peer", "stat_bird") /\ "wg exists" \in req[r].notes => HasWG(req[r].asn)

Orderly == MaxPeers # 0 /\ raced = {} /\ fileFault = {}

Room == WGCount + Cardinality(Adders) <= MaxPeers + Cardinality(Req) - 1

CapacityInv == MismatchInv /\ (Orderly => Noted /\ Room)

(* The two counts, as sets. *)
Configured == {a \in ASN : HasWG(a)}

LEMMA CountsAreFinite ==
    /\ WGCount = Cardinality(Configured)
    /\ \A S \in SUBSET ASN : \A T \in SUBSET S : Cardinality(T) <= Cardinality(S)
    /\ \A S \in SUBSET Req : \A T \in SUBSET S : Cardinality(T) <= Cardinality(S)
    /\ \A S \in SUBSET ASN : IsFiniteSet(S) /\ Cardinality(S) \in Nat
    /\ \A S \in SUBSET Req : IsFiniteSet(S) /\ Cardinality(S) \in Nat
<1>1. \A S \in SUBSET ASN : IsFiniteSet(S) /\ Cardinality(S) \in Nat
  BY ASNAssumption, FS_Subset, FS_CardinalityType
<1>2. \A S \in SUBSET Req : IsFiniteSet(S) /\ Cardinality(S) \in Nat
  BY ReqAssumption, FS_Subset, FS_CardinalityType
<1>3. \A S, T : IsFiniteSet(S) /\ T \in SUBSET S => Cardinality(T) <= Cardinality(S)
  BY FS_Subset
<1>4. QED BY <1>1, <1>2, <1>3 DEF WGCount, Configured

(* Neither a new file nor a new adder. *)
LEMMA RoomKept ==
    ASSUME Room, MaxPeers \in Nat, Configured' \subseteq Configured, Adders' \subseteq Adders
    PROVE  Room'
<1>1. Configured \in SUBSET ASN /\ Configured' \in SUBSET ASN BY DEF Configured
<1>2. Adders \in SUBSET Req /\ Adders' \in SUBSET Req BY DEF Adders
<1>3. WGCount' = Cardinality(Configured') /\ WGCount = Cardinality(Configured)
  BY DEF WGCount, Configured
<1>4. WGCount' <= WGCount /\ Cardinality(Adders') <= Cardinality(Adders)
  BY <1>1, <1>2, <1>3, CountsAreFinite
<1>5. /\ WGCount \in Nat /\ WGCount' \in Nat /\ Cardinality(Req) \in Nat
      /\ Cardinality(Adders) \in Nat /\ Cardinality(Adders') \in Nat
  BY <1>1, <1>2, <1>3, CountsAreFinite
<1> QED BY <1>4, <1>5 DEF Room

(* Below the limit every goroutine may be an adder. *)
LEMMA RoomBelowLimit ==
    ASSUME MaxPeers \in Nat, Configured' = Configured, WGCount < MaxPeers
    PROVE  Room'
<1>1. Configured \in SUBSET ASN /\ Adders' \in SUBSET Req BY DEF Configured, Adders
<1>2. WGCount' = Cardinality(Configured') /\ WGCount = Cardinality(Configured)
  BY DEF WGCount, Configured
<1>3. WGCount' = WGCount /\ WGCount \in Nat BY <1>1, <1>2, CountsAreFinite
<1>4. Cardinality(Adders') <= Cardinality(Req) /\ Cardinality(Adders') \in Nat
      /\ Cardinality(Req) \in Nat
  BY <1>1, CountsAreFinite
<1> QED BY <1>3, <1>4 DEF Room

(* An adder turns into a file. *)
LEMMA RoomTaken ==
    ASSUME Room, MaxPeers \in Nat, NEW r \in Adders, NEW a \in ASN,
           Configured' = Configured \cup {a}, a \notin Configured,
           Adders' \subseteq Adders \ {r}
    PROVE  Room'
<1>1. /\ Configured \in SUBSET ASN /\ Configured' \in SUBSET ASN
      /\ Adders \in SUBSET Req /\ Adders \ {r} \in SUBSET Req
      /\ Adders' \in SUBSET (Adders \ {r}) /\ Adders' \in SUBSET Req
  BY DEF Configured, Adders
<1>2. WGCount' = Cardinality(Configured') /\ WGCount = Cardinality(Configured)
  BY DEF WGCount, Configured
<1>3. IsFiniteSet(Configured) /\ IsFiniteSet(Adders) BY <1>1, CountsAreFinite
<1>4. Cardinality(Configured \cup {a}) = Cardinality(Configured) + 1
  BY <1>3, FS_AddElement
<1>5. Cardinality(Adders \ {r}) = Cardinality(Adders) - 1
  BY <1>3, FS_RemoveElement
<1>6. Cardinality(Adders') <= Cardinality(Adders \ {r})
  BY <1>1, CountsAreFinite
<1>7. /\ Cardinality(Configured) \in Nat /\ Cardinality(Adders) \in Nat
      /\ Cardinality(Adders') \in Nat /\ Cardinality(Req) \in Nat
  BY <1>1, CountsAreFinite
<1> QED BY <1>2, <1>4, <1>5, <1>6, <1>7 DEF Room

(* The file of an ASN that a /peer works on goes only by a /remove of it, and
   that is an overlap. *)
LEMMA FileStays ==
    ASSUME MismatchInv, NEW r \in Req, HandlerStep(r), raced = {},
           NEW s \in Req, InFlight(s), req[s].op = "peer", HasWG(req[s].asn)
    PROVE  HasWG(req[s].asn)'
<1> DEFINE a == req[s].asn
<1>1. a \in ASN /\ wgConf \in [ASN -> WGFiles] /\ req \in [Req -> Request]
  BY DEF MismatchInv, InFlightTyped, TypeOK
<1>2. ~(req[r].op = "remove" /\ req[r].asn = a)
  BY HandlerInFlight DEF MismatchInv, OverlapSeen
<1>3. wgConf[a] # "absent" BY DEF HasWG
<1>4. \A t \in Req : req[t].info.endpoint # "absent"
  BY <1>1 DEF Request, PeerInfo, Endpoints
<1>5. wgConf'[a] # "absent"
  <2>1. CASE OpenWG(r) \/ WriteWG(r)
    BY <1>1, <1>3, <1>4, <2>1 DEF OpenWG, WriteWG
  <2>2. CASE RemoveWG(r)
    BY <1>1, <1>2, <1>3, <2>2 DEF RemoveWG, At
  <2>3. CASE wgConf' = wgConf
    BY <1>3, <2>3
  <2> QED
    BY <2>1, <2>2, <2>3, Zenon
    DEF HandlerStep, PeerStep, RemoveStep, RestartStep, files,
        CountWG, CountBird, StatWG, StatBird, OpenBird, WriteBird, PeerUp, RemoveDown,
        RemoveBird, RestartDown, RestartUp, RestartV4, RestartV6, Configure
<1>6. req'[s].asn = a
  BY HandlerMoves DEF MismatchInv, Moved
<1> QED BY <1>5, <1>6 DEF HasWG

(* Other goroutines do not become adders by a handler's step, and what they
   have noted still holds. *)
LEMMA OthersStay ==
    ASSUME MismatchInv, NEW r \in Req, HandlerStep(r), raced = {},
           NEW s \in Req \ {r}
    PROVE  /\ s \in Adders' => s \in Adders
           /\ Noted /\ At(s, "peer", "stat_bird")' /\ "wg exists" \in req'[s].notes
              => HasWG(req[s].asn)'
<1>1. req'[s] = req[s]
  BY HandlerMoves DEF MismatchInv, Moved
<1>2. ASSUME req[s].op = "peer", req[s].pc \notin {"idle", "done"}, HasWG(req[s].asn)
      PROVE  HasWG(req[s].asn)'
  BY <1>2, FileStays DEF InFlight
<1>3. ASSUME s \in Adders' PROVE s \in Adders
  BY <1>1, <1>2, <1>3 DEF Adders, HasWG
<1>4. ASSUME Noted, At(s, "peer", "stat_bird")', "wg exists" \in req'[s].notes
      PROVE  HasWG(req[s].asn)'
  BY <1>1, <1>2, <1>4 DEF Noted, At
<1> QED BY <1>3, <1>4

(* A handler's step by its own goroutine: the others only lose. *)
LEMMA OwnStep ==
    ASSUME MismatchInv, NEW r \in Req, HandlerStep(r), raced = {}, Noted, Room,
           At(r, "peer", "stat_bird")' /\ "wg exists" \in req'[r].notes => HasWG(req[r].asn)',
           Configured' \subseteq Configured, r \in Adders' => r \in Adders
    PROVE  Noted' /\ Room'
<1>1. Adders' \subseteq Adders
  BY OthersStay DEF Adders
<1>2. \A s \in Req : req'[s].asn = req[s].asn
  BY HandlerMoves DEF MismatchInv, Moved
<1>3. Noted'
  BY <1>2, OthersStay, Zenon DEF Noted, At
<1> QED BY <1>1, <1>3, RoomKept, LimitAssumption

(* A handler that is past the questions, or has no further one. *)
LEMMA LaterStep ==
    ASSUME MismatchInv, NEW r \in Req, HandlerStep(r), raced = {}, Noted, Room,
           req'[r].pc \notin {"count_bird", "stat_wg", "stat_bird", "open_wg"},
           Configured' \subseteq Configured
    PROVE  Noted' /\ Room'
BY OwnStep DEF Adders, At

(* An adder writes its file at last, or an existing one is truncated. *)
LEMMA AddsFile ==
    ASSUME MismatchInv, NEW r \in Req, OpenWG(r), raced = {}, Noted, Room, fileFault' = fileFault
    PROVE  Noted' /\ Room'
<1> DEFINE a == req[r].asn
<1>1. HandlerStep(r) BY DEF HandlerStep, PeerStep
<1>2. a \in ASN /\ wgConf \in [ASN -> WGFiles] /\ req \in [Req -> Request]
  BY <1>1, HandlerInFlight DEF MismatchInv, InFlightTyped, TypeOK
<1>3. At(r, "peer", "open_wg")
  BY DEF OpenWG
<1>4. \/ wgConf' = [wgConf EXCEPT ![a] = "empty"] /\ Goto(r, "write_wg")
      \/ Reply(r, 500) /\ UNCHANGED wgConf
  BY DEF OpenWG
<1>5. CASE Reply(r, 500) /\ UNCHANGED wgConf
  <2>1. req'[r].pc = "done" BY <1>2, <1>5, ReplyAnswers
  <2>2. Configured' = Configured BY <1>5 DEF Configured, HasWG
  <2> QED BY <1>1, <2>1, <2>2, LaterStep
<1>6. CASE wgConf' = [wgConf EXCEPT ![a] = "empty"] /\ Goto(r, "write_wg")
  <2>1. req'[r].pc = "write_wg" BY <1>2, <1>6 DEF Goto, Request
  <2>2. Configured' = Configured \cup {a} BY <1>2, <1>6 DEF Configured, HasWG
  <2>3. CASE HasWG(a)
    <3>1. Configured' = Configured BY <1>2, <2>2, <2>3 DEF Configured
    <3> QED BY <1>1, <2>1, <3>1, LaterStep
  <2>4. CASE ~HasWG(a)
    <3>1. r \in Adders BY <1>3, <2>4 DEF Adders, At
    <3>2. r \notin Adders' BY <2>1 DEF Adders
    <3>3. Adders' \subseteq Adders \ {r}
      BY <1>1, <3>2, OthersStay DEF Adders
    <3>4. a \notin Configured BY <2>4 DEF Configured
    <3>5. Room' BY <1>2, <2>2, <3>1, <3>3, <3>4, RoomTaken, LimitAssumption
    <3>6. \A s \in Req : req'[s].asn = req[s].asn
      BY <1>1, HandlerMoves DEF MismatchInv, Moved
    <3>7. ~At(r, "peer", "stat_bird")' BY <2>1 DEF At
    <3>8. Noted' BY <1>1, <3>6, <3>7, OthersStay, Zenon DEF Noted, At
    <3> QED BY <3>5, <3>8
  <2> QED BY <2>3, <2>4
<1> QED BY <1>4, <1>5, <1>6

(* The count and what /peer looks up before it writes. *)
LEMMA Questions ==
    ASSUME MismatchInv, NEW r \in Req, raced = {}, fileFault = {}, MaxPeers # 0, Noted, Room,
           CountWG(r) \/ CountBird(r) \/ StatWG(r) \/ StatBird(r)
    PROVE  Noted' /\ Room'
<1> DEFINE a == req[r].asn
<1>1. HandlerStep(r) BY DEF HandlerStep, PeerStep
<1>2. /\ a \in ASN /\ wgConf \in [ASN -> WGFiles] /\ req \in [Req -> Request]
      /\ InFlight(r) /\ req[r].op = "peer" /\ req[r] \in Request
  BY <1>1, HandlerInFlight
  DEF MismatchInv, InFlightTyped, TypeOK, CountWG, CountBird, StatWG, StatBird, At
<1>3. wgConf' = wgConf /\ Configured' = Configured /\ WGCount' = WGCount
  BY DEF CountWG, CountBird, StatWG, StatBird, files, Configured, HasWG, WGCount
<1>4. req'[r].op = "peer" /\ req'[r].asn = a /\ \A s \in Req \ {r} : req'[s] = req[s]
  BY <1>1, <1>2, HandlerMoves DEF MismatchInv, Moved
<1>5. HasWG(a)' <=> HasWG(a)
  BY <1>3, <1>4 DEF HasWG
<1>6. CASE CountWG(r)
  <2> DEFINE q == [req[r] EXCEPT !.pc = "count_bird", !.n = WGCount]
  <2>1. q.pc = "count_bird" /\ q.n = WGCount BY <1>2 DEF Request
  <2>2. req'[r] = q BY <1>2, <1>6 DEF CountWG
  <2> HIDE DEF q
  <2>3. ~At(r, "peer", "stat_bird")' BY <2>1, <2>2 DEF At
  <2>4. CASE WGCount < MaxPeers
    <3>1. Room' BY <1>3, <2>4, RoomBelowLimit, LimitAssumption
    <3>2. \A s \in Req : req'[s].asn = req[s].asn BY <1>4
    <3>3. Noted' BY <1>1, <2>3, <3>2, OthersStay, Zenon DEF Noted, At
    <3> QED BY <3>1, <3>3
  <2>5. CASE ~(WGCount < MaxPeers)
    <3>1. r \notin Adders' BY <2>1, <2>2, <2>5 DEF Adders
    <3> QED BY <1>1, <1>3, <2>3, <3>1, OwnStep
  <2> QED BY <2>4, <2>5
<1>7. CASE CountBird(r)
  <2>1. CASE Reply(r, 500)
    <3>1. req'[r].pc = "done" BY <1>2, <2>1, ReplyAnswers
    <3> QED BY <1>1, <1>3, <3>1, LaterStep
  <2>2. CASE Goto(r, "stat_wg")
    <3>1. req[r].pc = "count_bird" BY <1>7 DEF CountBird, At
    <3>2. req'[r].pc = "stat_wg" /\ req'[r].n = req[r].n BY <1>2, <2>2 DEF Goto, Request
    <3>3. r \in Adders' => r \in Adders BY <1>2, <1>4, <1>5, <3>1, <3>2 DEF Adders
    <3>4. ~At(r, "peer", "stat_bird")' BY <3>2 DEF At
    <3> QED BY <1>1, <1>3, <3>3, <3>4, OwnStep
  <2> QED BY <1>7, <2>1, <2>2 DEF CountBird
<1>8. CASE StatWG(r)
  <2> DEFINE t == IF HasWG(a) THEN {"wg exists"} ELSE {}
             q == [req[r] EXCEPT !.pc = "stat_bird", !.notes = t]
  <2>1. req[r].pc = "stat_wg" BY <1>8 DEF StatWG, At
  <2>2. req'[r] = q BY <1>2, <1>8 DEF StatWG
  <2>3. q.pc = "stat_bird" /\ q.n = req[r].n /\ q.notes = t BY <1>2 DEF Request
  <2>4. "wg exists" \in t => HasWG(a) OBVIOUS
  <2> HIDE DEF q, t
  <2>5. r \in Adders' => r \in Adders BY <1>2, <1>4, <1>5, <2>1, <2>2, <2>3 DEF Adders
  <2>6. "wg exists" \in req'[r].notes => HasWG(a)' BY <1>5, <2>2, <2>3, <2>4
  <2> QED BY <1>1, <1>3, <2>5, <2>6, OwnStep
<1>9. CASE StatBird(r)
  <2> DEFINE q == [req[r] EXCEPT !.pc = "open_wg", !.n = 0, !.notes = {}]
  <2>1. CASE Reply(r, 503)
    <3>1. req'[r].pc = "done" BY <1>2, <2>1, ReplyAnswers
    <3> QED BY <1>1, <1>3, <3>1, LaterStep
  <2>2. CASE /\ "wg exists" \in req[r].notes \/ HasBird(a) \/ MayAdd(req[r].n)
             /\ req' = [req EXCEPT ![r] = q]
    <3>1. req[r].pc = "stat_bird" /\ At(r, "peer", "stat_bird") BY <1>9 DEF StatBird, At
    <3>2. q.pc = "open_wg" BY <1>2 DEF Request
    <3> HIDE DEF q
    <3>3. req'[r].pc = "open_wg" BY <1>2, <2>2, <3>2
    <3>4. CASE "wg exists" \in req[r].notes \/ HasBird(a)
      <4>1. "wg exists" \in req[r].notes => HasWG(a) BY <3>1 DEF Noted
      <4>2. Calm(a) /\ PairedAt(a) BY <1>2 DEF MismatchInv, FilesPaired, Calm
      <4>3. ~ \E s \in Req : req[s].asn = a /\ req[s].op = "remove" /\ req[s].pc = "rm_bird"
        <5>1. \A s \in Req : req[s].pc = "rm_bird" => InFlight(s) BY DEF InFlight
        <5> QED BY <1>2, <5>1 DEF MismatchInv, OverlapSeen
      <4>4. HasBird(a) => HasWG(a)
        BY <4>2, <4>3 DEF PairedAt, HalfConfigured, Midway, At
      <4>5. r \notin Adders' BY <1>4, <1>5, <3>4, <4>1, <4>4 DEF Adders
      <4>6. ~At(r, "peer", "stat_bird")' BY <3>3 DEF At
      <4> QED BY <1>1, <1>3, <4>5, <4>6, OwnStep
    <3>5. CASE MayAdd(req[r].n)
      <4>1. req[r].n < MaxPeers BY <1>2, <3>5, LimitAssumption DEF MayAdd, Request
      <4>2. r \in Adders' => r \in Adders BY <1>2, <1>4, <1>5, <3>1, <4>1 DEF Adders
      <4>3. ~At(r, "peer", "stat_bird")' BY <3>3 DEF At
      <4> QED BY <1>1, <1>3, <4>2, <4>3, OwnStep
    <3> QED BY <2>2, <3>4, <3>5
  <2> QED BY <1>9, <2>1, <2>2, Zenon DEF StatBird
<1> QED BY <1>6, <1>7, <1>8, <1>9

(* The steps of a handler after its last question, and of /remove and
   /restart: no file is added. *)
LEMMA LateSteps ==
    ASSUME MismatchInv, NEW r \in Req, HandlerStep(r), raced = {}, fileFault = {}, Noted, Room,
           ~(CountWG(r) \/ CountBird(r) \/ StatWG(r) \/ StatBird(r) \/ OpenWG(r))
    PROVE  Noted' /\ Room'
<1> DEFINE a == req[r].asn
<1> USE DEF At, Goto
<1>1. /\ a \in ASN /\ wgConf \in [ASN -> WGFiles] /\ req \in [Req -> Request]
      /\ Calm(a) /\ PairedAt(a)
  BY HandlerInFlight DEF MismatchInv, InFlightTyped, TypeOK, FilesPaired, Calm
<1>2. ASSUME req'[r].pc \notin {"count_bird", "stat_wg", "stat_bird", "open_wg"},
             Configured' \subseteq Configured
      PROVE  Noted' /\ Room'
  BY <1>2, LaterStep
<1>3. wgConf' = wgConf => Configured' = Configured
  BY DEF Configured, HasWG
<1>4. CASE WriteWG(r)
  <2>1. HasWG(a) BY <1>1, <1>4 DEF WriteWG, PairedAt
  <2>2. wgConf' = wgConf \/ wgConf' = [wgConf EXCEPT ![a] = req[r].info.endpoint]
    BY <1>4 DEF WriteWG
  <2>3. Configured' \subseteq Configured BY <1>1, <2>1, <2>2 DEF Configured, HasWG
  <2>4. Goto(r, "open_bird") \/ Reply(r, 500) BY <1>4, Zenon DEF WriteWG
  <2>5. req'[r].pc \in {"open_bird", "done"} BY <1>1, <2>4, ReplyAnswers DEF Request
  <2> QED BY <1>2, <2>3, <2>5
<1>5. CASE OpenBird(r) \/ WriteBird(r)
  <2>1. wgConf' = wgConf BY <1>5 DEF OpenBird, WriteBird
  <2>2. \/ Goto(r, "write_bird") \/ Goto(r, "wg_up") \/ Reply(r, 500)
    BY <1>5, Zenon DEF OpenBird, WriteBird
  <2>3. req'[r].pc \in {"write_bird", "wg_up", "done"} BY <1>1, <2>2, ReplyAnswers DEF Request
  <2> QED BY <1>2, <1>3, <2>1, <2>3
<1>6. CASE RemoveWG(r)
  <2>1. wgConf' = wgConf \/ wgConf' = [wgConf EXCEPT ![a] = "absent"]
    BY <1>6 DEF RemoveWG
  <2>2. Configured' \subseteq Configured BY <1>1, <2>1 DEF Configured, HasWG
  <2>3. req'[r].pc = "rm_bird" BY <1>1, <1>6 DEF RemoveWG, Request
  <2> QED BY <1>2, <2>2, <2>3
<1>7. CASE PeerUp(r) \/ RemoveDown(r) \/ RemoveBird(r) \/ RestartDown(r)
  <2>1. wgConf' = wgConf
    BY <1>7 DEF PeerUp, RemoveDown, RemoveBird, RestartDown, files
  <2>2. Goto(r, "configure") \/ Goto(r, "rm_wg") \/ Goto(r, "up")
    BY <1>7, Zenon DEF PeerUp, RemoveDown, RemoveBird, RestartDown
  <2>3. req'[r].pc \in {"configure", "rm_wg", "up"} BY <1>1, <2>2 DEF Request
  <2> QED BY <1>2, <1>3, <2>1, <2>3
<1>8. CASE Configure(r)
  <2>1. wgConf' = wgConf /\ Reply(r, 200) BY <1>8 DEF Configure, files
  <2>2. req'[r].pc = "done" BY <1>1, <2>1, ReplyAnswers
  <2> QED BY <1>2, <1>3, <2>1, <2>2
<1>9. CASE RestartUp(r) \/ RestartV4(r) \/ RestartV6(r)
  <2>1. wgConf' = wgConf BY <1>9 DEF RestartUp, RestartV4, RestartV6, files
  <2>2. req[r].op = "restart" /\ req'[r].op = req[r].op
    BY <1>9, HandlerMoves DEF RestartUp, RestartV4, RestartV6, MismatchInv, Moved
  <2>3. r \notin Adders' /\ ~At(r, "peer", "stat_bird")' BY <2>2 DEF Adders
  <2> QED BY <1>3, <2>1, <2>3, OwnStep
<1> QED
  BY <1>4, <1>5, <1>6, <1>7, <1>8, <1>9, Zenon
  DEF HandlerStep, PeerStep, RemoveStep, RestartStep

(* A request arrives; the recovery only rewrites files that exist; a crash
   leaves the files and no handler. *)
LEMMA CapacityElsewhere ==
    ASSUME MismatchInv, Orderly, Noted, Room,
           \/ \E r \in Req, op \in Requests, a \in ASN, info \in PeerInfos : Start(r, op, a, info)
           \/ \E a \in ASN : RecoverStep(a)
           \/ Boot \/ Serve \/ AgentCrash \/ HostReboot
           \/ UNCHANGED vars
    PROVE  Noted' /\ Room'
<1> req \in [Req -> Request] BY DEF MismatchInv, TypeOK
<1>1. \A a \in ASN : HasWG(a)' <=> HasWG(a)
  <2>1. CASE wgConf' = wgConf BY <2>1 DEF HasWG
  <2>2. ASSUME NEW a \in ASN, RecoverStep(a) PROVE \A b \in ASN : HasWG(b)' <=> HasWG(b)
    <3>1. HasWG(a) BY <2>2 DEF MismatchInv, BootQuiet, RecoverStep, RecoverAcquire, RecoverUp,
                            RecoverStrip, RecoverRewrite, RecoverAgain, Recovering
    <3>2. \/ wgConf' = wgConf \/ wgConf' = [wgConf EXCEPT ![a] = "empty"]
          \/ wgConf' = [wgConf EXCEPT ![a] = "none"]
      BY <2>2, Zenon DEF RecoverStep, RecoverAcquire, RecoverUp, RecoverStrip, RecoverRewrite,
                      RecoverAgain, files
    <3> QED BY <3>1, <3>2 DEF HasWG, MismatchInv, TypeOK
  <2>3. ASSUME ~(wgConf' = wgConf) PROVE \E a \in ASN : RecoverStep(a)
    BY <2>3, Zenon DEF Start, Boot, Serve, AgentCrash, HostReboot, Down, files, vars
  <2> QED BY <2>1, <2>2, <2>3
<1>2. Configured' = Configured BY <1>1 DEF Configured
<1>3. \A r \in Req : req'[r] = req[r] \/ req'[r].pc \notin {"count_bird", "stat_wg", "stat_bird", "open_wg"}
  <2>1. CASE req' = req BY <2>1
  <2>2. CASE Down BY <2>2 DEF Down, NoRequest
  <2>3. ASSUME NEW r \in Req, NEW op \in Requests, NEW a \in ASN, NEW info \in PeerInfos,
               Start(r, op, a, info)
        PROVE  req'[r].pc \in {"count_wg", "down"} /\ \A s \in Req \ {r} : req'[s] = req[s]
    BY <2>3 DEF Start, NoRequest
  <2>4. ASSUME ~(req' = req), ~Down
        PROVE  \E r \in Req, op \in Requests, a \in ASN, info \in PeerInfos : Start(r, op, a, info)
    BY <2>4, Zenon DEF RecoverStep, RecoverAcquire, RecoverUp, RecoverStrip, RecoverRewrite,
                       RecoverAgain, Boot, Serve, AgentCrash, HostReboot, vars
  <2> QED BY <2>1, <2>2, <2>3, <2>4
<1>4. \A r \in Req : InFlight(r) => req[r].asn \in ASN
  BY DEF MismatchInv, InFlightTyped
<1>5. Adders' \subseteq Adders
  BY <1>1, <1>3, <1>4 DEF Adders, InFlight, HasWG
<1>6. Noted'
  BY <1>1, <1>3, <1>4 DEF Noted, At, InFlight, HasWG
<1> QED BY <1>2, <1>5, <1>6, RoomKept, LimitAssumption

LEMMA CapacityStep == CapacityInv /\ [Next]_vars => CapacityInv'
<1> SUFFICES ASSUME CapacityInv, [Next]_vars PROVE CapacityInv'
  OBVIOUS
<1>1. MismatchInv /\ MismatchInv' BY MismatchStep DEF CapacityInv
<1>2. SUFFICES ASSUME Orderly' PROVE Noted' /\ Room'
  BY <1>1 DEF CapacityInv
<1>3. raced \subseteq raced' /\ fileFault \subseteq fileFault'
  <2>1. ASSUME NEW r \in Req, HandlerStep(r) PROVE raced' = raced /\ fileFault \subseteq fileFault'
    BY <1>1, <2>1, HandlerEdits DEF MismatchInv
  <2>2. ASSUME NEW r \in Req, NEW op \in Requests, NEW a \in ASN, NEW info \in PeerInfos,
               Start(r, op, a, info)
        PROVE  raced \subseteq raced' /\ fileFault' = fileFault
    BY <2>2 DEF Start
  <2>3. ASSUME NEW a \in ASN, RecoverStep(a) PROVE raced' = raced /\ fileFault \subseteq fileFault'
    BY <2>3 DEF RecoverStep, RecoverAcquire, RecoverUp, RecoverStrip, RecoverRewrite,
                RecoverAgain, history, overlaps
  <2>4. CASE Boot \/ Serve \/ AgentCrash \/ HostReboot \/ UNCHANGED vars
    BY <2>4 DEF Boot, Serve, AgentCrash, HostReboot, Down, history, overlaps, vars
  <2> QED BY <2>1, <2>2, <2>3, <2>4 DEF Next
<1>4. Orderly BY <1>2, <1>3 DEF Orderly
<1>5. Noted /\ Room BY <1>4 DEF CapacityInv
<1>6. ASSUME NEW r \in Req, HandlerStep(r) PROVE Noted' /\ Room'
  <2>1. CASE OpenWG(r)
    <3>1. fileFault' = fileFault BY <1>2, <1>4 DEF Orderly
    <3> QED BY <1>1, <1>4, <1>5, <2>1, <3>1, AddsFile DEF Orderly
  <2>2. CASE CountWG(r) \/ CountBird(r) \/ StatWG(r) \/ StatBird(r)
    BY <1>1, <1>4, <1>5, <2>2, Questions DEF Orderly
  <2> QED BY <1>1, <1>4, <1>5, <1>6, <2>1, <2>2, LateSteps DEF Orderly
<1> QED BY <1>1, <1>4, <1>5, <1>6, CapacityElsewhere DEF Next

LEMMA CapacityInit == Init => CapacityInv
<1> SUFFICES ASSUME Init PROVE CapacityInv
  OBVIOUS
<1>1. MismatchInv
  BY TypeInit, MismatchInit DEF MismatchInv, Init, InFlightTyped, InFlight, NoRequest
<1>2. Adders = {} BY DEF Init, Adders, NoRequest
<1>3. Noted BY DEF Init, Noted, At, NoRequest
<1>4. Configured \in SUBSET Initial /\ Initial \in SUBSET ASN
  BY ASNAssumption DEF Init, Configured, HasWG
<1>5. WGCount <= Cardinality(Initial) /\ Cardinality(Initial) \in Nat /\ WGCount \in Nat
  BY <1>4, CountsAreFinite, CountsAreNat
<1>6. Cardinality(Adders) = 0 BY <1>2, FS_EmptySet
<1>7. Cardinality(Req) \in Nat \ {0}
  <2>1. IsFiniteSet(Req) /\ Req # {} BY ReqAssumption
  <2> QED BY <2>1, FS_EmptySet, FS_CardinalityType
<1>8. MaxPeers # 0 => Room
  BY <1>5, <1>6, <1>7, LimitAssumption DEF Room
<1> QED BY <1>1, <1>3, <1>8 DEF CapacityInv, Orderly

(* The number of peers exceeds max_peers by at most one for each other
   goroutine, however many there are: the count is read long before the file
   is written (peer.go:38-72, config.md:84). *)
THEOREM OvershootIsBounded == Spec => []OvershootBounded
<1>1. CapacityInv => OvershootBounded
  <2> SUFFICES ASSUME CapacityInv, Orderly
               PROVE  WGCount <= MaxPeers + Cardinality(Req) - 1
    BY DEF OvershootBounded, Orderly
  <2>1. Room BY DEF CapacityInv
  <2>2. Adders \in SUBSET Req BY DEF Adders
  <2>3. Cardinality(Adders) \in Nat /\ Cardinality(Req) \in Nat BY <2>2, CountsAreFinite
  <2> QED BY <2>1, <2>3, CountsAreNat, LimitAssumption DEF Room
<1> QED BY <1>1, CapacityInit, CapacityStep, PTL DEF Spec
=============================================================================
