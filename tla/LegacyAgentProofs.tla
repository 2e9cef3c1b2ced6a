------------------------- MODULE LegacyAgentProofs -------------------------
(***************************************************************************)
(* Theorems about LegacyAgent, for every set of ASNs, every limit of peers *)
(* and any number of faults and crashes.                                   *)
(***************************************************************************)
EXTENDS LegacyAgent, FiniteSetTheorems, TLAPS

PeerPlaces == {"check", "write_wg", "write_bird", "up"}
RemovePlaces == {"down", "delete_wg", "delete_bird"}
RestartPlaces == {"bounce", "reup", "restart_bird"}

(* There is a request exactly while a handler works on it, and a recovery  *)
(* only during the recovery, of files that exist.                          *)
AtWork ==
  /\ pc \in {"boot", "recovery", "idle"} <=> request.asn = None
  /\ pc \in PeerPlaces => request.op = "peer"
  /\ pc \in RemovePlaces => request.op = "remove"
  /\ pc \in RestartPlaces => request.op = "restart"
  /\ pc = "configure" => request.op \in {"peer", "remove"}
  /\ \A a \in ASNs : rec[a] # "done" => pc = "recovery" /\ HasWg(a)

(* The two files of an ASN exist together, but for the steps between them, *)
(* and are whole.                                                          *)
Paired(a) ==
  a \notin cut =>
    /\ a = request.asn /\ pc = "write_bird" => HasWg(a)
    /\ a = request.asn /\ pc = "delete_bird" => ~HasWg(a)
    /\ a # request.asn \/ pc \notin {"write_bird", "delete_bird"} => HasWg(a) = HasBird(a)
    /\ wg[a] # "torn" /\ bird[a] # "torn"

WgConfs == {a \in ASNs : HasWg(a)}
BirdConfs == {a \in ASNs : HasBird(a)}

(* There is room for the file that is about to be written.                 *)
Room ==
  pc = "write_wg" => MaxPeers = 0 \/ HasWg(request.asn) \/ Cardinality(WgConfs) < MaxPeers

(* A removed endpoint is in the report or will be put there, if there is   *)
(* somebody to report to.                                                  *)
Reporting ==
  /\ StrippedIsReported
  /\ ServerURL => \A a \in unreported : a \in failures \/ rec[a] = "second"

(* What a request has achieved when it is about to be answered, of an ASN  *)
(* no command and no crash has let down.                                   *)
Sound(a) ==
  a \notin misled \cup cut =>
    /\ wg[a] = "absent" => iface[a] = "down"
    /\ a \in sessions /\ bird[a] = "absent" => request.asn = a /\ pc = "configure" /\ request.op = "remove"
    /\ a = request.asn =>
         /\ pc \in {"delete_wg", "delete_bird", "reup"} => iface[a] = "down"
         /\ pc = "configure" /\ request.op = "remove" => ~HasWg(a) /\ ~HasBird(a) /\ iface[a] = "down"
         /\ pc \in {"up", "configure"} /\ request.op = "peer" => HasWg(a) /\ HasBird(a)
         /\ pc = "restart_bird" /\ HasWg(a) => iface[a] = wg[a]

LegacyInv ==
  /\ TypeOK
  /\ AtWork
  /\ \A a \in ASNs : Paired(a)
  /\ CapacityKept /\ Room
  /\ Reporting
  /\ \A a \in ASNs : Sound(a)

-----------------------------------------------------------------------------
(* The numbers of files.                                                   *)
LEMMA Fewer ==
  ASSUME NEW S, S \subseteq WgConfs
  PROVE  Cardinality(S) \in Nat /\ Cardinality(S) <= Cardinality(WgConfs)
  <1>1. IsFiniteSet(WgConfs)
    BY LegacyAssumption, FS_Subset DEF WgConfs
  <1>. QED
    BY <1>1, FS_Subset, FS_CardinalityType

LEMMA CapacityStays ==
  ASSUME CapacityKept, NEW S, S \subseteq WgConfs, MaxPeers # 0
  PROVE  Cardinality(S) <= MaxPeers
  <1>1. Cardinality(WgConfs) <= MaxPeers
    BY DEF CapacityKept, WgConfs
  <1>. QED
    BY <1>1, Fewer, LegacyAssumption

LEMMA OneMore ==
  ASSUME CapacityKept, Room, pc = "write_wg", request.asn \in ASNs, MaxPeers # 0,
         NEW S, S \subseteq WgConfs \cup {request.asn}
  PROVE  Cardinality(S) <= MaxPeers
  <1>1. CASE S \subseteq WgConfs
    BY <1>1, CapacityStays
  <1>2. CASE ~(S \subseteq WgConfs)
    <2>1. request.asn \notin WgConfs
      BY <1>2
    <2>2. IsFiniteSet(WgConfs) /\ Cardinality(WgConfs) \in Nat
      BY LegacyAssumption, FS_Subset, Fewer DEF WgConfs
    <2>3. Cardinality(WgConfs) < MaxPeers
      BY <2>1 DEF Room, WgConfs
    <2>4. /\ IsFiniteSet(WgConfs \cup {request.asn})
          /\ Cardinality(WgConfs \cup {request.asn}) = Cardinality(WgConfs) + 1
      BY <2>1, <2>2, FS_AddElement
    <2>5. Cardinality(S) \in Nat /\ Cardinality(S) <= Cardinality(WgConfs) + 1
      BY <2>4, FS_Subset, FS_CardinalityType
    <2>. QED
      BY <2>2, <2>3, <2>5, LegacyAssumption
  <1>. QED
    BY <1>1, <1>2

(* No file comes, and /peer does not get to write one.                     *)
LEMMA NoFileComes ==
  ASSUME CapacityKept, \A a \in ASNs : HasWg(a)' => HasWg(a), pc' # "write_wg"
  PROVE  CapacityKept' /\ Room'
  <1>1. MaxPeers # 0 => Cardinality(WgConfs') <= MaxPeers
    <2>. DEFINE S == WgConfs'
    <2>1. S \subseteq WgConfs
      BY DEF WgConfs
    <2>. HIDE DEF S
    <2>2. MaxPeers # 0 => Cardinality(S) <= MaxPeers
      BY <2>1, CapacityStays
    <2>. QED
      BY <2>2 DEF S
  <1>. QED
    BY <1>1 DEF CapacityKept, Room, WgConfs

-----------------------------------------------------------------------------
(* Commands.                                                               *)
LEMMA UpFacts ==
  ASSUME TypeOK, NEW a \in ASNs, NEW r \in UpOutcomes(a), Run(a, r)
  PROVE  /\ iface' \in [ASNs -> {"down", "half", "torn"} \cup Endpoints]
         /\ \A b \in ASNs \ {a} : iface'[b] = iface[b]
         /\ faults' \in 0..MaxFaults
         /\ misled' \subseteq ASNs /\ misled \subseteq misled'
         /\ a \notin misled' =>
              \/ iface'[a] = wg[a]
              \/ iface'[a] = iface[a] /\ (wg[a] = "absent" \/ iface[a] # "down")
         /\ wg[a] = "absent" => iface'[a] = iface[a]
  BY LegacyAssumption DEF TypeOK, UpOutcomes, Run

LEMMA DownFacts ==
  ASSUME TypeOK, NEW a \in ASNs, NEW r \in DownOutcomes(a), Run(a, r)
  PROVE  /\ iface' \in [ASNs -> {"down", "half", "torn"} \cup Endpoints]
         /\ \A b \in ASNs \ {a} : iface'[b] = iface[b]
         /\ faults' \in 0..MaxFaults
         /\ misled' \subseteq ASNs /\ misled \subseteq misled'
         /\ a \notin misled' => iface'[a] = "down" \/ (wg[a] = "absent" /\ iface'[a] = iface[a])
         /\ r[2] = "timeout" => a \in misled'
         /\ wg[a] = "absent" => iface'[a] = iface[a]
  <1>1. r[1] \in {iface[a], "down"} /\ iface' = [iface EXCEPT ![a] = r[1]]
    BY DEF DownOutcomes, Run
  <1>2. CASE r[2] \in {"ok", "refused"}
    <2>1. /\ wg[a] = "absent" => r[1] = iface[a]
          /\ r[1] = "down" \/ (wg[a] = "absent" /\ r[1] = iface[a])
      BY <1>2 DEF DownOutcomes
    <2>2. UNCHANGED <<faults, misled>>
      BY <1>2 DEF Run
    <2>. QED
      BY <1>1, <1>2, <2>1, <2>2 DEF TypeOK
  <1>3. CASE r[2] \notin {"ok", "refused"}
    BY <1>1, <1>3, LegacyAssumption DEF TypeOK, DownOutcomes, Run
  <1>. QED
    BY <1>2, <1>3

(* Of a request that is answered.                                          *)
LEMMA ReplyForgets ==
  ASSUME NEW status, Reply(status)
  PROVE  wgError' \in BOOLEAN
  BY DEF Reply

LEMMA ReplyTypes ==
  ASSUME TypeOK, \E status \in {200, 404, 500, 503} : Reply(status)
  PROVE  /\ pc' = "idle" /\ wgError' \in BOOLEAN
         /\ request' \in Requests
         /\ request'.asn = None
         /\ answer' \in Answers
  <1>1. wgError' \in BOOLEAN
    BY ReplyForgets
  <1>2. pc' = "idle" /\ request' \in Requests /\ request'.asn = None
    BY DEF Reply, NoRequest, Endpoints, Requests
  <1>3. answer' \in Answers
    BY DEF TypeOK, Reply, Requests, Answers
  <1>. QED
    BY <1>1, <1>2, <1>3

-----------------------------------------------------------------------------
(* Nothing has happened yet to a host whose files are in order.            *)
LEMMA InitInv == Init => LegacyInv
  <1>. SUFFICES ASSUME Init PROVE LegacyInv
    OBVIOUS
  <1>1. TypeOK
    <2>1. bird \in [ASNs -> {"absent", "torn", "whole"}] /\ sessions \subseteq ASNs
      BY DEF Init, Configured
    <2>2. request \in Requests
      BY DEF Init, NoRequest, Endpoints, Requests
    <2>3. /\ answer \in Answers
          /\ faults \in 0..MaxFaults /\ crashes \in 0..MaxCrashes
      BY LegacyAssumption DEF Init, Answers
    <2>. QED
      BY <2>1, <2>2, <2>3 DEF Init, TypeOK
  <1>2. AtWork
    BY DEF Init, AtWork, NoRequest, PeerPlaces, RemovePlaces, RestartPlaces
  <1>3. \A a \in ASNs : Paired(a)
    BY DEF Init, Paired, HasWg, HasBird, Endpoints
  <1>4. CapacityKept /\ Room
    BY DEF Init, CapacityKept, Room
  <1>5. Reporting
    BY DEF Init, Reporting, StrippedIsReported
  <1>6. \A a \in ASNs : Sound(a)
    BY DEF Init, Sound, Configured
  <1>. QED
    BY <1>1, <1>2, <1>3, <1>4, <1>5, <1>6 DEF LegacyInv

(* A request comes only when none is in work.                              *)
LEMMA ReceiveKeeps ==
  ASSUME LegacyInv, NEW op \in Ops, NEW a \in ASNs, NEW e \in Endpoints, Receive(op, a, e)
  PROVE  LegacyInv'
  <1>1. TypeOK'
    BY DEF LegacyInv, TypeOK, Receive, observed, Requests
  <1>2. AtWork'
    BY LegacyAssumption DEF LegacyInv, AtWork, Receive, Ops, PeerPlaces, RemovePlaces, RestartPlaces
  <1>3. \A b \in ASNs : Paired(b)'
    BY DEF LegacyInv, Paired, Receive, observed, HasWg, HasBird
  <1>4. CapacityKept' /\ Room'
    BY NoFileComes DEF LegacyInv, Receive, HasWg
  <1>5. Reporting'
    BY DEF LegacyInv, Reporting, StrippedIsReported, Receive, observed
  <1>6. \A b \in ASNs : Sound(b)'
    BY DEF LegacyInv, Sound, Receive, observed
  <1>. QED
    BY <1>1, <1>2, <1>3, <1>4, <1>5, <1>6 DEF LegacyInv

-----------------------------------------------------------------------------
(* /peer.                                                                  *)

(* The count is of the files the limit is about, so who passes has room.   *)
LEMMA CheckKeeps ==
  ASSUME LegacyInv, Check
  PROVE  LegacyInv'
  <1>1. TypeOK'
    <2>1. CASE \E status \in {200, 404, 500, 503} : Reply(status)
      <3>1. UNCHANGED <<wg, bird, iface, sessions, rec, failures, faults, crashes, observed>>
        BY DEF Check
      <3>2. /\ pc' = "idle" /\ wgError' \in BOOLEAN
            /\ request' \in Requests /\ answer' \in Answers
        BY <2>1, ReplyTypes DEF LegacyInv
      <3>. QED
        BY <3>1, <3>2 DEF LegacyInv, TypeOK, observed
    <2>2. CASE Goto("write_wg")
      BY <2>2 DEF LegacyInv, TypeOK, Check, Goto, observed
    <2>. QED
      BY <2>1, <2>2 DEF Check
  <1>2. AtWork'
    BY DEF LegacyInv, AtWork, Check, Reply, Goto, NoRequest, PeerPlaces, RemovePlaces, RestartPlaces
  <1>3. \A b \in ASNs : Paired(b)'
    BY DEF LegacyInv, Paired, Check, Reply, Goto, observed, HasWg, HasBird
  <1>4. CapacityKept' /\ Room'
    <2>1. CASE pc' = "idle"
      BY <2>1, NoFileComes DEF LegacyInv, Check, HasWg
    <2>2. CASE pc' # "idle"
      <3>1. Cardinality(WgConfs) = Cardinality(BirdConfs)
        BY <2>2 DEF Check, CurrentPeerNum, Reply, WgConfs, BirdConfs
      <3>2. CurrentPeerNum = Cardinality(WgConfs)
        BY <3>1 DEF CurrentPeerNum, WgConfs, BirdConfs
      <3>3. HasWg(request.asn) \/ ~Full(Cardinality(WgConfs))
        BY <2>2, <3>2 DEF Check, Reply
      <3>4. MaxPeers = 0 \/ HasWg(request.asn) \/ Cardinality(WgConfs) < MaxPeers
        BY <3>3, Fewer, LegacyAssumption DEF Full
      <3>5. UNCHANGED <<wg, request>>
        BY <2>2 DEF Check, Reply, Goto
      <3>. QED
        BY <3>4, <3>5 DEF LegacyInv, CapacityKept, Room, WgConfs, HasWg
    <2>. QED
      BY <2>1, <2>2
  <1>5. Reporting'
    BY DEF LegacyInv, Reporting, StrippedIsReported, Check, observed
  <1>6. \A b \in ASNs : Sound(b)'
    BY DEF LegacyInv, Sound, Check, Reply, Goto, observed
  <1>. QED
    BY <1>1, <1>2, <1>3, <1>4, <1>5, <1>6 DEF LegacyInv

(* The only step that adds a file.                                         *)
LEMMA WriteWgKeeps ==
  ASSUME LegacyInv, WriteWg
  PROVE  LegacyInv'
  <1>1. TypeOK'
    BY DEF LegacyInv, TypeOK, WriteWg, Goto, observed, Requests
  <1>2. AtWork'
    BY DEF LegacyInv, AtWork, WriteWg, Goto, PeerPlaces, RemovePlaces, RestartPlaces
  <1>3. \A b \in ASNs : Paired(b)'
    BY DEF LegacyInv, TypeOK, Paired, WriteWg, Goto, observed, HasWg, HasBird, Endpoints, Requests
  <1>4. CapacityKept' /\ Room'
    <2>1. request.asn \in ASNs
      BY DEF LegacyInv, TypeOK, AtWork, WriteWg, Requests
    <2>2. {a \in ASNs : HasWg(a)'} \subseteq WgConfs \cup {request.asn}
      BY DEF WriteWg, WgConfs, HasWg
    <2>. QED
      BY <2>1, <2>2, OneMore DEF LegacyInv, WriteWg, Goto, CapacityKept, Room
  <1>5. Reporting'
    BY DEF LegacyInv, Reporting, StrippedIsReported, WriteWg, observed
  <1>6. \A b \in ASNs : Sound(b)'
    BY DEF LegacyInv, TypeOK, Sound, WriteWg, Goto, observed, Endpoints, Requests
  <1>. QED
    BY <1>1, <1>2, <1>3, <1>4, <1>5, <1>6 DEF LegacyInv

LEMMA WriteBirdKeeps ==
  ASSUME LegacyInv, WriteBird
  PROVE  LegacyInv'
  <1>1. TypeOK'
    BY DEF LegacyInv, TypeOK, WriteBird, Goto, observed
  <1>2. AtWork'
    BY DEF LegacyInv, AtWork, WriteBird, Goto, PeerPlaces, RemovePlaces, RestartPlaces
  <1>3. \A b \in ASNs : Paired(b)'
    BY DEF LegacyInv, TypeOK, Paired, WriteBird, Goto, observed, HasWg, HasBird
  <1>4. CapacityKept' /\ Room'
    BY NoFileComes DEF LegacyInv, WriteBird, Goto, HasWg
  <1>5. Reporting'
    BY DEF LegacyInv, Reporting, StrippedIsReported, WriteBird, observed
  <1>6. \A b \in ASNs : Sound(b)'
    BY DEF LegacyInv, TypeOK, Paired, Sound, WriteBird, Goto, observed, HasWg, HasBird
  <1>. QED
    BY <1>1, <1>2, <1>3, <1>4, <1>5, <1>6 DEF LegacyInv

LEMMA PeerUpKeeps ==
  ASSUME LegacyInv, PeerUp
  PROVE  LegacyInv'
  <1>1. TypeOK'
    BY UpFacts DEF LegacyInv, TypeOK, AtWork, PeerUp, Goto, Requests
  <1>2. AtWork'
    BY DEF LegacyInv, AtWork, PeerUp, Goto, PeerPlaces, RemovePlaces, RestartPlaces
  <1>3. \A b \in ASNs : Paired(b)'
    BY DEF LegacyInv, Paired, PeerUp, Goto, HasWg, HasBird
  <1>4. CapacityKept' /\ Room'
    BY NoFileComes DEF LegacyInv, PeerUp, Goto, HasWg
  <1>5. Reporting'
    BY DEF LegacyInv, Reporting, StrippedIsReported, PeerUp
  <1>6. \A b \in ASNs : Sound(b)'
    BY UpFacts DEF LegacyInv, TypeOK, AtWork, Sound, PeerUp, Goto, PeerPlaces, HasWg, HasBird, Requests
  <1>. QED
    BY <1>1, <1>2, <1>3, <1>4, <1>5, <1>6 DEF LegacyInv

-----------------------------------------------------------------------------
(* /remove: a command that hung has let the ASN down, one that was refused *)
(* found nothing to do.                                                    *)
LEMMA RemoveDownKeeps ==
  ASSUME LegacyInv, RemoveDown
  PROVE  LegacyInv'
  <1>1. TypeOK'
    <2>1. CASE Reply(500)
      <3>1. \E status \in {200, 404, 500, 503} : Reply(status)
        BY <2>1
      <3>2. /\ iface' \in [ASNs -> {"down", "half", "torn"} \cup Endpoints]
            /\ faults' \in 0..MaxFaults /\ misled' \subseteq ASNs
        BY DownFacts DEF LegacyInv, TypeOK, AtWork, RemoveDown, Requests
      <3>3. UNCHANGED <<wg, bird, sessions, rec, failures, crashes, cut, unreported, lost>>
        BY DEF RemoveDown
      <3>4. /\ pc' = "idle" /\ wgError' \in BOOLEAN
            /\ request' \in Requests /\ answer' \in Answers
        BY <3>1, ReplyTypes DEF LegacyInv
      <3>. QED
        BY <3>2, <3>3, <3>4 DEF LegacyInv, TypeOK
    <2>2. CASE Goto("delete_wg")
      BY <2>2, DownFacts DEF LegacyInv, TypeOK, AtWork, RemoveDown, Goto, Requests
    <2>. QED
      BY <2>1, <2>2 DEF RemoveDown
  <1>2. AtWork'
    BY DEF LegacyInv, AtWork, RemoveDown, Reply, Goto, NoRequest, PeerPlaces, RemovePlaces, RestartPlaces
  <1>3. \A b \in ASNs : Paired(b)'
    BY DEF LegacyInv, Paired, RemoveDown, Reply, Goto, HasWg, HasBird
  <1>4. CapacityKept' /\ Room'
    BY NoFileComes DEF LegacyInv, RemoveDown, Reply, Goto, HasWg
  <1>5. Reporting'
    BY DEF LegacyInv, Reporting, StrippedIsReported, RemoveDown
  <1>6. \A b \in ASNs : Sound(b)'
    BY DownFacts DEF LegacyInv, TypeOK, AtWork, Sound, RemoveDown, Reply, Goto, Requests
  <1>. QED
    BY <1>1, <1>2, <1>3, <1>4, <1>5, <1>6 DEF LegacyInv

LEMMA DeleteWgKeeps ==
  ASSUME LegacyInv, DeleteWg
  PROVE  LegacyInv'
  <1>1. TypeOK'
    BY DEF LegacyInv, TypeOK, DeleteWg, Goto, observed
  <1>2. AtWork'
    BY DEF LegacyInv, AtWork, DeleteWg, Goto, PeerPlaces, RemovePlaces, RestartPlaces
  <1>3. \A b \in ASNs : Paired(b)'
    BY DEF LegacyInv, TypeOK, Paired, DeleteWg, Goto, observed, HasWg, HasBird
  <1>4. CapacityKept' /\ Room'
    BY NoFileComes DEF LegacyInv, DeleteWg, Goto, HasWg
  <1>5. Reporting'
    BY DEF LegacyInv, Reporting, StrippedIsReported, DeleteWg, observed
  <1>6. \A b \in ASNs : Sound(b)'
    BY DEF LegacyInv, Sound, DeleteWg, Goto, observed
  <1>. QED
    BY <1>1, <1>2, <1>3, <1>4, <1>5, <1>6 DEF LegacyInv

(* The session goes only with the next birdc: see Sound.                   *)
LEMMA DeleteBirdKeeps ==
  ASSUME LegacyInv, DeleteBird
  PROVE  LegacyInv'
  <1>1. TypeOK'
    BY DEF LegacyInv, TypeOK, DeleteBird, Goto, observed
  <1>2. AtWork'
    BY DEF LegacyInv, AtWork, DeleteBird, Goto, PeerPlaces, RemovePlaces, RestartPlaces
  <1>3. \A b \in ASNs : Paired(b)'
    BY DEF LegacyInv, TypeOK, Paired, DeleteBird, Goto, observed, HasWg, HasBird
  <1>4. CapacityKept' /\ Room'
    BY NoFileComes DEF LegacyInv, DeleteBird, Goto, HasWg
  <1>5. Reporting'
    BY DEF LegacyInv, Reporting, StrippedIsReported, DeleteBird, observed
  <1>6. \A b \in ASNs : Sound(b)'
    BY DEF LegacyInv, TypeOK, AtWork, Paired, Sound, DeleteBird, Goto, observed, RemovePlaces, HasWg, HasBird
  <1>. QED
    BY <1>1, <1>2, <1>3, <1>4, <1>5, <1>6 DEF LegacyInv

(* The end of /peer and of /remove.                                        *)
LEMMA ConfigureKeeps ==
  ASSUME LegacyInv, Configure
  PROVE  LegacyInv'
  <1>1. TypeOK'
    <2>1. \E status \in {200, 404, 500, 503} : Reply(status)
      BY DEF Configure
    <2>2. sessions' \subseteq ASNs /\ faults' \in 0..MaxFaults /\ misled' \subseteq ASNs
      BY LegacyAssumption DEF LegacyInv, TypeOK, Configure, Configured
    <2>3. /\ pc' = "idle" /\ wgError' \in BOOLEAN
          /\ request' \in Requests /\ answer' \in Answers
      BY <2>1, ReplyTypes DEF LegacyInv
    <2>. QED
      BY <2>2, <2>3 DEF LegacyInv, TypeOK, Configure, Requests
  <1>2. AtWork'
    BY DEF LegacyInv, AtWork, Configure, Reply, NoRequest, PeerPlaces, RemovePlaces, RestartPlaces
  <1>3. \A b \in ASNs : Paired(b)'
    BY DEF LegacyInv, Paired, Configure, Reply, HasWg, HasBird
  <1>4. CapacityKept' /\ Room'
    BY NoFileComes DEF LegacyInv, Configure, Reply, HasWg
  <1>5. Reporting'
    BY DEF LegacyInv, Reporting, StrippedIsReported, Configure
  <1>6. \A b \in ASNs : Sound(b)'
    BY DEF LegacyInv, Sound, Configure, Reply, Configured
  <1>. QED
    BY <1>1, <1>2, <1>3, <1>4, <1>5, <1>6 DEF LegacyInv

-----------------------------------------------------------------------------
(* /restart.                                                               *)
LEMMA RestartDownKeeps ==
  ASSUME LegacyInv, RestartDown
  PROVE  LegacyInv'
  <1>1. TypeOK'
    BY DownFacts DEF LegacyInv, TypeOK, AtWork, RestartDown, Goto, Requests
  <1>2. AtWork'
    BY DEF LegacyInv, AtWork, RestartDown, Goto, PeerPlaces, RemovePlaces, RestartPlaces
  <1>3. \A b \in ASNs : Paired(b)'
    BY DEF LegacyInv, Paired, RestartDown, Goto, HasWg, HasBird
  <1>4. CapacityKept' /\ Room'
    BY NoFileComes DEF LegacyInv, RestartDown, Goto, HasWg
  <1>5. Reporting'
    BY DEF LegacyInv, Reporting, StrippedIsReported, RestartDown
  <1>6. \A b \in ASNs : Sound(b)'
    BY DownFacts DEF LegacyInv, TypeOK, AtWork, Sound, RestartDown, Goto, Requests
  <1>. QED
    BY <1>1, <1>2, <1>3, <1>4, <1>5, <1>6 DEF LegacyInv

LEMMA RestartUpKeeps ==
  ASSUME LegacyInv, RestartUp
  PROVE  LegacyInv'
  <1>1. TypeOK'
    BY UpFacts DEF LegacyInv, TypeOK, AtWork, RestartUp, IsWgError, Requests
  <1>2. AtWork'
    BY DEF LegacyInv, AtWork, RestartUp, PeerPlaces, RemovePlaces, RestartPlaces
  <1>3. \A b \in ASNs : Paired(b)'
    BY DEF LegacyInv, Paired, RestartUp, HasWg, HasBird
  <1>4. CapacityKept' /\ Room'
    BY NoFileComes DEF LegacyInv, RestartUp, HasWg
  <1>5. Reporting'
    BY DEF LegacyInv, Reporting, StrippedIsReported, RestartUp
  <1>6. \A b \in ASNs : Sound(b)'
    BY UpFacts DEF LegacyInv, TypeOK, AtWork, Sound, RestartUp, HasWg, Requests
  <1>. QED
    BY <1>1, <1>2, <1>3, <1>4, <1>5, <1>6 DEF LegacyInv

(* A birdc that lets the request down is counted and marked.               *)
LEMMA RestartBirdFaults ==
  ASSUME RestartBird
  PROVE  \/ /\ faults' = faults /\ misled' = misled
            /\ Reply(BirdVerdict(request.asn \notin sessions))
         \/ faults < MaxFaults /\ faults' = faults + 1 /\ misled' = misled \cup {request.asn}
  BY Zenon DEF RestartBird

LEMMA RestartBirdKeeps ==
  ASSUME LegacyInv, RestartBird
  PROVE  LegacyInv'
  <1>1. TypeOK'
    <2>1. \E status \in {200, 404, 500, 503} : Reply(status)
      BY DEF RestartBird, BirdVerdict
    <2>2. faults' \in 0..MaxFaults /\ misled' \subseteq ASNs
      <3>1. request.asn \in ASNs
        BY DEF LegacyInv, TypeOK, AtWork, RestartBird, Requests
      <3>. QED
        BY <3>1, RestartBirdFaults, LegacyAssumption DEF LegacyInv, TypeOK
    <2>3. UNCHANGED <<wg, bird, iface, sessions, rec, failures, crashes, cut, unreported, lost>>
      BY DEF RestartBird
    <2>4. /\ pc' = "idle" /\ wgError' \in BOOLEAN
          /\ request' \in Requests /\ answer' \in Answers
      BY <2>1, ReplyTypes DEF LegacyInv
    <2>. QED
      BY <2>2, <2>3, <2>4 DEF LegacyInv, TypeOK
  <1>2. AtWork'
    <2>1. pc' = "idle" /\ request' = NoRequest /\ UNCHANGED <<wg, rec>>
      BY DEF RestartBird, Reply
    <2>. QED
      BY <2>1 DEF LegacyInv, AtWork, RestartBird, NoRequest, PeerPlaces, RemovePlaces, RestartPlaces, HasWg
  <1>3. \A b \in ASNs : Paired(b)'
    BY DEF LegacyInv, Paired, RestartBird, Reply, HasWg, HasBird
  <1>4. CapacityKept' /\ Room'
    BY NoFileComes DEF LegacyInv, RestartBird, Reply, HasWg
  <1>5. Reporting'
    BY DEF LegacyInv, Reporting, StrippedIsReported, RestartBird
  <1>6. \A b \in ASNs : Sound(b)'
    <2>1. /\ pc' = "idle" /\ pc = "restart_bird" /\ UNCHANGED <<wg, bird, iface, sessions, cut>>
          /\ misled \subseteq misled'
      BY RestartBirdFaults DEF RestartBird, Reply
    <2>. QED
      BY <2>1 DEF LegacyInv, Sound
  <1>. QED
    BY <1>1, <1>2, <1>3, <1>4, <1>5, <1>6 DEF LegacyInv

-----------------------------------------------------------------------------
(* The recovery touches files that exist, and their interfaces.            *)
LEMMA BootKeeps ==
  ASSUME LegacyInv, Boot
  PROVE  LegacyInv'
  <1>1. TypeOK'
    BY DEF LegacyInv, TypeOK, Boot, Goto, observed
  <1>2. AtWork'
    BY DEF LegacyInv, AtWork, Boot, Goto, PeerPlaces, RemovePlaces, RestartPlaces, HasWg
  <1>3. \A b \in ASNs : Paired(b)'
    BY DEF LegacyInv, Paired, Boot, Goto, observed, HasWg, HasBird
  <1>4. CapacityKept' /\ Room'
    BY NoFileComes DEF LegacyInv, Boot, Goto, HasWg
  <1>5. Reporting'
    BY DEF LegacyInv, Reporting, StrippedIsReported, Boot, observed
  <1>6. \A b \in ASNs : Sound(b)'
    BY DEF LegacyInv, Sound, Boot, Goto, observed
  <1>. QED
    BY <1>1, <1>2, <1>3, <1>4, <1>5, <1>6 DEF LegacyInv

LEMMA NotifyServerKeeps ==
  ASSUME LegacyInv, NotifyServer
  PROVE  LegacyInv'
  <1>1. TypeOK'
    BY LegacyAssumption DEF LegacyInv, TypeOK, NotifyServer, Goto
  <1>2. AtWork'
    BY DEF LegacyInv, AtWork, NotifyServer, Goto, PeerPlaces, RemovePlaces, RestartPlaces
  <1>3. \A b \in ASNs : Paired(b)'
    BY DEF LegacyInv, Paired, NotifyServer, Goto, HasWg, HasBird
  <1>4. CapacityKept' /\ Room'
    BY NoFileComes DEF LegacyInv, NotifyServer, Goto, HasWg
  <1>5. Reporting'
    BY DEF LegacyInv, TypeOK, Reporting, StrippedIsReported, NotifyServer
  <1>6. \A b \in ASNs : Sound(b)'
    BY DEF LegacyInv, Sound, NotifyServer, Goto
  <1>. QED
    BY <1>1, <1>2, <1>3, <1>4, <1>5, <1>6 DEF LegacyInv

LEMMA StartUpKeeps ==
  ASSUME LegacyInv, NEW a \in ASNs, StartUp(a)
  PROVE  LegacyInv'
  <1>1. TypeOK'
    BY DEF LegacyInv, TypeOK, StartUp, observed
  <1>2. AtWork'
    BY DEF LegacyInv, AtWork, StartUp, HasWg
  <1>3. \A b \in ASNs : Paired(b)'
    BY DEF LegacyInv, Paired, StartUp, observed, HasWg, HasBird
  <1>4. CapacityKept' /\ Room'
    BY NoFileComes DEF LegacyInv, StartUp, HasWg
  <1>5. Reporting'
    BY DEF LegacyInv, Reporting, StrippedIsReported, StartUp, observed
  <1>6. \A b \in ASNs : Sound(b)'
    BY DEF LegacyInv, Sound, StartUp, observed
  <1>. QED
    BY <1>1, <1>2, <1>3, <1>4, <1>5, <1>6 DEF LegacyInv

LEMMA FirstUpKeeps ==
  ASSUME LegacyInv, NEW a \in ASNs, FirstUp(a)
  PROVE  LegacyInv'
  <1>1. TypeOK'
    BY UpFacts DEF LegacyInv, TypeOK, FirstUp
  <1>2. AtWork'
    BY DEF LegacyInv, AtWork, FirstUp, HasWg
  <1>3. \A b \in ASNs : Paired(b)'
    BY DEF LegacyInv, Paired, FirstUp, HasWg, HasBird
  <1>4. CapacityKept' /\ Room'
    BY NoFileComes DEF LegacyInv, FirstUp, HasWg
  <1>5. Reporting'
    BY DEF LegacyInv, Reporting, StrippedIsReported, FirstUp
  <1>6. \A b \in ASNs : Sound(b)'
    BY UpFacts DEF LegacyInv, Sound, FirstUp
  <1>. QED
    BY <1>1, <1>2, <1>3, <1>4, <1>5, <1>6 DEF LegacyInv

LEMMA RemoveEndpointKeeps ==
  ASSUME LegacyInv, NEW a \in ASNs, RemoveEndpoint(a)
  PROVE  LegacyInv'
  <1>1. TypeOK'
    BY DEF LegacyInv, TypeOK, RemoveEndpoint, Endpoints
  <1>2. AtWork'
    BY DEF LegacyInv, AtWork, RemoveEndpoint, HasWg
  <1>3. \A b \in ASNs : Paired(b)'
    BY DEF LegacyInv, AtWork, Paired, RemoveEndpoint, HasWg, HasBird
  <1>4. CapacityKept' /\ Room'
    BY NoFileComes DEF LegacyInv, AtWork, RemoveEndpoint, HasWg
  <1>5. Reporting'
    BY DEF LegacyInv, TypeOK, Reporting, StrippedIsReported, RemoveEndpoint
  <1>6. \A b \in ASNs : Sound(b)'
    BY DEF LegacyInv, Sound, RemoveEndpoint
  <1>. QED
    BY <1>1, <1>2, <1>3, <1>4, <1>5, <1>6 DEF LegacyInv

(* What has lost its endpoint gets into the report.                        *)
LEMMA SecondUpKeeps ==
  ASSUME LegacyInv, NEW a \in ASNs, SecondUp(a)
  PROVE  LegacyInv'
  <1>1. TypeOK'
    BY UpFacts DEF LegacyInv, TypeOK, SecondUp
  <1>2. AtWork'
    BY DEF LegacyInv, AtWork, SecondUp, HasWg
  <1>3. \A b \in ASNs : Paired(b)'
    BY DEF LegacyInv, Paired, SecondUp, HasWg, HasBird
  <1>4. CapacityKept' /\ Room'
    BY NoFileComes DEF LegacyInv, SecondUp, HasWg
  <1>5. Reporting'
    BY DEF LegacyInv, Reporting, StrippedIsReported, SecondUp
  <1>6. \A b \in ASNs : Sound(b)'
    BY UpFacts DEF LegacyInv, Sound, SecondUp
  <1>. QED
    BY <1>1, <1>2, <1>3, <1>4, <1>5, <1>6 DEF LegacyInv

-----------------------------------------------------------------------------
(* A crash puts what it interrupts into cut, and may create the file that  *)
(* there was room for.                                                     *)
LEMMA CrashKeeps ==
  ASSUME LegacyInv, Crash
  PROVE  LegacyInv'
  <1>1. TypeOK'
    <2>1. wg' \in [ASNs -> {"absent", "torn"} \cup Endpoints]
      BY DEF LegacyInv, TypeOK, Crash
    <2>2. bird' \in [ASNs -> {"absent", "torn", "whole"}]
      BY DEF LegacyInv, TypeOK, Crash
    <2>3. request' \in Requests
      BY DEF Crash, NoRequest, Endpoints, Requests
    <2>4. cut' \subseteq ASNs /\ lost' \subseteq ASNs
      BY DEF LegacyInv, TypeOK, Crash, Requests
    <2>5. crashes' \in 0..MaxCrashes
      BY LegacyAssumption DEF LegacyInv, TypeOK, Crash
    <2>. QED
      BY <2>1, <2>2, <2>3, <2>4, <2>5 DEF LegacyInv, TypeOK, Crash
  <1>2. AtWork'
    BY DEF AtWork, Crash, NoRequest, PeerPlaces, RemovePlaces, RestartPlaces
  <1>3. \A b \in ASNs : Paired(b)'
    BY LegacyAssumption DEF LegacyInv, TypeOK, Paired, Crash, HasWg, HasBird
  <1>4. CapacityKept' /\ Room'
    <2>1. CASE pc = "write_wg"
      <3>1. request.asn \in ASNs
        BY <2>1 DEF LegacyInv, TypeOK, AtWork, Requests
      <3>2. {a \in ASNs : HasWg(a)'} \subseteq WgConfs \cup {request.asn}
        BY DEF LegacyInv, TypeOK, AtWork, Crash, WgConfs, HasWg
      <3>. QED
        BY <2>1, <3>1, <3>2, OneMore DEF LegacyInv, Crash, CapacityKept, Room
    <2>2. CASE pc # "write_wg"
      BY <2>2, NoFileComes DEF LegacyInv, TypeOK, AtWork, Crash, HasWg
    <2>. QED
      BY <2>1, <2>2
  <1>5. Reporting'
    BY DEF Reporting, StrippedIsReported, Crash
  <1>6. \A b \in ASNs : Sound(b)'
    BY LegacyAssumption DEF LegacyInv, TypeOK, Sound, Crash
  <1>. QED
    BY <1>1, <1>2, <1>3, <1>4, <1>5, <1>6 DEF LegacyInv

-----------------------------------------------------------------------------
LEMMA StepKeeps == LegacyInv /\ Step => LegacyInv'
  BY CheckKeeps, WriteWgKeeps, WriteBirdKeeps, PeerUpKeeps, RemoveDownKeeps, DeleteWgKeeps,
     DeleteBirdKeeps, ConfigureKeeps, RestartDownKeeps, RestartUpKeeps, RestartBirdKeeps, BootKeeps,
     NotifyServerKeeps, StartUpKeeps, FirstUpKeeps, RemoveEndpointKeeps, SecondUpKeeps
     DEF Step

LEMMA NextKeeps == LegacyInv /\ [Next]_vars => LegacyInv'
  <1>. SUFFICES ASSUME LegacyInv, [Next]_vars PROVE LegacyInv'
    OBVIOUS
  <1>1. CASE Step
    BY <1>1, StepKeeps
  <1>2. CASE Crash
    BY <1>2, CrashKeeps
  <1>3. ASSUME NEW a \in ASNs, NEW op \in Ops, NEW e \in Endpoints, Receive(op, a, e)
        PROVE  LegacyInv'
    BY <1>3, ReceiveKeeps
  <1>4. CASE UNCHANGED vars
    BY <1>4 DEF vars, LegacyInv, TypeOK, AtWork, Paired, CapacityKept, Room, WgConfs, Reporting,
                StrippedIsReported, Sound, HasWg, HasBird
  <1>. QED
    BY <1>1, <1>2, <1>3, <1>4 DEF Next, Ops, Endpoints

(* The invariant all that follows rests on.                                *)
THEOREM LegacyInvariant == Spec => []LegacyInv
  <1>. QED
    BY InitInv, NextKeeps, PTL DEF Spec

-----------------------------------------------------------------------------
(* Every variable keeps its type.                                          *)
THEOREM LegacyTypeCorrect == Spec => []TypeOK
  <1>1. LegacyInv => TypeOK
    BY DEF LegacyInv
  <1>. QED
    BY <1>1, LegacyInvariant, PTL

(* MAX_PEERS of the agent's configuration is never exceeded: the check and *)
(* the write are separate steps with crashes between, but what is counted  *)
(* for the check is what the limit is about.                               *)
THEOREM LimitIsKept == Spec => []CapacityKept
  <1>1. LegacyInv => CapacityKept
    BY DEF LegacyInv
  <1>. QED
    BY <1>1, LegacyInvariant, PTL

(* Only a crash makes a half peer that outlasts the request for it.        *)
THEOREM OnlyCrashesSplitPeers == Spec => []MismatchHasCause
  <1>1. LegacyInv => MismatchHasCause
    BY DEF LegacyInv, Paired, MismatchHasCause
  <1>. QED
    BY <1>1, LegacyInvariant, PTL

(* With SERVER_URL, an endpoint that the recovery removes is reported      *)
(* before anything is served, or the report was lost.                      *)
THEOREM NoStripIsForgotten == Spec => []StrippedIsReported
  <1>1. LegacyInv => StrippedIsReported
    BY DEF LegacyInv, Reporting
  <1>. QED
    BY <1>1, LegacyInvariant, PTL

(* With at most one ASN cut short by a crash, the numbers of files differ  *)
(* if the files do.                                                        *)
LEMMA CountFindsMismatch ==
  ASSUME LegacyInv, pc = "idle", CurrentPeerNum # None, Cardinality(cut) < 2
  PROVE  WgConfs = BirdConfs
  <1>1. \A a \in ASNs \ cut : HasWg(a) = HasBird(a)
    BY DEF LegacyInv, Paired
  <1>2. IsFiniteSet(WgConfs) /\ IsFiniteSet(BirdConfs) /\ IsFiniteSet(cut)
    BY LegacyAssumption, FS_Subset DEF LegacyInv, TypeOK, WgConfs, BirdConfs
  <1>3. Cardinality(WgConfs) = Cardinality(BirdConfs)
    BY DEF CurrentPeerNum, WgConfs, BirdConfs
  <1>4. \A a, b \in cut : a = b
    <2>. SUFFICES ASSUME NEW a \in cut, NEW b \in cut, a # b PROVE FALSE
      OBVIOUS
    <2>1. IsFiniteSet(cut \ {a}) /\ Cardinality(cut \ {a}) = Cardinality(cut) - 1
      BY <1>2, FS_RemoveElement
    <2>2. Cardinality((cut \ {a}) \ {b}) = Cardinality(cut \ {a}) - 1
      BY <2>1, FS_RemoveElement
    <2>3. Cardinality(cut) \in Nat /\ Cardinality((cut \ {a}) \ {b}) \in Nat
      BY <1>2, FS_RemoveElement, FS_CardinalityType
    <2>. QED
      BY <2>1, <2>2, <2>3
  <1>5. ASSUME NEW S, NEW T, IsFiniteSet(S), T \subseteq S, Cardinality(S) = Cardinality(T)
        PROVE  S = T
    BY <1>5, FS_Subset
  <1>6. WgConfs \subseteq BirdConfs \/ BirdConfs \subseteq WgConfs
    BY <1>1, <1>4 DEF WgConfs, BirdConfs
  <1>. QED
    BY <1>2, <1>3, <1>5, <1>6

(* The number of peers that /pre_peer shows is right: comparing the numbers*)
(* of files is enough until crashes have cut two ASNs short.               *)
THEOREM NumberIsHonest == Spec => []CountIsHonest
  <1>1. LegacyInv => CountIsHonest
    <2>. SUFFICES ASSUME LegacyInv, pc = "idle", CurrentPeerNum # None, Cardinality(cut) < 2
                  PROVE  CurrentPeerNum = Cardinality({a \in ASNs : HasWg(a) /\ HasBird(a)})
      BY DEF CountIsHonest
    <2>1. {a \in ASNs : HasWg(a) /\ HasBird(a)} = WgConfs
      BY CountFindsMismatch DEF WgConfs, BirdConfs
    <2>. QED
      BY <2>1 DEF CurrentPeerNum, WgConfs
  <1>. QED
    BY <1>1, LegacyInvariant, PTL

(* What /info cannot show, /errorlist names, of every ASN no crash has cut *)
(* short: both files are there and whole, so it is the session.            *)
THEOREM ErrorsAreListed == Spec => []ErrorListCoversInfo
  <1>1. LegacyInv => ErrorListCoversInfo
    <2>. SUFFICES ASSUME LegacyInv, pc = "idle", NEW a \in ASNs \ cut,
                         Info(a) \notin {"ok", "not found"}
                  PROVE  a \in ErrorList
      BY DEF ErrorListCoversInfo
    <2>1. HasWg(a) = HasBird(a) /\ wg[a] # "torn" /\ bird[a] # "torn"
      BY DEF LegacyInv, Paired
    <2>2. HasBird(a) /\ a \notin sessions
      BY <2>1 DEF Info
    <2>3. bird[a] = "whole"
      BY <2>1, <2>2 DEF LegacyInv, TypeOK, HasBird
    <2>. QED
      BY <2>2, <2>3 DEF ErrorList
  <1>. QED
    BY <1>1, LegacyInvariant, PTL

-----------------------------------------------------------------------------
(* What an answer of 200 promises.                                         *)
Promise ==
  pc # "idle" /\ answer'.status = 200 /\ pc' = "idle" /\ request.asn \notin misled' \cup cut =>
    pc = "recovery" \/ Holds(answer)'

LEMMA ConfigureTrue ==
  ASSUME LegacyInv, Configure, answer'.status = 200, request.asn \notin misled' \cup cut
  PROVE  Holds(answer)'
  <1>. DEFINE a == request.asn
  <1>1. a \in ASNs /\ request.op \in {"peer", "remove"}
    BY DEF LegacyInv, TypeOK, AtWork, Configure, Requests
  <1>2. /\ sessions' = Configured /\ UNCHANGED <<wg, bird, iface>>
        /\ answer' = [op |-> request.op, asn |-> a, status |-> 200]
    BY <1>1 DEF Configure, Reply
  <1>3. Sound(a) /\ Paired(a) /\ pc = "configure" /\ a \notin misled \cup cut
    BY <1>1 DEF LegacyInv, Configure
  <1>4. HasBird(a) => bird[a] = "whole"
    BY <1>1, <1>3 DEF LegacyInv, TypeOK, Paired, HasBird
  <1>. QED
    BY <1>1, <1>2, <1>3, <1>4 DEF Sound, Holds, Configured, HasWg, HasBird

LEMMA RestartTrue ==
  ASSUME LegacyInv, RestartBird, answer'.status = 200, request.asn \notin misled' \cup cut
  PROVE  Holds(answer)'
  <1>. DEFINE a == request.asn
  <1>1. a \in ASNs /\ request.op = "restart"
    BY DEF LegacyInv, TypeOK, AtWork, RestartBird, RestartPlaces, Requests
  <1>2. /\ a \in sessions /\ UNCHANGED <<wg, bird, iface, sessions>>
        /\ answer' = [op |-> "restart", asn |-> a, status |-> 200]
    <2>0. misled' # misled \cup {a}
      OBVIOUS
    <2>1. Reply(BirdVerdict(request.asn \notin sessions))
      BY <2>0, RestartBirdFaults
    <2>2. answer' = [op |-> "restart", asn |-> a, status |-> BirdVerdict(a \notin sessions)]
      BY <1>1, <2>1 DEF Reply
    <2>3. a \in sessions
      BY <2>2 DEF BirdVerdict
    <2>. QED
      BY <2>2, <2>3 DEF RestartBird, BirdVerdict
  <1>3. Sound(a) /\ Paired(a) /\ pc = "restart_bird" /\ a \notin misled \cup cut
    <2>1. misled \subseteq misled'
      BY RestartBirdFaults
    <2>2. a \notin misled \cup cut
      BY <2>1
    <2>. QED
      BY <1>1, <2>2 DEF LegacyInv, RestartBird
  <1>4. HasWg(a)
    BY <1>2, <1>3 DEF Sound, Paired, HasBird
  <1>. QED
    BY <1>2, <1>3, <1>4 DEF Sound, Holds

(* Only birdc at the end of a handler can be followed by an answer of 200. *)
LEMMA NextPromises == LegacyInv /\ [Next]_vars => Promise \/ UNCHANGED vars
  <1>. SUFFICES ASSUME LegacyInv, Next, pc # "idle", answer'.status = 200, pc' = "idle",
                       request.asn \notin misled' \cup cut, pc # "recovery"
                PROVE  Holds(answer)'
    BY DEF Promise
  <1>1. CASE Configure
    BY <1>1, ConfigureTrue
  <1>2. CASE RestartBird
    BY <1>2, RestartTrue
  <1>3. ~Check
    BY DEF Check, Reply, Goto
  <1>4. ~RemoveDown
    BY DEF RemoveDown, Reply, Goto
  <1>5. ~(WriteWg \/ WriteBird \/ PeerUp \/ DeleteWg \/ DeleteBird \/ RestartDown \/ RestartUp)
    BY DEF WriteWg, WriteBird, PeerUp, DeleteWg, DeleteBird, RestartDown, RestartUp, Goto
  <1>6. ~(Boot \/ NotifyServer \/ Crash)
    BY DEF Boot, NotifyServer, Crash, Goto
  <1>7. ASSUME NEW a \in ASNs
        PROVE  ~(StartUp(a) \/ FirstUp(a) \/ RemoveEndpoint(a) \/ SecondUp(a))
    BY DEF StartUp, FirstUp, RemoveEndpoint, SecondUp
  <1>8. ASSUME NEW op, NEW a, NEW e
        PROVE  ~Receive(op, a, e)
    BY DEF Receive
  <1>. QED
    BY <1>1, <1>2, <1>3, <1>4, <1>5, <1>6, <1>7, <1>8 DEF Next, Step

(* 200 of /peer, /remove and /restart is true as long as no wg-quick and no*)
(* birdc fails or hangs for the ASN, in this request or an earlier one, and*)
(* no crash cuts it short: the handlers check next to nothing, and yet     *)
(* nothing else can make them answer what is not so.                       *)
THEOREM SuccessNeedsNoCheck == Spec => SuccessIsTrueUnlessFault
  <1>1. LegacyInv /\ [Next]_vars => [Promise]_vars
    BY NextPromises
  <1>. QED
    BY <1>1, LegacyInvariant, PTL DEF Spec, SuccessIsTrueUnlessFault, Promise

=============================================================================
