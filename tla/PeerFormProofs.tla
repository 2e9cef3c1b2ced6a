--------------------------- MODULE PeerFormProofs ---------------------------
(***************************************************************************)
(* Theorems about PeerForm, for any nodes, hosts, keys and values, and any *)
(* number of dialogues and items changed: the types, that what an agent is *)
(* told to set up has neighbours to talk to, that a form reads back as it  *)
(* was confirmed, that a modification changes what was chosen and that an  *)
(* endpoint fits the node it is brought to.                                *)
(***************************************************************************)
EXTENDS PeerForm, TLAPS

(* The questions, by what has been answered when they are asked.           *)
RegionSteps == {"pre_region", "region"}
SessionSteps == {"session_type", "mpbgp_support", "mpbgp_type", "enh"}
AddressSteps == {"ipv6", "request_linklocal", "ipv4"}
EndpointSteps == {"clearnet", "clearnet_port", "port_myside"}
LateSteps == {"pubkey", "psk", "mtu", "contact", "confirm"}
Resting == {"idle", "node_choose"}

(* What is known of a form f before the answer to question s, when a       *)
(* dialogue of kind k has touched the items t of the form old, for a user  *)
(* who is an administrator or not (who).  First the session.               *)
ChannelReady(s, f, k) ==
  /\ IF k = "peer" /\ s \in RegionSteps \cup {"session_type"}
     THEN f.MPBGP = "Not supported" /\ f.ENH = None
     ELSE s # "enh" => ChannelFits(f)
  /\ s \in {"mpbgp_support", "mpbgp_type", "enh"} => f.Channel = "IPv6 & IPv4"
  /\ s = "enh" => f.MPBGP = "IPv6"

(* The addresses.                                                          *)
AddressReady(s, f, k) ==
  /\ s \in {"ipv6", "request_linklocal"} => NeedsIPv6(f)
  /\ s = "request_linklocal" => f.IPv6 = "lla"
  /\ s = "ipv4" => IPv6Fits(f) /\ NeedsIPv4(f)
  /\ (\/ s \in EndpointSteps \cup LateSteps \cup {"action_choose"}
      \/ k = "modify" /\ s \in RegionSteps \cup {"session_type"})
     => IPv6Fits(f) /\ IPv4Fits(f)

(* The fields asked for later, and the check of the endpoint.              *)
RestReady(s, f, k, who) ==
  /\ k = "modify" \/ s \notin RegionSteps => f.Region \in Nodes
  /\ k = "modify" \/ s \in {"psk", "mtu", "contact", "confirm"} => f.PublicKey # None
  /\ k = "modify" \/ s \in {"contact", "confirm"} => f.MTU # None
  /\ k = "peer" /\ s \in {"clearnet_port", "port_myside"} \cup LateSteps
       => who \/ Reaches(f.Region, f.Clearnet)

(* A modification has not touched what the user has not chosen.            *)
Kept(f, who, t, old) ==
  /\ "Region" \notin t =>
       /\ f.Region = old.Region
       /\ who \/ f.Clearnet = old.Clearnet \/ Reaches(f.Region, f.Clearnet)
  /\ "MTU" \notin t => f.MTU = old.MTU
  /\ "WireGuard PublicKey" \notin t => f.PublicKey = old.PublicKey
  /\ "WireGuard PresharedKey" \notin t => f.PresharedKey = old.PresharedKey
  /\ "Clearnet Endpoint" \notin t => f.Clearnet = old.Clearnet /\ f.Port = old.Port
  /\ "Session Type" \notin t => f.Channel = old.Channel /\ f.MPBGP = old.MPBGP
  /\ "Session Type" \notin t /\ "DN42 IP" \notin t =>
       f.IPv6 = old.IPv6 /\ f.IPv4 = old.IPv4 /\ f.RequestLL = old.RequestLL

Ready(s, f, k, who, t, old) ==
  /\ f \in Forms
  /\ ChannelReady(s, f, k) /\ AddressReady(s, f, k) /\ RestReady(s, f, k, who)
  /\ k = "modify" => Kept(f, who, t, old)

(* The items whose questions include one, and the stop sign meanwhile.     *)
ItemsOf(s) ==
  IF s \in RegionSteps THEN {"Region"}
  ELSE IF s \in SessionSteps THEN {"Session Type"}
  ELSE IF s \in AddressSteps THEN {"Session Type", "DN42 IP"}
  ELSE IF s \in EndpointSteps THEN {"Clearnet Endpoint"}
  ELSE IF s = "pubkey" THEN {"WireGuard PublicKey"}
  ELSE IF s = "psk" THEN {"WireGuard PresharedKey"}
  ELSE IF s = "mtu" THEN {"MTU"}
  ELSE IF s = "contact" THEN {"Contact"}
  ELSE {}

StopsAt(s, sign, t) ==
  IF s \in {"action_choose", "confirm"} THEN sign = None
  ELSE \E i \in ItemsOf(s) : i \in t /\ sign = StopSign(i)

(* What an agent has on file was a complete form, and a modification began *)
(* with what is on file.                                                   *)
Written(n, c) == \E f \in Forms : Complete(f) /\ c = SetupPeer(n, f)

ConfInv ==
  /\ conf \in [Nodes -> Confs \cup {None}]
  /\ \A n \in Nodes : conf[n] # None => Written(n, conf[n])

BackupInv ==
  /\ backup.Region \in Nodes /\ conf[backup.Region] # None
  /\ backup = RecreatePeerInfo(backup.Region, conf[backup.Region])

DialogueInv ==
  /\ kind = "peer" => step \notin {"node_choose", "action_choose"} /\ stop = None /\ touched = {}
  /\ step \notin Resting => Ready(step, form, kind, privileged, touched, backup)
  /\ kind = "modify" /\ step \notin Resting => StopsAt(step, stop, touched) /\ BackupInv
  /\ step = "node_choose" => stop = None /\ touched = {}

FormInv == TypeOK /\ ConfInv /\ DialogueInv

-----------------------------------------------------------------------------
(* The files of an agent: form -> sessions -> name -> form.                *)

LEMMA ValuesAre ==
  /\ "Not supported" \in Multiprotocol /\ "IPv6" \in Multiprotocol /\ "IPv4" \in Multiprotocol
  /\ NotEnabled \in Addresses6 /\ "lla" \in Addresses6 /\ "ula" \in Addresses6
  /\ NotEnabled \in Addresses4 /\ ViaENH \in Addresses4 /\ "addr" \in Addresses4
PROOF BY DEF Multiprotocol, Addresses6, Addresses4

LEMMA FormTypes ==
  ASSUME NEW f \in Forms
  PROVE  /\ f.Region \in Nodes \cup {None} /\ f.Channel \in Channels \cup {None}
         /\ f.MPBGP \in {"Not supported", "IPv6", "IPv4"} /\ f.ENH \in BOOLEAN \cup {None}
         /\ f.IPv6 \in {NotEnabled, "lla", "ula"} /\ f.IPv4 \in {NotEnabled, ViaENH, "addr"}
         /\ f.RequestLL \in LLAs \cup {NotRequired} /\ f.Clearnet \in Hosts \cup {None}
         /\ f.ClearnetPort \in BOOLEAN /\ f.PublicKey \in Keys \cup {None}
         /\ f.PresharedKey \in Keys \cup {None} /\ f.Port \in Ports /\ f.MTU \in MTUs \cup {None}
PROOF BY DEF Forms, Multiprotocol, Addresses6, Addresses4

LEMMA FormIsItsFields ==
  ASSUME NEW f \in Forms
  PROVE  f = [Region |-> f.Region, Channel |-> f.Channel, MPBGP |-> f.MPBGP, ENH |-> f.ENH,
              IPv6 |-> f.IPv6, IPv4 |-> f.IPv4, RequestLL |-> f.RequestLL,
              Clearnet |-> f.Clearnet, ClearnetPort |-> f.ClearnetPort,
              PublicKey |-> f.PublicKey, PresharedKey |-> f.PresharedKey,
              Port |-> f.Port, MTU |-> f.MTU]
PROOF BY DEF Forms

(* Two forms with the same fields are the same form.                       *)
LEMMA FormFields ==
  ASSUME NEW f \in Forms, NEW g \in Forms,
         f.Region = g.Region, f.Channel = g.Channel, f.MPBGP = g.MPBGP, f.ENH = g.ENH,
         f.IPv6 = g.IPv6, f.IPv4 = g.IPv4, f.RequestLL = g.RequestLL, f.Clearnet = g.Clearnet,
         f.ClearnetPort = g.ClearnetPort, f.PublicKey = g.PublicKey,
         f.PresharedKey = g.PresharedKey, f.Port = g.Port, f.MTU = g.MTU
  PROVE  f = g
PROOF BY FormIsItsFields, Zenon

(* The name of the sessions of a form, from what the user answered.        *)
NameOf(f) ==
  IF f.Channel = "IPv6 only" THEN "IPv6 Session with IPv6 channel only"
  ELSE IF f.Channel = "IPv4 only" THEN "IPv4 Session with IPv4 channel only"
  ELSE IF f.MPBGP = "IPv6" THEN "IPv6 Session with IPv6 & IPv4 Channels"
  ELSE IF f.MPBGP = "IPv4" THEN "IPv4 Session with IPv6 & IPv4 Channels"
  ELSE "IPv6 & IPv4 Session with their own channels"

(* Which sessions those are.                                               *)
Sessions(f) ==
  IF f.Channel = "IPv6 only" THEN {Session(f, 6, TRUE)}
  ELSE IF f.Channel = "IPv4 only" THEN {Session(f, 4, TRUE)}
  ELSE IF f.MPBGP = "IPv6" THEN {Session(f, 6, FALSE)}
  ELSE IF f.MPBGP = "IPv4" THEN {Session(f, 4, FALSE)}
  ELSE {Session(f, 6, TRUE), Session(f, 4, TRUE)}

LEMMA SetupFields ==
  ASSUME NEW n, NEW f
  PROVE  LET c == SetupPeer(n, f) IN
         /\ c.peerV6 = IF f.IPv6 = NotEnabled THEN None ELSE f.IPv6
         /\ c.peerV4 = IF f.IPv4 = "addr" THEN "addr" ELSE None
         /\ c.myLla = IF f.RequestLL = NotRequired THEN Lla[n] ELSE f.RequestLL
         /\ c.port = f.Port /\ c.mtu = f.MTU /\ c.pubkey = f.PublicKey /\ c.psk = f.PresharedKey
         /\ c.clearnet = f.Clearnet /\ c.sessions = BirdSessions(f)
PROOF BY DEF SetupPeer

LEMMA SessionsOfForm ==
  ASSUME NEW f \in Forms, f.Channel \in Channels
  PROVE  BirdSessions(f) = Sessions(f)
  <1>1. f.MPBGP \in {"Not supported", "IPv6", "IPv4"}
    BY FormTypes
  <1>2. CASE f.Channel = "IPv6 only"
    BY <1>2 DEF BirdSessions, Sessions
  <1>3. CASE f.Channel = "IPv4 only"
    BY <1>3 DEF BirdSessions, Sessions
  <1>4. CASE f.Channel = "IPv6 & IPv4"
    BY <1>1, <1>4 DEF BirdSessions, Sessions
  <1>. QED
    BY <1>2, <1>3, <1>4 DEF Channels

(* What get_info looks for in a set of sessions.                           *)
Has(S, v, only) == \E s \in S : s.version = v /\ s.only = only

LEMMA HasOne ==
  ASSUME NEW f, NEW w, NEW o
  PROVE  \A v, only : Has({Session(f, w, o)}, v, only) <=> w = v /\ o = only
  <1>. DEFINE x == Session(f, w, o)
  <1>1. x.version = w /\ x.only = o
    BY DEF Session
  <1>2. \A v, only : Has({x}, v, only) <=> x.version = v /\ x.only = only
    BY DEF Has
  <1>. HIDE DEF x
  <1>3. \A v, only : Has({x}, v, only) <=> w = v /\ o = only
    BY <1>1, <1>2, Zenon
  <1>. QED
    BY <1>3 DEF x

LEMMA HasEach ==
  ASSUME NEW f, NEW t, NEW u, t # u
  PROVE  LET S(v, only) == {Session(f, v, only)} IN
         /\ Has(S(6, t), 6, t) /\ ~Has(S(6, t), 4, t)
         /\ ~Has(S(4, t), 6, t) /\ Has(S(4, t), 4, t)
         /\ ~Has(S(6, u), 6, t) /\ ~Has(S(6, u), 4, t) /\ Has(S(6, u), 6, u)
         /\ ~Has(S(4, u), 6, t) /\ ~Has(S(4, u), 4, t) /\ ~Has(S(4, u), 6, u)
  <1>1. \A w, o, v, only : Has({Session(f, w, o)}, v, only) <=> w = v /\ o = only
    BY HasOne
  <1>. QED
    BY <1>1

LEMMA HasTwo ==
  ASSUME NEW S, NEW T, NEW v, NEW only
  PROVE  Has(S \cup T, v, only) <=> Has(S, v, only) \/ Has(T, v, only)
PROOF BY DEF Has

LEMMA NameOfForm ==
  ASSUME NEW n, NEW f \in Forms, ChannelFits(f)
  PROVE  SessionName(SetupPeer(n, f)) = NameOf(f)
  <1>. DEFINE c == SetupPeer(n, f)
             six == Has(c.sessions, 6, TRUE)
             four == Has(c.sessions, 4, TRUE)
             sixOfBoth == Has(c.sessions, 6, FALSE)
  <1>1. c.sessions = Sessions(f)
    BY SetupFields, SessionsOfForm DEF ChannelFits
  <1>2. SessionName(c) =
          IF six /\ four THEN "IPv6 & IPv4 Session with their own channels"
          ELSE IF six THEN "IPv6 Session with IPv6 channel only"
          ELSE IF four THEN "IPv4 Session with IPv4 channel only"
          ELSE IF sixOfBoth THEN "IPv6 Session with IPv6 & IPv4 Channels"
          ELSE "IPv4 Session with IPv6 & IPv4 Channels"
    BY DEF SessionName, Has
  <1>3. /\ f.Channel \in {"IPv6 only", "IPv4 only", "IPv6 & IPv4"}
        /\ f.MPBGP \in {"Not supported", "IPv6", "IPv4"}
    BY FormTypes DEF ChannelFits, Channels
  <1>. DEFINE S(v, only) == {Session(f, v, only)}
  <1>4. /\ Has(S(6, TRUE), 6, TRUE) /\ ~Has(S(6, TRUE), 4, TRUE)
        /\ ~Has(S(4, TRUE), 6, TRUE) /\ Has(S(4, TRUE), 4, TRUE)
        /\ ~Has(S(6, FALSE), 6, TRUE) /\ ~Has(S(6, FALSE), 4, TRUE) /\ Has(S(6, FALSE), 6, FALSE)
        /\ ~Has(S(4, FALSE), 6, TRUE) /\ ~Has(S(4, FALSE), 4, TRUE) /\ ~Has(S(4, FALSE), 6, FALSE)
    BY HasEach, TRUE # FALSE, Zenon
  <1>. HIDE DEF c
  <1>. SUFFICES SessionName(c) = NameOf(f)
    BY DEF c
  <1>5. CASE f.Channel = "IPv6 only"
    <2>1. six /\ ~four
      BY <1>1, <1>4, <1>5 DEF Sessions
    <2>. QED
      BY <1>2, <1>5, <2>1 DEF NameOf
  <1>6. CASE f.Channel = "IPv4 only"
    <2>1. ~six /\ four
      BY <1>1, <1>6, <1>4 DEF Sessions
    <2>. QED
      BY <1>2, <1>6, <2>1 DEF NameOf
  <1>7. CASE f.Channel = "IPv6 & IPv4" /\ f.MPBGP = "IPv6"
    <2>1. ~six /\ ~four /\ sixOfBoth
      BY <1>1, <1>7, <1>4 DEF Sessions
    <2>. QED
      BY <1>2, <1>7, <2>1 DEF NameOf
  <1>8. CASE f.Channel = "IPv6 & IPv4" /\ f.MPBGP = "IPv4"
    <2>1. ~six /\ ~four /\ ~sixOfBoth
      BY <1>1, <1>8, <1>4 DEF Sessions
    <2>. QED
      BY <1>2, <1>8, <2>1 DEF NameOf
  <1>9. CASE f.Channel = "IPv6 & IPv4" /\ f.MPBGP = "Not supported"
    <2>1. Sessions(f) = {Session(f, 6, TRUE)} \cup {Session(f, 4, TRUE)}
      BY <1>9 DEF Sessions
    <2>2. Has(S(6, TRUE) \cup S(4, TRUE), 6, TRUE) /\ Has(S(6, TRUE) \cup S(4, TRUE), 4, TRUE)
      BY <1>4, HasTwo, Zenon
    <2>3. six /\ four
      BY <1>1, <2>1, <2>2, Zenon
    <2>. QED
      BY <1>2, <1>9, <2>3 DEF NameOf
  <1>. QED
    BY <1>3, <1>5, <1>6, <1>7, <1>8, <1>9

(* A confirmed form gives a complete file, from which /info reads back the *)
(* form: all of it but what does not count.                                *)
LEMMA SetupTypes ==
  ASSUME NEW n \in Nodes, NEW f \in Forms, Complete(f)
  PROVE  SetupPeer(n, f) \in Confs /\ SetupPeer(n, f) # None
  <1>. DEFINE S == [version : {4, 6}, only : BOOLEAN,
                    neighbor : {NotEnabled, ViaENH, "lla", "ula", "addr"}]
  <1>1. \A v \in {4, 6}, only \in BOOLEAN : Session(f, v, only) \in S
    BY FormTypes DEF Session
  <1>2. BirdSessions(f) \subseteq S
    <2>. HIDE DEF S
    <2>. QED
      BY <1>1, SessionsOfForm DEF Sessions, Complete, ChannelFits
  <1>3. Lla[n] \in LLAs
    BY FormAssumption
  <1>4. f.MTU \in MTUs /\ f.PublicKey \in Keys
    BY FormTypes DEF Complete
  <1>5. SetupPeer(n, f) \in Confs
    <2>. HIDE DEF S
    <2>1. BirdSessions(f) \in SUBSET S
      BY <1>2
    <2>2. f.IPv6 \in {NotEnabled, "lla", "ula"} /\ f.RequestLL \in LLAs \cup {NotRequired}
          /\ f.Port \in Ports /\ f.PresharedKey \in Keys \cup {None} /\ f.Clearnet \in Hosts \cup {None}
      BY FormTypes
    <2>. QED
      BY <1>3, <1>4, <2>1, <2>2 DEF SetupPeer, Confs, S
  <1>. QED
    BY <1>5, NoneAssumption

LEMMA Readback ==
  ASSUME NEW n \in Nodes, NEW f \in Forms, Complete(f)
  PROVE  LET g == RecreatePeerInfo(n, SetupPeer(n, f)) IN
         /\ g \in Forms /\ Complete(g)
         /\ g.Region = n /\ g.ClearnetPort = FALSE
         /\ g.Channel = f.Channel /\ g.MPBGP = f.MPBGP /\ g.ENH = f.ENH
         /\ g.IPv6 = f.IPv6 /\ g.IPv4 = f.IPv4 /\ g.Clearnet = f.Clearnet
         /\ g.PublicKey = f.PublicKey /\ g.PresharedKey = f.PresharedKey
         /\ g.Port = f.Port /\ g.MTU = f.MTU
         /\ g.RequestLL = IF f.IPv6 = "lla" THEN f.RequestLL ELSE NotRequired
         /\ f.IPv6 = "lla" => f.RequestLL \in LLAs /\ f.RequestLL = SetupPeer(n, f).myLla
  <1>. DEFINE c == SetupPeer(n, f)
             g == RecreatePeerInfo(n, c)
             name == SessionName(c)
             both == name = "IPv6 Session with IPv6 & IPv4 Channels"
  <1>1. name = NameOf(f)
    BY NameOfForm DEF Complete
  <1>2. /\ c.peerV6 = IF f.IPv6 = NotEnabled THEN None ELSE f.IPv6
        /\ c.peerV4 = IF f.IPv4 = "addr" THEN "addr" ELSE None
        /\ c.myLla = IF f.RequestLL = NotRequired THEN Lla[n] ELSE f.RequestLL
        /\ c.port = f.Port /\ c.mtu = f.MTU /\ c.pubkey = f.PublicKey /\ c.psk = f.PresharedKey
        /\ c.clearnet = f.Clearnet
    BY SetupFields
  <1>3. /\ g.Region = n
        /\ g.Channel = CASE name = "IPv6 Session with IPv6 channel only" -> "IPv6 only"
                         [] name = "IPv4 Session with IPv4 channel only" -> "IPv4 only"
                         [] OTHER -> "IPv6 & IPv4"
        /\ g.MPBGP = IF both THEN "IPv6"
                     ELSE IF name = "IPv4 Session with IPv6 & IPv4 Channels" THEN "IPv4"
                     ELSE "Not supported"
        /\ g.ENH = IF both THEN c.peerV4 = None ELSE None
        /\ g.IPv6 = IF c.peerV6 = None THEN NotEnabled ELSE c.peerV6
        /\ g.IPv4 = IF c.peerV4 = None THEN NotEnabled ELSE c.peerV4
        /\ g.RequestLL = IF c.peerV6 = "lla" THEN c.myLla ELSE NotRequired
        /\ g.Clearnet = c.clearnet /\ g.ClearnetPort = FALSE
        /\ g.PublicKey = c.pubkey /\ g.PresharedKey = c.psk /\ g.Port = c.port /\ g.MTU = c.mtu
    BY DEF RecreatePeerInfo
  <1>4. /\ g = [Region |-> g.Region, Channel |-> g.Channel, MPBGP |-> g.MPBGP, ENH |-> g.ENH,
                IPv6 |-> g.IPv6, IPv4 |-> g.IPv4, RequestLL |-> g.RequestLL,
                Clearnet |-> g.Clearnet, ClearnetPort |-> g.ClearnetPort,
                PublicKey |-> g.PublicKey, PresharedKey |-> g.PresharedKey,
                Port |-> g.Port, MTU |-> g.MTU]
    BY DEF RecreatePeerInfo
  <1>. HIDE DEF c, g, name
  <1>5. g.Channel = f.Channel /\ g.MPBGP = f.MPBGP
    BY <1>1, <1>3, FormTypes DEF NameOf, Complete, ChannelFits, Channels
  <1>6. both <=> f.MPBGP = "IPv6"
    BY <1>1, FormTypes DEF NameOf, Complete, ChannelFits, Channels
  <1>7. None # "addr" /\ None # "lla" /\ None # "ula" /\ None \notin BOOLEAN
    BY EarlierAssumption
  <1>8. g.IPv6 = f.IPv6
    BY <1>2, <1>3, <1>7, FormTypes DEF NotEnabled
  <1>9. f.IPv4 \in {NotEnabled, "addr"}
    BY DEF Complete, IPv4Fits
  <1>10. g.IPv4 = f.IPv4 /\ (c.peerV4 = None <=> f.IPv4 # "addr")
    BY <1>2, <1>3, <1>7, <1>9 DEF NotEnabled
  <1>11. g.ENH = f.ENH
    <2>1. CASE f.MPBGP # "IPv6"
      BY <1>3, <1>6, <2>1 DEF Complete, ChannelFits
    <2>2. CASE f.MPBGP = "IPv6"
      <3>1. f.Channel = "IPv6 & IPv4" /\ f.ENH \in BOOLEAN
        BY <2>2, FormTypes DEF Complete, ChannelFits
      <3>2. f.IPv4 # "addr" <=> f.ENH = TRUE
        BY <3>1 DEF Complete, IPv4Fits, NeedsIPv4, NotEnabled
      <3>3. g.ENH = (c.peerV4 = None)
        BY <1>3, <1>6, <2>2
      <3>. QED
        BY <1>10, <3>1, <3>2, <3>3, Zenon
    <2>. QED
      BY <2>1, <2>2
  <1>12. f.IPv6 = "lla" => f.RequestLL \in LLAs /\ f.RequestLL # NotRequired
    BY FormTypes DEF Complete, IPv6Fits
  <1>13. g.RequestLL = IF f.IPv6 = "lla" THEN f.RequestLL ELSE NotRequired
    BY <1>2, <1>3, <1>7, <1>12, FormTypes DEF NotEnabled
  <1>14. g \in Forms
    <2>1. /\ g.Region \in Nodes \cup {None} /\ g.Channel \in Channels \cup {None}
          /\ g.MPBGP \in {"Not supported", "IPv6", "IPv4"} /\ g.ENH \in BOOLEAN \cup {None}
          /\ g.IPv6 \in {NotEnabled, "lla", "ula"} /\ g.IPv4 \in {NotEnabled, ViaENH, "addr"}
          /\ g.RequestLL \in LLAs \cup {NotRequired} /\ g.Clearnet \in Hosts \cup {None}
          /\ g.ClearnetPort \in BOOLEAN /\ g.PublicKey \in Keys \cup {None}
          /\ g.PresharedKey \in Keys \cup {None} /\ g.Port \in Ports /\ g.MTU \in MTUs \cup {None}
      BY <1>2, <1>3, <1>5, <1>8, <1>10, <1>11, <1>12, <1>13, FormTypes
    <2>. QED
      BY <1>4, <2>1, ValuesAre DEF Forms
  <1>15. Complete(g)
    BY <1>2, <1>3, <1>5, <1>8, <1>10, <1>11, <1>12, <1>13
    DEF Complete, ChannelFits, IPv6Fits, IPv4Fits, NeedsIPv6, NeedsIPv4
  <1>. QED
    BY <1>2, <1>3, <1>5, <1>8, <1>10, <1>11, <1>12, <1>13, <1>14, <1>15 DEF g, c

-----------------------------------------------------------------------------
(* The questions: the form a question is asked with.                       *)

LEMMA EmptyFormFacts ==
  /\ EmptyForm \in Forms
  /\ EmptyForm.MPBGP = "Not supported" /\ EmptyForm.ENH = None
  <1>1. DefaultPort \in Ports
    BY FormAssumption DEF DefaultPort
  <1>. QED
    BY <1>1, ValuesAre DEF EmptyForm, Forms

(* A form that differs from another in the fields of F at most (and in the *)
(* port of the old endpoint, on which nothing depends).                    *)
ButFor(F, f, g) ==
  /\ "Region" \notin F => g.Region = f.Region
  /\ "Channel" \notin F => g.Channel = f.Channel
  /\ "MPBGP" \notin F => g.MPBGP = f.MPBGP
  /\ "ENH" \notin F => g.ENH = f.ENH
  /\ "IPv6" \notin F => g.IPv6 = f.IPv6
  /\ "IPv4" \notin F => g.IPv4 = f.IPv4
  /\ "RequestLL" \notin F => g.RequestLL = f.RequestLL
  /\ "Clearnet" \notin F => g.Clearnet = f.Clearnet
  /\ "PublicKey" \notin F => g.PublicKey = f.PublicKey
  /\ "PresharedKey" \notin F => g.PresharedKey = f.PresharedKey
  /\ "Port" \notin F => g.Port = f.Port
  /\ "MTU" \notin F => g.MTU = f.MTU

LEMMA PortAsked ==
  ASSUME NEW f \in Forms, NEW b \in BOOLEAN
  PROVE  [f EXCEPT !.ClearnetPort = b] \in Forms /\ ButFor({}, f, [f EXCEPT !.ClearnetPort = b])
  <1>. DEFINE g == [f EXCEPT !.ClearnetPort = b]
  <1>1. g \in Forms
    BY DEF Forms
  <1>2. ButFor({}, f, g)
    BY DEF Forms, ButFor
  <1>. QED
    BY <1>1, <1>2

LEMMA BeforeAskingFacts ==
  ASSUME NEW next, NEW f \in Forms
  PROVE  BeforeAsking(next, f) \in Forms /\ ButFor({}, f, BeforeAsking(next, f))
  <1>1. ASSUME NEW b \in BOOLEAN
        PROVE  [f EXCEPT !.ClearnetPort = b] \in Forms /\ ButFor({}, f, [f EXCEPT !.ClearnetPort = b])
    BY PortAsked
  <1>2. BeforeAsking(next, f) \in
          {f, [f EXCEPT !.ClearnetPort = TRUE], [f EXCEPT !.ClearnetPort = FALSE]}
    BY DEF BeforeAsking
  <1>3. ButFor({}, f, f)
    BY DEF ButFor
  <1>. QED
    BY <1>1, <1>2, <1>3

LEMMA ReadySame ==
  ASSUME NEW s, NEW f, NEW g \in Forms, NEW k, NEW who, NEW t, NEW old,
         ButFor({}, f, g), Ready(s, f, k, who, t, old)
  PROVE  Ready(s, g, k, who, t, old)
  <1>1. ChannelReady(s, g, k)
    BY DEF Ready, ButFor, ChannelReady, ChannelFits
  <1>2. AddressReady(s, g, k)
    BY DEF Ready, ButFor, AddressReady, IPv6Fits, IPv4Fits, NeedsIPv6, NeedsIPv4
  <1>3. RestReady(s, g, k, who)
    BY DEF Ready, ButFor, RestReady
  <1>4. k = "modify" => Kept(g, who, t, old)
    BY DEF Ready, ButFor, Kept
  <1>. QED
    BY <1>1, <1>2, <1>3, <1>4 DEF Ready

(* A modification returns to its menu only between two items.              *)
Signs == {"session_type", "clearnet", "pubkey", "psk", "mtu", "contact", "confirm"}

LEMMA SignsAre == \A i : StopSign(i) \in Signs
PROOF BY DEF StopSign, Signs

LEMMA ReadyForMenu ==
  ASSUME NEW s \in Signs, NEW f, NEW who, NEW t, NEW old, Ready(s, f, "modify", who, t, old)
  PROVE  Ready("action_choose", f, "modify", who, t, old)
  <1>1. ChannelReady("action_choose", f, "modify")
    BY DEF Ready, ChannelReady, Signs, RegionSteps
  <1>2. AddressReady("action_choose", f, "modify")
    BY DEF Ready, AddressReady, Signs, RegionSteps, EndpointSteps, LateSteps
  <1>3. RestReady("action_choose", f, "modify", who)
    BY DEF Ready, RestReady
  <1>. QED
    BY <1>1, <1>2, <1>3 DEF Ready

Questions == Steps \ {"idle", "node_choose", "action_choose"}

LEMMA StepsAreNot == \A s \in Steps : s # None
PROOF BY EarlierAssumption

(* step_manage, from an answer to a question that is ready to be asked.    *)
LEMMA AskKeeps ==
  ASSUME FormInv, step \notin Resting, NEW next \in Questions, NEW f \in Forms, Ask(next, f),
         Ready(next, f, kind, privileged, touched, backup),
         kind = "modify" /\ next # stop => StopsAt(next, stop, touched)
  PROVE  FormInv'
  <1>. USE DEF FormInv
  <1>1. next # None
    BY StepsAreNot DEF Questions
  <1>2. kind \in {"peer", "modify"}
    BY DEF TypeOK
  <1>3. /\ UNCHANGED <<privileged, dialogues, kind, backup, conf, touched>>
        /\ menu' = {}
        /\ next = stop => step' = "action_choose" /\ stop' = None /\ form' = f
        /\ next # stop => /\ (step' = "idle" /\ kind = "modify") \/ step' = next
                          /\ form' = BeforeAsking(next, f) /\ stop' = stop
    BY DEF Ask
  <1>4. form' \in Forms /\ ButFor({}, f, form')
    BY <1>3, BeforeAskingFacts DEF ButFor
  <1>5. next = stop => kind = "modify" /\ next \in Signs
    BY <1>1, <1>2, SignsAre DEF DialogueInv, StopsAt
  <1>6. TypeOK'
    <2>1. "action_choose" \in Steps /\ "idle" \in Steps /\ next \in Steps
      BY DEF Steps, Questions
    <2>. QED
      BY <1>3, <1>4, <2>1 DEF TypeOK
  <1>7. ConfInv'
    BY <1>3 DEF ConfInv
  <1>8. step' \notin Resting => Ready(step', form', kind', privileged', touched', backup')
    <2>1. CASE next = stop
      BY <1>3, <1>5, <2>1, ReadyForMenu
    <2>2. CASE next # stop
      <3>1. Ready(next, form', kind, privileged, touched, backup)
        BY <1>4, ReadySame
      <3>. QED
        BY <1>3, <2>2, <3>1 DEF Resting
    <2>. QED
      BY <2>1, <2>2
  <1>9. kind' = "modify" /\ step' \notin Resting => StopsAt(step', stop', touched')
    BY <1>3 DEF StopsAt, Resting
  <1>10. kind' = "modify" => BackupInv'
    BY <1>3 DEF DialogueInv, BackupInv
  <1>11. kind' = "peer" => step' \notin {"node_choose", "action_choose"} /\ stop' = None /\ touched' = {}
    BY <1>3, <1>5 DEF DialogueInv, Questions
  <1>12. step' # "node_choose"
    BY <1>3 DEF Questions
  <1>. QED
    BY <1>6, <1>7, <1>8, <1>9, <1>10, <1>11, <1>12 DEF DialogueInv

(* A dialogue that ends leaves nothing to be kept.                         *)
LEMMA EndKeeps ==
  ASSUME FormInv, EndDialogue
  PROVE  FormInv'
  <1>1. TypeOK'
    BY DEF FormInv, TypeOK, EndDialogue, Steps
  <1>2. ConfInv'
    BY DEF FormInv, ConfInv, EndDialogue
  <1>3. DialogueInv'
    BY DEF FormInv, DialogueInv, EndDialogue, Resting
  <1>. QED
    BY <1>1, <1>2, <1>3 DEF FormInv

-----------------------------------------------------------------------------
(* The answers.                                                            *)

(* The questions an answer may lead to.                                    *)
Leads(s, next) ==
  \/ s \in RegionSteps /\ next = "session_type"
  \/ s \in SessionSteps /\ next \in SessionSteps \cup AddressSteps
  \/ s \in AddressSteps /\ next \in AddressSteps \cup {"clearnet"}
  \/ s \in EndpointSteps /\ next \in EndpointSteps \cup {"pubkey"}
  \/ s = "pubkey" /\ next = "psk"
  \/ s = "psk" /\ next = "mtu"
  \/ s = "mtu" /\ next = "contact"
  \/ s = "contact" /\ next = "confirm"

(* Each of them belongs to the same item or is its stop sign.              *)
LEMMA StopFollows ==
  ASSUME NEW s, NEW next, NEW sign, NEW t, Leads(s, next), StopsAt(s, sign, t), next # sign
  PROVE  StopsAt(next, sign, t)
  <1>. USE DEF RegionSteps, SessionSteps, AddressSteps, EndpointSteps
  <1>1. s \notin {"action_choose", "confirm"}
    BY DEF Leads
  <1>2. PICK i \in ItemsOf(s) : i \in t /\ sign = StopSign(i)
    BY <1>1 DEF StopsAt
  <1>3. i \in ItemsOf(next) /\ next \notin {"action_choose", "confirm"}
    <2>1. CASE s \in RegionSteps
      <3>1. i = "Region" /\ next = "session_type"
        BY <1>2, <2>1 DEF ItemsOf, Leads
      <3>. QED
        BY <1>2, <3>1 DEF StopSign
    <2>2. CASE s \in SessionSteps
      <3>1. i = "Session Type" /\ next \in SessionSteps \cup AddressSteps
        BY <1>2, <2>2 DEF ItemsOf, Leads
      <3>. QED
        BY <3>1 DEF ItemsOf
    <2>3. CASE s \in AddressSteps
      <3>1. i \in {"Session Type", "DN42 IP"} /\ next \in AddressSteps \cup {"clearnet"}
        BY <1>2, <2>3 DEF ItemsOf, Leads
      <3>2. sign = "clearnet"
        BY <1>2, <3>1 DEF StopSign
      <3>. QED
        BY <3>1, <3>2 DEF ItemsOf
    <2>4. CASE s \in EndpointSteps
      <3>1. i = "Clearnet Endpoint" /\ next \in EndpointSteps \cup {"pubkey"}
        BY <1>2, <2>4 DEF ItemsOf, Leads
      <3>2. sign = "pubkey"
        BY <1>2, <3>1 DEF StopSign
      <3>. QED
        BY <3>1, <3>2 DEF ItemsOf
    <2>5. CASE s \in {"pubkey", "psk", "mtu", "contact"}
      <3>1. \/ i = "WireGuard PublicKey" /\ next = "psk"
            \/ i = "WireGuard PresharedKey" /\ next = "mtu"
            \/ i = "MTU" /\ next = "contact"
            \/ i = "Contact" /\ next = "confirm"
        BY <1>2, <2>5 DEF ItemsOf, Leads
      <3>. QED
        BY <1>2, <3>1 DEF StopSign
    <2>. QED
      BY <2>1, <2>2, <2>3, <2>4, <2>5 DEF Leads
  <1>. QED
    BY <1>2, <1>3 DEF StopsAt

(* An answer is given to a question that was ready, about a touched item,  *)
(* and the next question must be.                                          *)
LEMMA Answered ==
  ASSUME FormInv, NEW s \in Questions \ {"confirm"}, step = s
  PROVE  /\ Ready(s, form, kind, privileged, touched, backup)
         /\ form \in Forms
         /\ kind = "modify" => \E i \in ItemsOf(s) : i \in touched
         /\ \A next \in Questions, f \in Forms :
              Leads(s, next) /\ Ask(next, f) /\ Ready(next, f, kind, privileged, touched, backup)
                => FormInv'
  <1>1. s \notin Resting /\ s \notin {"action_choose", "confirm"}
    BY DEF Questions, Resting
  <1>2. Ready(s, form, kind, privileged, touched, backup)
    BY <1>1 DEF FormInv, DialogueInv
  <1>3. kind = "modify" => StopsAt(s, stop, touched)
    BY <1>1 DEF FormInv, DialogueInv
  <1>4. ASSUME NEW next \in Questions, NEW f \in Forms, Leads(s, next), Ask(next, f),
               Ready(next, f, kind, privileged, touched, backup)
        PROVE  FormInv'
    <2>1. kind = "modify" /\ next # stop => StopsAt(next, stop, touched)
      BY <1>3, <1>4, StopFollows
    <2>. QED
      BY <1>1, <1>4, <2>1, AskKeeps
  <1>. QED
    BY <1>1, <1>2, <1>3, <1>4 DEF Ready, StopsAt

LEMMA QuestionsAre ==
  Questions = {"pre_region", "region", "session_type", "mpbgp_support", "mpbgp_type", "enh", "ipv6",
               "request_linklocal", "ipv4", "clearnet", "clearnet_port", "port_myside", "pubkey",
               "psk", "mtu", "contact", "confirm"}
PROOF BY DEF Questions, Steps

(* The node.                                                               *)
LEMMA RegionKeeps ==
  ASSUME FormInv, step \in RegionSteps, NEW n \in Nodes,
         Ask("session_type", [form EXCEPT !.Region = n])
  PROVE  FormInv'
  <1>. DEFINE f == [form EXCEPT !.Region = n]
  <1>1. /\ Ready(step, form, kind, privileged, touched, backup) /\ form \in Forms
        /\ kind = "modify" => "Region" \in touched
    BY Answered, QuestionsAre DEF RegionSteps, ItemsOf
  <1>2. f \in Forms /\ f.Region = n /\ ButFor({"Region"}, form, f)
    <2>1. f \in Forms
      BY <1>1 DEF Forms
    <2>2. f.Region = n
      BY <1>1 DEF Forms
    <2>3. ButFor({"Region"}, form, f)
      BY <1>1 DEF Forms, ButFor
    <2>. QED
      BY <2>1, <2>2, <2>3
  <1>. HIDE DEF f
  <1>3. ChannelReady("session_type", f, kind)
    BY <1>1, <1>2 DEF Ready, ButFor, ChannelReady, RegionSteps, ChannelFits
  <1>4. AddressReady("session_type", f, kind)
    BY <1>1, <1>2 DEF Ready, ButFor, AddressReady, RegionSteps, EndpointSteps, LateSteps, IPv6Fits,
                      IPv4Fits, NeedsIPv6, NeedsIPv4
  <1>5. RestReady("session_type", f, kind, privileged)
    BY <1>1, <1>2 DEF Ready, ButFor, RestReady, RegionSteps, LateSteps
  <1>6. kind = "modify" => Kept(f, privileged, touched, backup)
    BY <1>1, <1>2 DEF Ready, ButFor, Kept
  <1>7. Ready("session_type", f, kind, privileged, touched, backup)
    BY <1>2, <1>3, <1>4, <1>5, <1>6 DEF Ready
  <1>8. Leads(step, "session_type")
    BY DEF Leads
  <1>. QED
    BY <1>2, <1>7, <1>8, Answered, QuestionsAre DEF f, RegionSteps

LEMMA PreRegionKeeps ==
  ASSUME FormInv, PreRegion
  PROVE  FormInv'
  <1>. USE DEF PreRegion
  <1>1. PICK open \in SUBSET {n \in Nodes \ Peered : privileged \/ n \notin AdminOnly} :
          \/ open = {} /\ EndDialogue
          \/ /\ Cardinality(open) = 1
             /\ \E n \in open : Ask("session_type", [form EXCEPT !.Region = n])
          \/ /\ Cardinality(open) > 1
             /\ step' = "region"
             /\ menu' = open
             /\ UNCHANGED <<privileged, dialogues, kind, form, backup, stop, conf, touched>>
    OBVIOUS
  <1>2. CASE EndDialogue
    BY <1>2, EndKeeps
  <1>3. CASE \E n \in open : Ask("session_type", [form EXCEPT !.Region = n])
    BY <1>1, <1>3, RegionKeeps DEF RegionSteps
  <1>4. CASE /\ step' = "region"
             /\ menu' = open
             /\ UNCHANGED <<privileged, dialogues, kind, form, backup, stop, conf, touched>>
    <2>1. TypeOK'
      BY <1>4 DEF FormInv, TypeOK, Steps
    <2>2. ConfInv'
      BY <1>4 DEF FormInv, ConfInv
    <2>3. Ready("pre_region", form, kind, privileged, touched, backup)
      BY DEF FormInv, DialogueInv, Resting
    <2>4. Ready("region", form, kind, privileged, touched, backup)
      BY <2>3 DEF Ready, ChannelReady, AddressReady, RestReady, RegionSteps, EndpointSteps, LateSteps
    <2>5. kind = "modify" => StopsAt("region", stop, touched) /\ BackupInv
      BY DEF FormInv, DialogueInv, Resting, StopsAt, ItemsOf, RegionSteps
    <2>6. DialogueInv'
      BY <1>4, <2>4, <2>5 DEF FormInv, DialogueInv, BackupInv
    <2>. QED
      BY <2>1, <2>2, <2>6 DEF FormInv
  <1>. QED
    BY <1>1, <1>2, <1>3, <1>4

LEMMA PostRegionKeeps ==
  ASSUME FormInv, NEW n \in Nodes, PostRegion(n)
  PROVE  FormInv'
PROOF BY RegionKeeps DEF PostRegion, RegionSteps

(* Answers keep a form a form.                                             *)
LEMMA MpbgpUpdated ==
  ASSUME NEW f \in Forms, NEW m \in Multiprotocol
  PROVE  [f EXCEPT !.MPBGP = m] \in Forms
PROOF BY DEF Forms

LEMMA MpbgpEnhUpdated ==
  ASSUME NEW f \in Forms, NEW m \in Multiprotocol, NEW e \in BOOLEAN \cup {None}
  PROVE  [f EXCEPT !.MPBGP = m, !.ENH = e] \in Forms
PROOF BY DEF Forms

LEMMA EnhUpdated ==
  ASSUME NEW f \in Forms, NEW e \in BOOLEAN \cup {None}, NEW a \in Addresses4
  PROVE  [f EXCEPT !.ENH = e, !.IPv4 = a] \in Forms
PROOF BY DEF Forms

LEMMA IPv6Updated ==
  ASSUME NEW f \in Forms, NEW a \in Addresses6
  PROVE  [f EXCEPT !.IPv6 = a] \in Forms
PROOF BY DEF Forms

LEMMA IPv6RequestUpdated ==
  ASSUME NEW f \in Forms, NEW a \in Addresses6, NEW l \in LLAs \cup {NotRequired}
  PROVE  [f EXCEPT !.IPv6 = a, !.RequestLL = l] \in Forms
PROOF BY DEF Forms

LEMMA RequestUpdated ==
  ASSUME NEW f \in Forms, NEW l \in LLAs \cup {NotRequired}, NEW b \in BOOLEAN
  PROVE  [f EXCEPT !.RequestLL = l, !.ClearnetPort = b] \in Forms
  <1>. DEFINE g == [f EXCEPT !.RequestLL = l]
  <1>1. g \in Forms
    BY DEF Forms
  <1>2. [f EXCEPT !.RequestLL = l, !.ClearnetPort = b] = [g EXCEPT !.ClearnetPort = b]
    BY Zenon
  <1>. HIDE DEF g
  <1>. QED
    BY <1>1, <1>2, PortAsked

(* The session and the addresses: an answer changes no other fields.       *)
SessionFields == {"Channel", "MPBGP", "ENH", "IPv6", "IPv4", "RequestLL"}

LEMMA SessionAnswered ==
  ASSUME FormInv, NEW s \in SessionSteps \cup AddressSteps, step = s,
         NEW next \in SessionSteps \cup AddressSteps \cup {"clearnet"}, Leads(s, next),
         NEW f \in Forms, ButFor(SessionFields, form, f),
         s \in AddressSteps => f.Channel = form.Channel /\ f.MPBGP = form.MPBGP,
         ChannelReady(next, f, kind), AddressReady(next, f, kind), Ask(next, f)
  PROVE  FormInv'
  <1>1. s \in Questions \ {"confirm"} /\ next \in Questions
    BY QuestionsAre DEF SessionSteps, AddressSteps
  <1>2. /\ Ready(s, form, kind, privileged, touched, backup)
        /\ kind = "modify" => \E i \in ItemsOf(s) : i \in touched
    BY <1>1, Answered
  <1>3. kind = "modify" => \/ "Session Type" \in touched
                           \/ "DN42 IP" \in touched /\ s \in AddressSteps
    BY <1>2 DEF ItemsOf, SessionSteps, AddressSteps, RegionSteps
  <1>4. RestReady(next, f, kind, privileged)
    BY <1>2 DEF Ready, ButFor, SessionFields, RestReady, RegionSteps, SessionSteps, AddressSteps,
                LateSteps
  <1>5. kind = "modify" => Kept(f, privileged, touched, backup)
    BY <1>2, <1>3 DEF Ready, ButFor, SessionFields, Kept
  <1>. QED
    BY <1>1, <1>4, <1>5, Answered DEF Ready

LEMMA SessionTypeKeeps ==
  ASSUME FormInv, NEW c \in Channels, PostSessionType(c)
  PROVE  FormInv'
  <1>. DEFINE both == [form EXCEPT !.Channel = c]
              one == [form EXCEPT !.Channel = c, !.MPBGP = "Not supported", !.ENH = None]
              four == [one EXCEPT !.IPv6 = NotEnabled]
  <1>1. step = "session_type"
    BY DEF PostSessionType
  <1>2. Ready("session_type", form, kind, privileged, touched, backup) /\ form \in Forms
    BY <1>1, Answered, QuestionsAre
  <1>3. /\ "session_type" \in SessionSteps /\ "session_type" \notin AddressSteps
        /\ "mpbgp_support" \in SessionSteps /\ "ipv6" \in AddressSteps /\ "ipv4" \in AddressSteps
        /\ Leads("session_type", "mpbgp_support") /\ Leads("session_type", "ipv6")
        /\ Leads("session_type", "ipv4")
    BY DEF Leads, SessionSteps, AddressSteps
  <1>4. CASE c = "IPv6 & IPv4"
    <2>1. both \in Forms /\ both.Channel = c /\ ButFor({"Channel"}, form, both)
      <3>1. both \in Forms
        BY <1>2 DEF Forms
      <3>2. both.Channel = c
        BY <1>2 DEF Forms
      <3>3. ButFor({"Channel"}, form, both)
        BY <1>2 DEF Forms, ButFor
      <3>. QED
        BY <3>1, <3>2, <3>3
    <2>2. Ask("mpbgp_support", both)
      BY <1>4 DEF PostSessionType
    <2>. HIDE DEF both
    <2>3. ChannelReady("mpbgp_support", both, kind)
      BY <1>2, <1>4, <2>1 DEF Ready, ChannelReady, ChannelFits, ButFor, RegionSteps
    <2>4. AddressReady("mpbgp_support", both, kind)
      BY DEF AddressReady, RegionSteps, EndpointSteps, LateSteps
    <2>5. ButFor(SessionFields, form, both)
      BY <2>1 DEF ButFor, SessionFields
    <2>. QED
      BY <1>1, <1>3, <2>1, <2>2, <2>3, <2>4, <2>5, SessionAnswered
  <1>5. CASE c = "IPv6 only"
    <2>1. /\ one \in Forms /\ one.Channel = c /\ one.MPBGP = "Not supported" /\ one.ENH = None
          /\ ButFor({"Channel", "MPBGP", "ENH"}, form, one)
      <3>1. one \in Forms
        BY <1>2, ValuesAre DEF Forms
      <3>2. one.Channel = c /\ one.MPBGP = "Not supported" /\ one.ENH = None
        BY <1>2 DEF Forms
      <3>3. ButFor({"Channel", "MPBGP", "ENH"}, form, one)
        BY <1>2 DEF Forms, ButFor
      <3>. QED
        BY <3>1, <3>2, <3>3
    <2>2. Ask("ipv6", one)
      BY <1>5 DEF PostSessionType
    <2>. HIDE DEF one
    <2>3. ChannelReady("ipv6", one, kind)
      BY <1>5, <2>1 DEF ChannelReady, ChannelFits, Channels, RegionSteps
    <2>4. AddressReady("ipv6", one, kind)
      BY <1>5, <2>1 DEF AddressReady, NeedsIPv6, RegionSteps, EndpointSteps, LateSteps
    <2>5. ButFor(SessionFields, form, one)
      BY <2>1 DEF ButFor, SessionFields
    <2>. QED
      BY <1>1, <1>3, <2>1, <2>2, <2>3, <2>4, <2>5, SessionAnswered
  <1>6. CASE c = "IPv4 only"
    <2>1. /\ four \in Forms /\ four.Channel = c /\ four.MPBGP = "Not supported" /\ four.ENH = None
          /\ four.IPv6 = NotEnabled
          /\ ButFor({"Channel", "MPBGP", "ENH", "IPv6"}, form, four)
      <3>1. four \in Forms
        BY <1>2, ValuesAre DEF Forms
      <3>2. four.Channel = c /\ four.MPBGP = "Not supported" /\ four.ENH = None /\ four.IPv6 = NotEnabled
        BY <1>2 DEF Forms
      <3>3. ButFor({"Channel", "MPBGP", "ENH", "IPv6"}, form, four)
        BY <1>2 DEF Forms, ButFor
      <3>. QED
        BY <3>1, <3>2, <3>3
    <2>2. Ask("ipv4", four)
      BY <1>6 DEF PostSessionType
    <2>. HIDE DEF four
    <2>3. ChannelReady("ipv4", four, kind)
      BY <1>6, <2>1 DEF ChannelReady, ChannelFits, Channels, RegionSteps
    <2>4. AddressReady("ipv4", four, kind)
      BY <1>6, <2>1 DEF AddressReady, NeedsIPv6, NeedsIPv4, IPv6Fits, RegionSteps, EndpointSteps,
                        LateSteps, NotEnabled
    <2>5. ButFor(SessionFields, form, four)
      BY <2>1 DEF ButFor, SessionFields
    <2>. QED
      BY <1>1, <1>3, <2>1, <2>2, <2>3, <2>4, <2>5, SessionAnswered
  <1>. QED
    BY <1>4, <1>5, <1>6 DEF Channels

LEMMA MpbgpSupportKeeps ==
  ASSUME FormInv, NEW yes \in BOOLEAN, PostMpbgpSupport(yes)
  PROVE  FormInv'
  <1>. DEFINE plain == [form EXCEPT !.MPBGP = "Not supported", !.ENH = None]
  <1>1. step = "mpbgp_support"
    BY DEF PostMpbgpSupport
  <1>2. Ready("mpbgp_support", form, kind, privileged, touched, backup) /\ form \in Forms
    BY <1>1, Answered, QuestionsAre
  <1>3. /\ "mpbgp_support" \in SessionSteps /\ "mpbgp_support" \notin AddressSteps
        /\ "mpbgp_type" \in SessionSteps /\ "ipv6" \in AddressSteps
        /\ Leads("mpbgp_support", "mpbgp_type") /\ Leads("mpbgp_support", "ipv6")
    BY DEF Leads, SessionSteps, AddressSteps
  <1>4. CASE yes
    <2>1. Ask("mpbgp_type", form)
      BY <1>4 DEF PostMpbgpSupport
    <2>2. ChannelReady("mpbgp_type", form, kind) /\ ButFor(SessionFields, form, form)
      BY <1>2 DEF Ready, ChannelReady, RegionSteps, ButFor
    <2>3. AddressReady("mpbgp_type", form, kind)
      BY DEF AddressReady, RegionSteps, EndpointSteps, LateSteps
    <2>. QED
      BY <1>1, <1>2, <1>3, <2>1, <2>2, <2>3, SessionAnswered
  <1>5. CASE ~yes
    <2>1. /\ plain \in Forms /\ plain.MPBGP = "Not supported" /\ plain.ENH = None
          /\ ButFor({"MPBGP", "ENH"}, form, plain)
      <3>1. plain \in Forms
        BY <1>2, ValuesAre DEF Forms
      <3>2. plain.MPBGP = "Not supported" /\ plain.ENH = None
        BY <1>2 DEF Forms
      <3>3. ButFor({"MPBGP", "ENH"}, form, plain)
        BY <1>2 DEF Forms, ButFor
      <3>. QED
        BY <3>1, <3>2, <3>3
    <2>2. Ask("ipv6", plain)
      BY <1>5 DEF PostMpbgpSupport
    <2>. HIDE DEF plain
    <2>3. ChannelReady("ipv6", plain, kind)
      BY <1>2, <2>1 DEF Ready, ChannelReady, ChannelFits, Channels, RegionSteps, ButFor
    <2>4. AddressReady("ipv6", plain, kind)
      BY <1>2, <2>1 DEF Ready, ChannelReady, AddressReady, NeedsIPv6, RegionSteps, EndpointSteps,
                        LateSteps, ButFor
    <2>5. ButFor(SessionFields, form, plain)
      BY <2>1 DEF ButFor, SessionFields
    <2>. QED
      BY <1>1, <1>3, <2>1, <2>2, <2>3, <2>4, <2>5, SessionAnswered
  <1>. QED
    BY <1>4, <1>5

LEMMA MpbgpTypeKeeps ==
  ASSUME FormInv, NEW t \in {"IPv6", "IPv4"}, PostMpbgpType(t)
  PROVE  FormInv'
  <1>. DEFINE six == [form EXCEPT !.MPBGP = t]
              four == [form EXCEPT !.MPBGP = t, !.ENH = None]
  <1>1. step = "mpbgp_type"
    BY DEF PostMpbgpType
  <1>2. Ready("mpbgp_type", form, kind, privileged, touched, backup) /\ form \in Forms
    BY <1>1, Answered, QuestionsAre
  <1>3. /\ "mpbgp_type" \in SessionSteps /\ "mpbgp_type" \notin AddressSteps
        /\ "enh" \in SessionSteps /\ "ipv6" \in AddressSteps
        /\ Leads("mpbgp_type", "enh") /\ Leads("mpbgp_type", "ipv6")
    BY DEF Leads, SessionSteps, AddressSteps
  <1>4. CASE t = "IPv6"
    <2>1. six \in Forms /\ six.MPBGP = "IPv6" /\ ButFor({"MPBGP"}, form, six)
      <3>1. six \in Forms
        <4>1. t \in Multiprotocol
          BY <1>4, ValuesAre
        <4>. QED
          BY <1>2, <4>1, MpbgpUpdated
      <3>2. six.MPBGP = "IPv6"
        BY <1>2, <1>4 DEF Forms
      <3>3. ButFor({"MPBGP"}, form, six)
        BY <1>2, <1>4 DEF Forms, ButFor
      <3>. QED
        BY <3>1, <3>2, <3>3
    <2>2. Ask("enh", six)
      BY <1>4 DEF PostMpbgpType
    <2>. HIDE DEF six
    <2>3. ChannelReady("enh", six, kind)
      BY <1>2, <2>1 DEF Ready, ChannelReady, RegionSteps, ButFor
    <2>4. AddressReady("enh", six, kind)
      BY DEF AddressReady, RegionSteps, EndpointSteps, LateSteps
    <2>5. ButFor(SessionFields, form, six)
      BY <2>1 DEF ButFor, SessionFields
    <2>. QED
      BY <1>1, <1>3, <2>1, <2>2, <2>3, <2>4, <2>5, SessionAnswered
  <1>5. CASE t = "IPv4"
    <2>1. /\ four \in Forms /\ four.MPBGP = "IPv4" /\ four.ENH = None
          /\ ButFor({"MPBGP", "ENH"}, form, four)
      <3>1. four \in Forms
        <4>1. t \in Multiprotocol /\ None \in BOOLEAN \cup {None}
          BY <1>5, ValuesAre
        <4>. QED
          BY <1>2, <4>1, MpbgpEnhUpdated
      <3>2. four.MPBGP = "IPv4" /\ four.ENH = None
        BY <1>2, <1>5 DEF Forms
      <3>3. ButFor({"MPBGP", "ENH"}, form, four)
        BY <1>2, <1>5 DEF Forms, ButFor
      <3>. QED
        BY <3>1, <3>2, <3>3
    <2>2. Ask("ipv6", four)
      BY <1>5 DEF PostMpbgpType
    <2>. HIDE DEF four
    <2>3. ChannelReady("ipv6", four, kind)
      BY <1>2, <2>1 DEF Ready, ChannelReady, ChannelFits, Channels, RegionSteps, ButFor
    <2>4. AddressReady("ipv6", four, kind)
      BY <1>2, <2>1 DEF Ready, ChannelReady, AddressReady, NeedsIPv6, RegionSteps, EndpointSteps,
                        LateSteps, ButFor
    <2>5. ButFor(SessionFields, form, four)
      BY <2>1 DEF ButFor, SessionFields
    <2>. QED
      BY <1>1, <1>3, <2>1, <2>2, <2>3, <2>4, <2>5, SessionAnswered
  <1>. QED
    BY <1>4, <1>5

LEMMA EnhKeeps ==
  ASSUME FormInv, NEW yes \in BOOLEAN, PostEnh(yes)
  PROVE  FormInv'
  <1>. DEFINE v == IF yes THEN ViaENH ELSE form.IPv4
              f == [form EXCEPT !.ENH = yes, !.IPv4 = v]
  <1>1. step = "enh" /\ Ask("ipv6", f)
    BY DEF PostEnh
  <1>2. Ready("enh", form, kind, privileged, touched, backup) /\ form \in Forms
    BY <1>1, Answered, QuestionsAre
  <1>3. f \in Forms /\ f.ENH # None /\ ButFor({"ENH", "IPv4"}, form, f)
    <2>1. f.ENH = yes /\ ButFor({"ENH", "IPv4"}, form, f)
      BY <1>2 DEF Forms, ButFor
    <2>2. v \in Addresses4 /\ yes \in BOOLEAN \cup {None}
      BY <1>2, ValuesAre DEF Forms
    <2>. HIDE DEF v
    <2>3. f \in Forms
      BY <1>2, <2>2, EnhUpdated
    <2>. QED
      BY <2>1, <2>3, EarlierAssumption
  <1>. HIDE DEF f
  <1>4. ChannelReady("ipv6", f, kind)
    BY <1>2, <1>3 DEF Ready, ChannelReady, ChannelFits, Channels, RegionSteps, ButFor
  <1>5. AddressReady("ipv6", f, kind)
    BY <1>2, <1>3 DEF Ready, ChannelReady, AddressReady, NeedsIPv6, RegionSteps, EndpointSteps,
                      LateSteps, ButFor
  <1>6. ButFor(SessionFields, form, f)
    BY <1>3 DEF ButFor, SessionFields
  <1>7. /\ "enh" \in SessionSteps /\ "enh" \notin AddressSteps /\ "ipv6" \in AddressSteps
        /\ Leads("enh", "ipv6")
    BY DEF Leads, SessionSteps, AddressSteps
  <1>. QED
    BY <1>1, <1>3, <1>4, <1>5, <1>6, <1>7, SessionAnswered

(* The IPv6 address is there; the IPv4 address is asked for or not needed. *)
LEMMA AfterIPv6Keeps ==
  ASSUME FormInv, NEW s \in {"ipv6", "request_linklocal"}, step = s,
         NEW f \in Forms, ButFor({"IPv6", "RequestLL"}, form, f),
         f.IPv6 # NotEnabled, f.IPv6 = "lla" => f.RequestLL # NotRequired, AfterIPv6(f)
  PROVE  FormInv'
  <1>. DEFINE g == [f EXCEPT !.IPv4 = NotEnabled]
  <1>1. Ready(s, form, kind, privileged, touched, backup) /\ form \in Forms
    BY Answered, QuestionsAre
  <1>2. ChannelFits(f) /\ NeedsIPv6(f) /\ IPv6Fits(f)
    BY <1>1 DEF Ready, ButFor, ChannelReady, ChannelFits, AddressReady, NeedsIPv6, IPv6Fits, RegionSteps
  <1>3. /\ s \in AddressSteps /\ "ipv4" \in AddressSteps
        /\ Leads(s, "ipv4") /\ Leads(s, "clearnet")
    BY DEF Leads, AddressSteps
  <1>4. ButFor(SessionFields, form, f) /\ f.Channel = form.Channel /\ f.MPBGP = form.MPBGP
    BY DEF ButFor, SessionFields
  <1>5. CASE f.Channel = "IPv6 & IPv4" /\ f.ENH # TRUE
    <2>1. Ask("ipv4", f)
      BY <1>5 DEF AfterIPv6
    <2>2. ChannelReady("ipv4", f, kind)
      BY <1>2 DEF ChannelReady, RegionSteps
    <2>3. AddressReady("ipv4", f, kind)
      BY <1>2, <1>5 DEF AddressReady, NeedsIPv4, RegionSteps, EndpointSteps, LateSteps
    <2>. QED
      BY <1>3, <1>4, <2>1, <2>2, <2>3, SessionAnswered
  <1>6. CASE ~(f.Channel = "IPv6 & IPv4" /\ f.ENH # TRUE)
    <2>1. Ask("clearnet", g)
      BY <1>6 DEF AfterIPv6
    <2>2. g \in Forms /\ g.IPv4 = NotEnabled /\ ButFor({"IPv4"}, f, g)
      <3>1. g \in Forms
        BY ValuesAre DEF Forms
      <3>2. g.IPv4 = NotEnabled
        BY DEF Forms
      <3>3. ButFor({"IPv4"}, f, g)
        BY DEF Forms, ButFor
      <3>. QED
        BY <3>1, <3>2, <3>3
    <2>. HIDE DEF g
    <2>3. ChannelReady("clearnet", g, kind)
      BY <1>2, <2>2 DEF ChannelReady, ChannelFits, RegionSteps, ButFor
    <2>4. AddressReady("clearnet", g, kind)
      BY <1>2, <1>6, <2>2 DEF AddressReady, NeedsIPv4, NeedsIPv6, IPv6Fits, IPv4Fits, ButFor
    <2>5. ButFor(SessionFields, form, g) /\ g.Channel = form.Channel /\ g.MPBGP = form.MPBGP
      BY <1>4, <2>2 DEF ButFor, SessionFields
    <2>. QED
      BY <1>3, <2>1, <2>2, <2>3, <2>4, <2>5, SessionAnswered
  <1>. QED
    BY <1>5, <1>6

LEMMA IPv6Keeps ==
  ASSUME FormInv, NEW a \in {"lla", "ula"}, PostIPv6(a)
  PROVE  FormInv'
  <1>. DEFINE lla == [form EXCEPT !.IPv6 = a]
              ula == [form EXCEPT !.IPv6 = a, !.RequestLL = NotRequired]
  <1>1. step = "ipv6"
    BY DEF PostIPv6
  <1>2. Ready("ipv6", form, kind, privileged, touched, backup) /\ form \in Forms
    BY <1>1, Answered, QuestionsAre
  <1>3. CASE a = "lla"
    <2>1. lla \in Forms /\ lla.IPv6 = "lla" /\ ButFor({"IPv6"}, form, lla)
      <3>1. lla \in Forms
        <4>1. a \in Addresses6
          BY <1>3, ValuesAre
        <4>. QED
          BY <1>2, <4>1, IPv6Updated
      <3>2. lla.IPv6 = "lla"
        BY <1>2, <1>3 DEF Forms
      <3>3. ButFor({"IPv6"}, form, lla)
        BY <1>2, <1>3 DEF Forms, ButFor
      <3>. QED
        BY <3>1, <3>2, <3>3
    <2>2. Ask("request_linklocal", lla)
      BY <1>3 DEF PostIPv6
    <2>. HIDE DEF lla
    <2>3. ChannelReady("request_linklocal", lla, kind)
      BY <1>2, <2>1 DEF Ready, ChannelReady, ChannelFits, RegionSteps, ButFor
    <2>4. AddressReady("request_linklocal", lla, kind)
      BY <1>2, <2>1 DEF Ready, AddressReady, NeedsIPv6, RegionSteps, EndpointSteps, LateSteps, ButFor
    <2>5. ButFor(SessionFields, form, lla) /\ lla.Channel = form.Channel /\ lla.MPBGP = form.MPBGP
      BY <2>1 DEF ButFor, SessionFields
    <2>6. /\ "ipv6" \in AddressSteps /\ "request_linklocal" \in AddressSteps
          /\ Leads("ipv6", "request_linklocal")
      BY DEF Leads, AddressSteps
    <2>. QED
      BY <1>1, <2>1, <2>2, <2>3, <2>4, <2>5, <2>6, SessionAnswered
  <1>4. CASE a = "ula"
    <2>1. ula \in Forms /\ ula.IPv6 = "ula" /\ ButFor({"IPv6", "RequestLL"}, form, ula)
      <3>1. ula \in Forms
        <4>1. a \in Addresses6 /\ NotRequired \in LLAs \cup {NotRequired}
          BY <1>4, ValuesAre
        <4>. QED
          BY <1>2, <4>1, IPv6RequestUpdated
      <3>2. ula.IPv6 = "ula"
        BY <1>2, <1>4 DEF Forms
      <3>3. ButFor({"IPv6", "RequestLL"}, form, ula)
        BY <1>2, <1>4 DEF Forms, ButFor
      <3>. QED
        BY <3>1, <3>2, <3>3
    <2>2. AfterIPv6(ula)
      BY <1>4 DEF PostIPv6
    <2>. HIDE DEF ula
    <2>. QED
      BY <1>1, <2>1, <2>2, AfterIPv6Keeps DEF NotEnabled
  <1>. QED
    BY <1>3, <1>4

LEMMA RequestLinkLocalKeeps ==
  ASSUME FormInv, NEW l \in LLAs, PostRequestLinkLocal(l)
  PROVE  FormInv'
  <1>. DEFINE f == [form EXCEPT !.RequestLL = l]
  <1>1. step = "request_linklocal" /\ AfterIPv6(f)
    BY DEF PostRequestLinkLocal
  <1>2. Ready("request_linklocal", form, kind, privileged, touched, backup) /\ form \in Forms
    BY <1>1, Answered, QuestionsAre
  <1>3. f \in Forms /\ f.RequestLL = l /\ f.IPv6 = form.IPv6 /\ ButFor({"IPv6", "RequestLL"}, form, f)
    <2>1. f \in Forms
      BY <1>2 DEF Forms
    <2>2. f.RequestLL = l /\ f.IPv6 = form.IPv6
      BY <1>2 DEF Forms
    <2>3. ButFor({"IPv6", "RequestLL"}, form, f)
      BY <1>2 DEF Forms, ButFor
    <2>. QED
      BY <2>1, <2>2, <2>3
  <1>. HIDE DEF f
  <1>4. f.IPv6 = "lla" /\ f.RequestLL # NotRequired
    BY <1>2, <1>3, EarlierAssumption DEF Ready, AddressReady
  <1>. QED
    BY <1>1, <1>3, <1>4, AfterIPv6Keeps DEF NotEnabled

LEMMA IPv4Keeps ==
  ASSUME FormInv, PostIPv4
  PROVE  FormInv'
  <1>. DEFINE f == [form EXCEPT !.IPv4 = "addr"]
  <1>1. step = "ipv4" /\ Ask("clearnet", f)
    BY DEF PostIPv4
  <1>2. Ready("ipv4", form, kind, privileged, touched, backup) /\ form \in Forms
    BY <1>1, Answered, QuestionsAre
  <1>3. f \in Forms /\ f.IPv4 = "addr" /\ ButFor({"IPv4"}, form, f)
    <2>1. f \in Forms
      BY <1>2, ValuesAre DEF Forms
    <2>2. f.IPv4 = "addr"
      BY <1>2 DEF Forms
    <2>3. ButFor({"IPv4"}, form, f)
      BY <1>2 DEF Forms, ButFor
    <2>. QED
      BY <2>1, <2>2, <2>3
  <1>. HIDE DEF f
  <1>4. ChannelReady("clearnet", f, kind)
    BY <1>2, <1>3 DEF Ready, ChannelReady, ChannelFits, RegionSteps, ButFor
  <1>5. AddressReady("clearnet", f, kind)
    BY <1>2, <1>3 DEF Ready, AddressReady, NeedsIPv4, NeedsIPv6, IPv6Fits, IPv4Fits, ButFor
  <1>6. ButFor(SessionFields, form, f) /\ f.Channel = form.Channel /\ f.MPBGP = form.MPBGP
    BY <1>3 DEF ButFor, SessionFields
  <1>7. "ipv4" \in AddressSteps /\ Leads("ipv4", "clearnet")
    BY DEF Leads, AddressSteps
  <1>. QED
    BY <1>1, <1>3, <1>4, <1>5, <1>6, <1>7, SessionAnswered

(* The endpoint and what follows: the session stays as it is.              *)
LateFields == {"Clearnet", "PublicKey", "PresharedKey", "Port", "MTU"}

LEMMA LateAnswered ==
  ASSUME FormInv, NEW s \in EndpointSteps \cup (LateSteps \ {"confirm"}), step = s,
         NEW next \in {"clearnet_port", "port_myside"} \cup LateSteps, Leads(s, next),
         NEW f \in Forms, ButFor(LateFields, form, f),
         RestReady(next, f, kind, privileged),
         kind = "modify" => Kept(f, privileged, touched, backup),
         Ask(next, f)
  PROVE  FormInv'
  <1>1. s \in Questions \ {"confirm"} /\ next \in Questions
    BY QuestionsAre DEF EndpointSteps, LateSteps
  <1>2. Ready(s, form, kind, privileged, touched, backup)
    BY <1>1, Answered
  <1>3. ChannelReady(next, f, kind)
    BY <1>2 DEF Ready, ButFor, LateFields, ChannelReady, ChannelFits, RegionSteps, EndpointSteps,
                LateSteps
  <1>4. AddressReady(next, f, kind)
    BY <1>2 DEF Ready, ButFor, LateFields, AddressReady, IPv6Fits, IPv4Fits, NeedsIPv6, NeedsIPv4,
                RegionSteps, EndpointSteps, LateSteps
  <1>. QED
    BY <1>1, <1>3, <1>4, Answered DEF Ready

LEMMA LateItems ==
  /\ ItemsOf("clearnet") = {"Clearnet Endpoint"} /\ ItemsOf("port_myside") = {"Clearnet Endpoint"}
  /\ ItemsOf("pubkey") = {"WireGuard PublicKey"} /\ ItemsOf("psk") = {"WireGuard PresharedKey"}
  /\ ItemsOf("mtu") = {"MTU"}
PROOF BY DEF ItemsOf, RegionSteps, SessionSteps, AddressSteps, EndpointSteps

LEMMA AfterClearnetKeeps ==
  ASSUME FormInv, NEW s \in EndpointSteps, step = s, NEW f \in Forms, ButFor({"Clearnet"}, form, f),
         kind = "peer" => privileged \/ Reaches(f.Region, f.Clearnet),
         kind = "modify" => Kept(f, privileged, touched, backup),
         AfterClearnet(f)
  PROVE  FormInv'
  <1>. DEFINE next == IF privileged THEN "port_myside" ELSE "pubkey"
  <1>1. Ask(next, f) /\ next \in {"port_myside", "pubkey"}
    BY DEF AfterClearnet
  <1>. HIDE DEF next
  <1>2. Leads(s, next) /\ s \in Questions \ {"confirm"} /\ s \notin RegionSteps
    BY <1>1, QuestionsAre DEF Leads, EndpointSteps, RegionSteps
  <1>3. Ready(s, form, kind, privileged, touched, backup)
    BY <1>2, Answered
  <1>4. RestReady(next, f, kind, privileged)
    BY <1>1, <1>2, <1>3 DEF Ready, RestReady, ButFor, RegionSteps, LateSteps, EndpointSteps
  <1>5. ButFor(LateFields, form, f)
    BY DEF ButFor, LateFields
  <1>6. next \in {"clearnet_port", "port_myside"} \cup LateSteps
    BY <1>1 DEF LateSteps
  <1>. QED
    BY <1>1, <1>2, <1>4, <1>5, <1>6, LateAnswered

LEMMA ClearnetNoneKeeps ==
  ASSUME FormInv, PostClearnetNone
  PROVE  FormInv'
  <1>. DEFINE f == [form EXCEPT !.Clearnet = None]
  <1>1. step = "clearnet" /\ AfterClearnet(f) /\ Reaches(form.Region, None)
    BY DEF PostClearnetNone
  <1>2. /\ Ready("clearnet", form, kind, privileged, touched, backup) /\ form \in Forms
        /\ kind = "modify" => "Clearnet Endpoint" \in touched
    BY <1>1, Answered, QuestionsAre, LateItems
  <1>3. f \in Forms /\ f.Clearnet = None /\ ButFor({"Clearnet"}, form, f)
    <2>1. f \in Forms
      BY <1>2 DEF Forms
    <2>2. f.Clearnet = None
      BY <1>2 DEF Forms
    <2>3. ButFor({"Clearnet"}, form, f)
      BY <1>2 DEF Forms, ButFor
    <2>. QED
      BY <2>1, <2>2, <2>3
  <1>. HIDE DEF f
  <1>4. Reaches(f.Region, f.Clearnet)
    BY <1>1, <1>3 DEF ButFor
  <1>5. kind = "modify" => Kept(f, privileged, touched, backup)
    BY <1>2, <1>3, <1>4 DEF Ready, Kept, ButFor
  <1>. QED
    BY <1>1, <1>3, <1>4, <1>5, AfterClearnetKeeps DEF EndpointSteps

LEMMA ClearnetKeeps ==
  ASSUME FormInv, NEW h \in Hosts, NEW withPort \in BOOLEAN, PostClearnet(h, withPort)
  PROVE  FormInv'
  <1>. DEFINE port == form.ClearnetPort \/ withPort
              f == [form EXCEPT !.Clearnet = h, !.ClearnetPort = port]
  <1>1. step = "clearnet" /\ Ask("clearnet_port", f) /\ (Reaches(form.Region, h) \/ privileged)
    BY DEF PostClearnet
  <1>2. /\ Ready("clearnet", form, kind, privileged, touched, backup) /\ form \in Forms
        /\ kind = "modify" => "Clearnet Endpoint" \in touched
    BY <1>1, Answered, QuestionsAre, LateItems
  <1>3. port \in BOOLEAN
    OBVIOUS
  <1>. HIDE DEF port
  <1>4. f \in Forms /\ f.Clearnet = h /\ ButFor({"Clearnet"}, form, f)
    <2>1. f \in Forms
      BY <1>2, <1>3 DEF Forms
    <2>2. f.Clearnet = h
      BY <1>2, <1>3 DEF Forms
    <2>3. ButFor({"Clearnet"}, form, f)
      BY <1>2, <1>3 DEF Forms, ButFor
    <2>. QED
      BY <2>1, <2>2, <2>3
  <1>. HIDE DEF f
  <1>5. privileged \/ Reaches(f.Region, f.Clearnet)
    BY <1>1, <1>4 DEF ButFor
  <1>6. kind = "modify" => Kept(f, privileged, touched, backup)
    BY <1>2, <1>4, <1>5 DEF Ready, Kept, ButFor
  <1>7. RestReady("clearnet_port", f, kind, privileged)
    BY <1>2, <1>4, <1>5 DEF Ready, RestReady, ButFor, RegionSteps
  <1>8. ButFor(LateFields, form, f)
    BY <1>4 DEF ButFor, LateFields
  <1>9. Leads("clearnet", "clearnet_port") /\ "clearnet" \in EndpointSteps
    BY DEF Leads, EndpointSteps
  <1>. QED
    BY <1>1, <1>4, <1>6, <1>7, <1>8, <1>9, LateAnswered

LEMMA ClearnetPortKeeps ==
  ASSUME FormInv, PostClearnetPort
  PROVE  FormInv'
  <1>1. step = "clearnet_port" /\ AfterClearnet(form)
    BY DEF PostClearnetPort
  <1>2. Ready("clearnet_port", form, kind, privileged, touched, backup) /\ form \in Forms
    BY <1>1, Answered, QuestionsAre
  <1>3. ButFor({"Clearnet"}, form, form)
    BY DEF ButFor
  <1>4. kind = "peer" => privileged \/ Reaches(form.Region, form.Clearnet)
    BY <1>2 DEF Ready, RestReady
  <1>5. kind = "modify" => Kept(form, privileged, touched, backup)
    BY <1>2 DEF Ready
  <1>. QED
    BY <1>1, <1>2, <1>3, <1>4, <1>5, AfterClearnetKeeps DEF EndpointSteps

LEMMA PortMysideKeeps ==
  ASSUME FormInv, NEW p \in Ports, PostPortMyside(p)
  PROVE  FormInv'
  <1>. DEFINE f == [form EXCEPT !.Port = p]
  <1>1. step = "port_myside" /\ Ask("pubkey", f)
    BY DEF PostPortMyside
  <1>2. /\ Ready("port_myside", form, kind, privileged, touched, backup) /\ form \in Forms
        /\ kind = "modify" => "Clearnet Endpoint" \in touched
    BY <1>1, Answered, QuestionsAre, LateItems
  <1>3. f \in Forms /\ ButFor({"Port"}, form, f)
    <2>1. f \in Forms
      BY <1>2 DEF Forms
    <2>2. ButFor({"Port"}, form, f)
      BY <1>2 DEF Forms, ButFor
    <2>. QED
      BY <2>1, <2>2
  <1>. HIDE DEF f
  <1>4. RestReady("pubkey", f, kind, privileged) /\ ButFor(LateFields, form, f)
    BY <1>2, <1>3 DEF Ready, RestReady, ButFor, RegionSteps, LateFields
  <1>5. kind = "modify" => Kept(f, privileged, touched, backup)
    BY <1>2, <1>3 DEF Ready, Kept, ButFor
  <1>6. Leads("port_myside", "pubkey") /\ "port_myside" \in EndpointSteps /\ "pubkey" \in LateSteps
    BY DEF Leads, EndpointSteps, LateSteps
  <1>. QED
    BY <1>1, <1>3, <1>4, <1>5, <1>6, LateAnswered

LEMMA PubkeyKeeps ==
  ASSUME FormInv, NEW k \in Keys, PostPubkey(k)
  PROVE  FormInv'
  <1>. DEFINE f == [form EXCEPT !.PublicKey = k]
  <1>1. step = "pubkey" /\ Ask("psk", f)
    BY DEF PostPubkey
  <1>2. /\ Ready("pubkey", form, kind, privileged, touched, backup) /\ form \in Forms
        /\ kind = "modify" => "WireGuard PublicKey" \in touched
    BY <1>1, Answered, QuestionsAre, LateItems
  <1>3. f \in Forms /\ f.PublicKey = k /\ ButFor({"PublicKey"}, form, f)
    <2>1. f \in Forms
      BY <1>2 DEF Forms
    <2>2. f.PublicKey = k
      BY <1>2 DEF Forms
    <2>3. ButFor({"PublicKey"}, form, f)
      BY <1>2 DEF Forms, ButFor
    <2>. QED
      BY <2>1, <2>2, <2>3
  <1>4. k # None
    BY FormAssumption
  <1>. HIDE DEF f
  <1>5. RestReady("psk", f, kind, privileged) /\ ButFor(LateFields, form, f)
    BY <1>2, <1>3, <1>4 DEF Ready, RestReady, ButFor, RegionSteps, LateSteps, LateFields
  <1>6. kind = "modify" => Kept(f, privileged, touched, backup)
    BY <1>2, <1>3 DEF Ready, Kept, ButFor
  <1>7. Leads("pubkey", "psk") /\ "pubkey" \in LateSteps /\ "psk" \in LateSteps
    BY DEF Leads, LateSteps
  <1>. QED
    BY <1>1, <1>3, <1>5, <1>6, <1>7, LateAnswered

LEMMA PskKeeps ==
  ASSUME FormInv, NEW k \in Keys \cup {None}, PostPsk(k)
  PROVE  FormInv'
  <1>. DEFINE f == [form EXCEPT !.PresharedKey = k]
  <1>1. step = "psk" /\ Ask("mtu", f)
    BY DEF PostPsk
  <1>2. /\ Ready("psk", form, kind, privileged, touched, backup) /\ form \in Forms
        /\ kind = "modify" => "WireGuard PresharedKey" \in touched
    BY <1>1, Answered, QuestionsAre, LateItems
  <1>3. f \in Forms /\ ButFor({"PresharedKey"}, form, f)
    <2>1. f \in Forms
      BY <1>2 DEF Forms
    <2>2. ButFor({"PresharedKey"}, form, f)
      BY <1>2 DEF Forms, ButFor
    <2>. QED
      BY <2>1, <2>2
  <1>. HIDE DEF f
  <1>4. RestReady("mtu", f, kind, privileged) /\ ButFor(LateFields, form, f)
    BY <1>2, <1>3 DEF Ready, RestReady, ButFor, RegionSteps, LateSteps, LateFields
  <1>5. kind = "modify" => Kept(f, privileged, touched, backup)
    BY <1>2, <1>3 DEF Ready, Kept, ButFor
  <1>6. Leads("psk", "mtu") /\ "psk" \in LateSteps /\ "mtu" \in LateSteps
    BY DEF Leads, LateSteps
  <1>. QED
    BY <1>1, <1>3, <1>4, <1>5, <1>6, LateAnswered

LEMMA MtuKeeps ==
  ASSUME FormInv, NEW m \in MTUs, PostMtu(m)
  PROVE  FormInv'
  <1>. DEFINE f == [form EXCEPT !.MTU = m]
  <1>1. step = "mtu" /\ Ask("contact", f)
    BY DEF PostMtu
  <1>2. /\ Ready("mtu", form, kind, privileged, touched, backup) /\ form \in Forms
        /\ kind = "modify" => "MTU" \in touched
    BY <1>1, Answered, QuestionsAre, LateItems
  <1>3. f \in Forms /\ f.MTU = m /\ ButFor({"MTU"}, form, f)
    <2>1. f \in Forms
      BY <1>2 DEF Forms
    <2>2. f.MTU = m
      BY <1>2 DEF Forms
    <2>3. ButFor({"MTU"}, form, f)
      BY <1>2 DEF Forms, ButFor
    <2>. QED
      BY <2>1, <2>2, <2>3
  <1>4. m # None
    BY FormAssumption
  <1>. HIDE DEF f
  <1>5. RestReady("contact", f, kind, privileged) /\ ButFor(LateFields, form, f)
    BY <1>2, <1>3, <1>4 DEF Ready, RestReady, ButFor, RegionSteps, LateSteps, LateFields
  <1>6. kind = "modify" => Kept(f, privileged, touched, backup)
    BY <1>2, <1>3 DEF Ready, Kept, ButFor
  <1>7. Leads("mtu", "contact") /\ "mtu" \in LateSteps /\ "contact" \in LateSteps
    BY DEF Leads, LateSteps
  <1>. QED
    BY <1>1, <1>3, <1>5, <1>6, <1>7, LateAnswered

LEMMA ContactKeeps ==
  ASSUME FormInv, PostContact
  PROVE  FormInv'
  <1>1. step = "contact" /\ Ask("confirm", form)
    BY DEF PostContact
  <1>2. Ready("contact", form, kind, privileged, touched, backup) /\ form \in Forms
    BY <1>1, Answered, QuestionsAre
  <1>3. RestReady("confirm", form, kind, privileged) /\ ButFor(LateFields, form, form)
    BY <1>2 DEF Ready, RestReady, RegionSteps, LateSteps, ButFor
  <1>4. kind = "modify" => Kept(form, privileged, touched, backup)
    BY <1>2 DEF Ready
  <1>5. Leads("contact", "confirm") /\ "contact" \in LateSteps /\ "confirm" \in LateSteps
    BY DEF Leads, LateSteps
  <1>. QED
    BY <1>1, <1>2, <1>3, <1>4, <1>5, LateAnswered

-----------------------------------------------------------------------------
(* The beginning and the end of a dialogue.                                *)

LEMMA InitKeeps == Init => FormInv
  <1>. SUFFICES ASSUME Init PROVE FormInv
    OBVIOUS
  <1>1. ConfInv
    <2>1. CASE conf = [n \in Nodes |-> None]
      BY <2>1 DEF ConfInv
    <2>2. CASE \E f \in Earlier : conf = [n \in Nodes |-> SetupPeer(n, f)]
      <3>1. PICK f \in Earlier : conf = [n \in Nodes |-> SetupPeer(n, f)]
        BY <2>2
      <3>2. f \in Forms /\ Complete(f)
        BY EarlierAssumption
      <3>3. \A n \in Nodes : SetupPeer(n, f) \in Confs /\ Written(n, SetupPeer(n, f))
        BY <3>2, SetupTypes DEF Written
      <3>. QED
        BY <3>1, <3>3 DEF ConfInv
    <2>. QED
      BY <2>1, <2>2 DEF Init
  <1>2. TypeOK
    <2>1. \A n \in Nodes : conf[n] # None => conf[n] \in Confs
      BY <1>1 DEF ConfInv
    <2>2. dialogues \in 0..MaxDialogues
      BY FormAssumption DEF Init
    <2>3. step \in Steps /\ kind \in {"peer", "modify"} /\ form \in Forms /\ backup \in Forms
      BY EmptyFormFacts DEF Init, Steps
    <2>. QED
      BY <2>1, <2>2, <2>3 DEF Init, TypeOK
  <1>3. DialogueInv
    BY DEF Init, DialogueInv, Resting
  <1>. QED
    BY <1>1, <1>2, <1>3 DEF FormInv

LEMMA StartPeerKeeps ==
  ASSUME FormInv, StartPeer
  PROVE  FormInv'
  <1>1. TypeOK'
    <2>1. dialogues' \in 0..MaxDialogues
      BY FormAssumption DEF FormInv, TypeOK, StartPeer, Begin
    <2>2. step' \in Steps /\ kind' \in {"peer", "modify"} /\ form' \in Forms
      BY EmptyFormFacts DEF StartPeer, Begin, Steps
    <2>. QED
      BY <2>1, <2>2 DEF FormInv, TypeOK, StartPeer, Begin
  <1>2. ConfInv'
    BY DEF FormInv, ConfInv, StartPeer
  <1>3. Ready("pre_region", EmptyForm, "peer", privileged, {}, backup)
    BY EmptyFormFacts
    DEF Ready, ChannelReady, AddressReady, RestReady, RegionSteps, EndpointSteps, LateSteps
  <1>4. DialogueInv'
    BY <1>3 DEF DialogueInv, StartPeer, Begin
  <1>. QED
    BY <1>1, <1>2, <1>4 DEF FormInv

LEMMA ReloginKeeps ==
  ASSUME FormInv, Relogin
  PROVE  FormInv'
  <1>1. TypeOK'
    BY DEF FormInv, TypeOK, Relogin
  <1>2. ConfInv'
    BY DEF FormInv, ConfInv, Relogin
  <1>3. DialogueInv'
    BY DEF FormInv, DialogueInv, Relogin, Resting
  <1>. QED
    BY <1>1, <1>2, <1>3 DEF FormInv

(* What a modification begins with.                                        *)
LEMMA OnFile ==
  ASSUME ConfInv, NEW n \in Nodes, conf[n] # None, NEW who
  PROVE  LET g == RecreatePeerInfo(n, conf[n]) IN
         /\ g \in Forms /\ Complete(g) /\ g.Region = n
         /\ Ready("action_choose", g, "modify", who, {}, g)
  <1>. DEFINE g == RecreatePeerInfo(n, conf[n])
  <1>1. g \in Forms /\ Complete(g) /\ g.Region = n
    <2>1. PICK f \in Forms : Complete(f) /\ conf[n] = SetupPeer(n, f)
      BY DEF ConfInv, Written
    <2>. DEFINE h == RecreatePeerInfo(n, SetupPeer(n, f))
    <2>2. h \in Forms /\ Complete(h) /\ h.Region = n
      BY <2>1, Readback
    <2>3. g = h
      BY <2>1
    <2>. HIDE DEF g, h
    <2>. QED
      BY <2>2, <2>3
  <1>. HIDE DEF g
  <1>2. ChannelReady("action_choose", g, "modify") /\ AddressReady("action_choose", g, "modify")
    BY <1>1 DEF Complete, ChannelReady, AddressReady
  <1>3. RestReady("action_choose", g, "modify", who) /\ Kept(g, who, {}, g)
    BY <1>1 DEF Complete, RestReady, Kept
  <1>. QED
    BY <1>1, <1>2, <1>3 DEF g, Ready

LEMMA MenuKeeps ==
  ASSUME FormInv, NEW n \in Nodes, conf[n] # None,
         form' = RecreatePeerInfo(n, conf[n]), backup' = RecreatePeerInfo(n, conf[n]),
         step' = "action_choose", kind' = "modify", stop' = None, touched' = {},
         dialogues' \in 0..MaxDialogues, UNCHANGED <<privileged, menu, conf>>
  PROVE  FormInv'
  <1>. DEFINE g == RecreatePeerInfo(n, conf[n])
  <1>1. /\ g \in Forms /\ g.Region = n
        /\ Ready("action_choose", g, "modify", privileged, {}, g)
    BY OnFile DEF FormInv
  <1>2. BackupInv'
    BY <1>1 DEF BackupInv
  <1>. HIDE DEF g
  <1>3. form' = g /\ backup' = g
    BY DEF g
  <1>4. TypeOK'
    BY <1>1, <1>3 DEF FormInv, TypeOK, Steps
  <1>5. ConfInv'
    BY DEF FormInv, ConfInv
  <1>6. DialogueInv'
    BY <1>1, <1>2, <1>3 DEF DialogueInv, StopsAt
  <1>. QED
    BY <1>4, <1>5, <1>6 DEF FormInv

LEMMA StartModifyKeeps ==
  ASSUME FormInv, StartModify
  PROVE  FormInv'
  <1>1. /\ kind' = "modify" /\ stop' = None /\ touched' = {}
        /\ dialogues' \in 0..MaxDialogues
        /\ UNCHANGED <<privileged, menu, conf>>
    BY FormAssumption DEF FormInv, TypeOK, StartModify, Begin
  <1>2. CASE Cardinality(Peered) = 1
    <2>1. PICK n \in Peered : form' = RecreatePeerInfo(n, conf[n]) /\ backup' = form' /\ step' = "action_choose"
      BY <1>2 DEF StartModify
    <2>. QED
      BY <1>1, <2>1, MenuKeeps DEF Peered
  <1>3. CASE Cardinality(Peered) # 1
    <2>1. step' = "node_choose" /\ UNCHANGED <<form, backup>>
      BY <1>3 DEF StartModify
    <2>2. TypeOK'
      BY <1>1, <2>1 DEF FormInv, TypeOK, Steps
    <2>3. ConfInv'
      BY <1>1 DEF FormInv, ConfInv
    <2>4. DialogueInv'
      BY <1>1, <2>1 DEF DialogueInv, Resting
    <2>. QED
      BY <2>2, <2>3, <2>4 DEF FormInv
  <1>. QED
    BY <1>2, <1>3

LEMMA NodeChooseKeeps ==
  ASSUME FormInv, NEW n \in Nodes, PostNodeChoose(n)
  PROVE  FormInv'
  <1>1. /\ step = "node_choose" /\ kind = "modify" /\ stop = None /\ touched = {}
        /\ dialogues \in 0..MaxDialogues
    BY DEF FormInv, TypeOK, DialogueInv, PostNodeChoose
  <1>2. UNCHANGED <<privileged, dialogues, kind, stop, menu, conf, touched>>
    BY DEF PostNodeChoose
  <1>3. CASE n \notin Peered
    <2>1. EndDialogue
      BY <1>2, <1>3 DEF PostNodeChoose, EndDialogue
    <2>. QED
      BY <2>1, EndKeeps
  <1>4. CASE n \in Peered
    <2>1. /\ form' = RecreatePeerInfo(n, conf[n]) /\ backup' = RecreatePeerInfo(n, conf[n])
          /\ step' = "action_choose"
      BY <1>4 DEF PostNodeChoose
    <2>. QED
      BY <1>1, <1>2, <1>4, <2>1, MenuKeeps DEF Peered
  <1>. QED
    BY <1>3, <1>4

(* The first question of an item is of that item, and ready to be asked    *)
(* when the menu is.                                                       *)
LEMMA FirstQuestionFacts ==
  ASSUME NEW i \in Items
  PROVE  LET q == FirstQuestion(i) IN
         /\ q \in Questions \ {"confirm"} /\ i \in ItemsOf(q)
         /\ q \notin {"mpbgp_support", "mpbgp_type", "enh", "request_linklocal"}
         /\ q = "ipv6" => form.Channel # "IPv4 only"
         /\ q = "ipv4" => form.Channel = "IPv4 only"
  <1>. DEFINE q == FirstQuestion(i)
  <1>. USE QuestionsAre
       DEF ItemsOf, RegionSteps, SessionSteps, AddressSteps, EndpointSteps, FirstQuestion
  <1>1. CASE i = "Region"
    BY <1>1
  <1>2. CASE i = "Session Type"
    BY <1>2
  <1>3. CASE i = "DN42 IP"
    BY <1>3
  <1>4. CASE i = "Clearnet Endpoint"
    BY <1>4
  <1>5. CASE i = "WireGuard PublicKey"
    BY <1>5
  <1>6. CASE i = "WireGuard PresharedKey"
    BY <1>6
  <1>7. CASE i = "Contact"
    BY <1>7
  <1>8. CASE i = "MTU"
    BY <1>8
  <1>. QED
    BY <1>1, <1>2, <1>3, <1>4, <1>5, <1>6, <1>7, <1>8 DEF Items

LEMMA ChooseItemKeeps ==
  ASSUME FormInv, NEW i \in Items, ChooseItem(i)
  PROVE  FormInv'
  <1>. DEFINE q == FirstQuestion(i)
              g == BeforeAsking(q, form)
              t == touched \cup {i}
  <1>1. /\ step' = q /\ stop' = StopSign(i) /\ form' = g /\ touched' = t
        /\ UNCHANGED <<privileged, dialogues, kind, backup, menu, conf>>
        /\ step = "action_choose"
    BY DEF ChooseItem
  <1>2. /\ kind = "modify" /\ BackupInv
        /\ Ready("action_choose", form, "modify", privileged, touched, backup)
        /\ form \in Forms
    BY <1>1 DEF FormInv, TypeOK, DialogueInv, Resting, Ready
  <1>3. /\ q \in Questions \ {"confirm"} /\ i \in ItemsOf(q)
        /\ q \notin {"mpbgp_support", "mpbgp_type", "enh", "request_linklocal"}
        /\ q = "ipv6" => form.Channel # "IPv4 only"
        /\ q = "ipv4" => form.Channel = "IPv4 only"
    BY FirstQuestionFacts
  <1>4. g \in Forms /\ ButFor({}, form, g)
    BY <1>2, BeforeAskingFacts
  <1>. HIDE DEF q, g
  <1>5. Ready(q, form, "modify", privileged, t, backup)
    <2>1. ChannelReady(q, form, "modify")
      BY <1>2, <1>3 DEF Ready, ChannelReady
    <2>2. AddressReady(q, form, "modify")
      BY <1>2, <1>3 DEF Ready, AddressReady, NeedsIPv6, NeedsIPv4
    <2>3. RestReady(q, form, "modify", privileged)
      BY <1>2 DEF Ready, RestReady
    <2>4. Kept(form, privileged, t, backup)
      BY <1>2 DEF Ready, Kept
    <2>. QED
      BY <1>2, <2>1, <2>2, <2>3, <2>4 DEF Ready
  <1>6. Ready(q, g, "modify", privileged, t, backup)
    BY <1>4, <1>5, ReadySame
  <1>7. TypeOK'
    <2>1. StopSign(i) \in Steps
      BY SignsAre DEF Signs, Steps
    <2>. QED
      BY <1>1, <1>3, <1>4, <2>1 DEF FormInv, TypeOK, Questions
  <1>8. ConfInv'
    BY <1>1 DEF FormInv, ConfInv
  <1>9. BackupInv'
    BY <1>1, <1>2 DEF BackupInv
  <1>10. StopsAt(q, StopSign(i), t)
    BY <1>3 DEF StopsAt, Questions
  <1>11. DialogueInv'
    BY <1>1, <1>2, <1>3, <1>6, <1>9, <1>10 DEF DialogueInv, Questions
  <1>. QED
    BY <1>7, <1>8, <1>11 DEF FormInv

LEMMA FinishKeeps ==
  ASSUME FormInv, Finish
  PROVE  FormInv'
  <1>1. step = "action_choose" /\ Ask("confirm", form)
    BY DEF Finish
  <1>2. /\ kind = "modify" /\ form \in Forms
        /\ Ready("action_choose", form, "modify", privileged, touched, backup)
        /\ StopsAt("action_choose", stop, touched)
    BY <1>1 DEF FormInv, TypeOK, DialogueInv, Resting
  <1>3. Ready("confirm", form, "modify", privileged, touched, backup)
    BY <1>2 DEF Ready, ChannelReady, AddressReady, RestReady, LateSteps, RegionSteps
  <1>4. StopsAt("confirm", stop, touched)
    BY <1>2 DEF StopsAt
  <1>. QED
    BY <1>1, <1>2, <1>3, <1>4, AskKeeps, QuestionsAre DEF Resting

(* A form that is confirmed is complete.                                   *)
LEMMA ConfirmedIsComplete ==
  ASSUME FormInv, step = "confirm"
  PROVE  /\ form \in Forms /\ Complete(form) /\ form.Region \in Nodes
         /\ Ready("confirm", form, kind, privileged, touched, backup)
  <1>1. Ready("confirm", form, kind, privileged, touched, backup)
    BY DEF FormInv, DialogueInv, Resting
  <1>. QED
    BY <1>1 DEF Ready, ChannelReady, AddressReady, RestReady, Complete, LateSteps, RegionSteps

(* What a submission leaves on file.                                       *)
LEMMA SubmitFacts ==
  ASSUME FormInv, Submit
  PROVE  LET r == form.Region
             added == [conf EXCEPT ![r] = SetupPeer(r, form)] IN
         /\ step = "confirm" /\ step' = "idle"
         /\ UNCHANGED <<privileged, dialogues, kind, form, backup, stop, menu, touched>>
         /\ \/ conf' = conf
            \/ conf' = added
            \/ kind = "modify" /\ conf' = [added EXCEPT ![backup.Region] = None]
PROOF BY DEF Submit, Moved

LEMMA SubmitKeeps ==
  ASSUME FormInv, Submit
  PROVE  FormInv'
  <1>. DEFINE r == form.Region
              c == SetupPeer(r, form)
  <1>1. form \in Forms /\ Complete(form) /\ r \in Nodes
    BY SubmitFacts, ConfirmedIsComplete
  <1>2. c \in Confs /\ Written(r, c)
    BY <1>1, SetupTypes DEF Written
  <1>3. conf \in [Nodes -> Confs \cup {None}]
    BY DEF FormInv, ConfInv
  <1>4. /\ conf' \in [Nodes -> Confs \cup {None}]
        /\ \A n \in Nodes : conf'[n] \in {None, conf[n]} \/ (n = r /\ conf'[n] = c)
    <2>. HIDE DEF r, c
    <2>1. \/ conf' = conf
          \/ conf' = [conf EXCEPT ![r] = c]
          \/ conf' = [[conf EXCEPT ![r] = c] EXCEPT ![backup.Region] = None]
      BY SubmitFacts DEF r, c
    <2>. QED
      BY <1>2, <1>3, <2>1
  <1>5. ConfInv'
    BY <1>2, <1>4 DEF FormInv, ConfInv
  <1>6. TypeOK'
    <2>1. \A n \in Nodes : conf'[n] # None => conf'[n] \in Confs
      BY <1>4
    <2>. QED
      BY <2>1, SubmitFacts DEF FormInv, TypeOK, Steps
  <1>7. DialogueInv'
    BY SubmitFacts DEF FormInv, DialogueInv, Resting
  <1>. QED
    BY <1>5, <1>6, <1>7 DEF FormInv

LEMMA StutterKeeps ==
  ASSUME FormInv, UNCHANGED vars
  PROVE  FormInv'
  <1>. USE DEF vars
  <1>1. TypeOK'
    BY DEF FormInv, TypeOK
  <1>2. ConfInv'
    BY DEF FormInv, ConfInv
  <1>3. DialogueInv'
    BY DEF FormInv, DialogueInv, BackupInv
  <1>. QED
    BY <1>1, <1>2, <1>3 DEF FormInv

LEMMA FormStep == FormInv /\ [Next]_vars => FormInv'
  <1>. SUFFICES ASSUME FormInv, [Next]_vars PROVE FormInv'
    OBVIOUS
  <1>1. CASE StartPeer \/ StartModify \/ Relogin
    BY <1>1, StartPeerKeeps, StartModifyKeeps, ReloginKeeps
  <1>2. CASE PreRegion \/ \E n \in Nodes : PostNodeChoose(n) \/ PostRegion(n)
    BY <1>2, PreRegionKeeps, NodeChooseKeeps, PostRegionKeeps
  <1>3. CASE Finish \/ Cancel \/ Submit \/ \E i \in Items : ChooseItem(i)
    BY <1>3, FinishKeeps, EndKeeps, SubmitKeeps, ChooseItemKeeps DEF Cancel
  <1>4. CASE \/ \E c \in Channels : PostSessionType(c)
             \/ \E yes \in BOOLEAN : PostMpbgpSupport(yes) \/ PostEnh(yes)
             \/ \E t \in {"IPv6", "IPv4"} : PostMpbgpType(t)
    BY <1>4, SessionTypeKeeps, MpbgpSupportKeeps, EnhKeeps, MpbgpTypeKeeps
  <1>5. CASE \/ \E a \in {"lla", "ula"} : PostIPv6(a)
             \/ \E l \in LLAs : PostRequestLinkLocal(l)
             \/ PostIPv4
    BY <1>5, IPv6Keeps, RequestLinkLocalKeeps, IPv4Keeps
  <1>6. CASE \/ PostClearnetNone \/ PostClearnetPort
             \/ \E h \in Hosts, withPort \in BOOLEAN : PostClearnet(h, withPort)
             \/ \E p \in Ports : PostPortMyside(p)
    BY <1>6, ClearnetNoneKeeps, ClearnetPortKeeps, ClearnetKeeps, PortMysideKeeps
  <1>7. CASE \/ \E k \in Keys : PostPubkey(k)
             \/ \E k \in Keys \cup {None} : PostPsk(k)
             \/ \E m \in MTUs : PostMtu(m)
             \/ PostContact
    BY <1>7, PubkeyKeeps, PskKeeps, MtuKeeps, ContactKeeps
  <1>8. CASE UNCHANGED vars
    BY <1>8, StutterKeeps
  <1>. QED
    BY <1>1, <1>2, <1>3, <1>4, <1>5, <1>6, <1>7, <1>8 DEF Next

-----------------------------------------------------------------------------
(* What follows from the invariant.                                        *)

(* The inductive invariant: every dialogue keeps the form ready for its    *)
(* next question, and what is on file comes from a complete form.          *)
THEOREM FormInvariant == Spec => []FormInv
  <1>. QED
    BY InitKeeps, FormStep, PTL DEF Spec

(* The types of the dialogue, and what is on file at an agent is complete. *)
THEOREM FormTypesHold == Spec => []TypeOK
  <1>1. FormInv => TypeOK
    BY DEF FormInv
  <1>. QED
    BY <1>1, FormInvariant, PTL

(* A session talks to the address of its own family.                       *)
LEMMA OneSession ==
  ASSUME NEW f, NEW only
  PROVE  /\ Session(f, 6, only).version = 6 /\ Session(f, 6, only).neighbor = f.IPv6
         /\ Session(f, 4, only).version = 4 /\ Session(f, 4, only).neighbor = f.IPv4
  <1>1. Session(f, 6, only).version = 6
    BY DEF Session
  <1>2. Session(f, 6, only).neighbor = f.IPv6
    BY DEF Session
  <1>3. Session(f, 4, only).version = 4
    BY DEF Session
  <1>4. Session(f, 4, only).neighbor = f.IPv4
    BY DEF Session
  <1>. QED
    BY <1>1, <1>2, <1>3, <1>4

(* Each BGP session on file has a neighbour of its own family to which the *)
(* tunnel leads (setup_peer and gen_bird_protocol of the agent).           *)
THEOREM NeighborsAreThere == Spec => []SessionsHaveNeighbors
  <1>1. ASSUME NEW n \in Nodes, NEW f \in Forms, Complete(f)
        PROVE  LET c == SetupPeer(n, f) IN
               /\ c.sessions # {}
               /\ \A s \in c.sessions :
                    s.neighbor # NotEnabled
                    /\ s.neighbor = (IF s.version = 6 THEN c.peerV6 ELSE c.peerV4)
    <2>. DEFINE c == SetupPeer(n, f)
    <2>1. /\ c.peerV6 = IF f.IPv6 = NotEnabled THEN None ELSE f.IPv6
          /\ c.peerV4 = IF f.IPv4 = "addr" THEN "addr" ELSE None
          /\ c.sessions = Sessions(f)
      BY <1>1, SetupFields, SessionsOfForm DEF Complete, ChannelFits
    <2>. HIDE DEF c
    <2>3. ASSUME NEW s \in Sessions(f)
          PROVE  \/ s.version = 6 /\ NeedsIPv6(f) /\ s.neighbor = f.IPv6
                 \/ s.version = 4 /\ NeedsIPv4(f) /\ s.neighbor = f.IPv4
      <3>1. f.MPBGP # "IPv6" => f.ENH # TRUE
        BY <1>1, EarlierAssumption DEF Complete, ChannelFits
      <3>2. \/ s = Session(f, 6, TRUE) /\ NeedsIPv6(f)
            \/ s = Session(f, 4, TRUE) /\ NeedsIPv4(f)
            \/ s = Session(f, 6, FALSE) /\ NeedsIPv6(f)
            \/ s = Session(f, 4, FALSE) /\ NeedsIPv4(f)
        BY <1>1, <3>1 DEF Complete, ChannelFits, Channels, Sessions, NeedsIPv6, NeedsIPv4
      <3>3. CASE s = Session(f, 6, TRUE) /\ NeedsIPv6(f)
        BY <3>3, OneSession
      <3>4. CASE s = Session(f, 4, TRUE) /\ NeedsIPv4(f)
        BY <3>4, OneSession
      <3>5. CASE s = Session(f, 6, FALSE) /\ NeedsIPv6(f)
        BY <3>5, OneSession
      <3>6. CASE s = Session(f, 4, FALSE) /\ NeedsIPv4(f)
        BY <3>6, OneSession
      <3>. QED
        BY <3>2, <3>3, <3>4, <3>5, <3>6, Zenon
    <2>4. NeedsIPv6(f) => f.IPv6 # NotEnabled
      BY <1>1 DEF Complete, IPv6Fits
    <2>5. NeedsIPv4(f) => f.IPv4 = "addr" /\ f.IPv4 # NotEnabled
      BY <1>1 DEF Complete, IPv4Fits, NotEnabled
    <2>6. c.sessions # {}
      BY <2>1 DEF Sessions
    <2>7. ASSUME NEW s \in c.sessions
          PROVE  /\ s.neighbor # NotEnabled
                 /\ s.neighbor = (IF s.version = 6 THEN c.peerV6 ELSE c.peerV4)
      BY <2>1, <2>3, <2>4, <2>5, <2>7
    <2>. QED
      BY <2>6, <2>7 DEF c
  <1>2. FormInv => SessionsHaveNeighbors
    <2>. SUFFICES ASSUME FormInv, NEW n \in Peered
                  PROVE  LET c == conf[n] IN
                         /\ c.sessions # {}
                         /\ \A s \in c.sessions :
                              s.neighbor # NotEnabled
                              /\ s.neighbor = (IF s.version = 6 THEN c.peerV6 ELSE c.peerV4)
      BY DEF SessionsHaveNeighbors
    <2>1. PICK f \in Forms : Complete(f) /\ conf[n] = SetupPeer(n, f)
      BY DEF FormInv, ConfInv, Written, Peered
    <2>. QED
      BY <1>1, <2>1 DEF Peered
  <1>. QED
    BY <1>2, FormInvariant, PTL

(* What the user confirms is what /modify reads back from the files.       *)
THEOREM ConfirmedIsShown == Spec => []ShownAgain
  <1>1. FormInv => ShownAgain
    <2>. SUFFICES ASSUME FormInv, step = "confirm"
                  PROVE  Visible(RecreatePeerInfo(form.Region, SetupPeer(form.Region, form)))
                         = Visible(form)
      BY DEF ShownAgain
    <2>. DEFINE g == RecreatePeerInfo(form.Region, SetupPeer(form.Region, form))
    <2>1. form \in Forms /\ Complete(form) /\ form.Region \in Nodes
      BY ConfirmedIsComplete
    <2>2. /\ g \in Forms
          /\ g.Region = form.Region /\ g.Channel = form.Channel /\ g.MPBGP = form.MPBGP
          /\ g.ENH = form.ENH /\ g.IPv6 = form.IPv6 /\ g.IPv4 = form.IPv4
          /\ g.Clearnet = form.Clearnet /\ g.PublicKey = form.PublicKey
          /\ g.PresharedKey = form.PresharedKey /\ g.Port = form.Port /\ g.MTU = form.MTU
          /\ form.IPv6 = "lla" => g.RequestLL = form.RequestLL
      BY <2>1, Readback
    <2>. HIDE DEF g
    <2>3. ASSUME NEW f \in Forms
          PROVE  /\ Visible(f) \in Forms
                 /\ Visible(f).RequestLL = IF f.IPv6 = "lla" THEN f.RequestLL ELSE NotRequired
                 /\ Visible(f).ClearnetPort = FALSE
                 /\ ButFor({"RequestLL"}, f, Visible(f))
      <3>. DEFINE l == IF f.IPv6 = "lla" THEN f.RequestLL ELSE NotRequired
                  v == [f EXCEPT !.RequestLL = l, !.ClearnetPort = FALSE]
      <3>1. Visible(f) = v
        BY DEF Visible
      <3>2. l \in LLAs \cup {NotRequired}
        BY FormTypes
      <3>. HIDE DEF l
      <3>3. v \in Forms
        BY <3>2, FALSE \in BOOLEAN, RequestUpdated
      <3>4. v.RequestLL = l /\ v.ClearnetPort = FALSE
        BY DEF Forms
      <3>5. ButFor({"RequestLL"}, f, v)
        BY DEF ButFor, Forms
      <3>. QED
        BY <3>1, <3>3, <3>4, <3>5 DEF l
    <2>4. /\ Visible(g) \in Forms /\ Visible(form) \in Forms
          /\ Visible(g).RequestLL = Visible(form).RequestLL
          /\ Visible(g).ClearnetPort = Visible(form).ClearnetPort
          /\ ButFor({"RequestLL"}, g, Visible(g)) /\ ButFor({"RequestLL"}, form, Visible(form))
      <3>1. /\ Visible(g) \in Forms /\ Visible(g).ClearnetPort = FALSE
            /\ Visible(g).RequestLL = IF g.IPv6 = "lla" THEN g.RequestLL ELSE NotRequired
            /\ ButFor({"RequestLL"}, g, Visible(g))
        BY <2>2, <2>3
      <3>2. /\ Visible(form) \in Forms /\ Visible(form).ClearnetPort = FALSE
            /\ Visible(form).RequestLL = IF form.IPv6 = "lla" THEN form.RequestLL ELSE NotRequired
            /\ ButFor({"RequestLL"}, form, Visible(form))
        BY <2>1, <2>3
      <3>. QED
        BY <2>2, <3>1, <3>2
    <2>5. Visible(g) = Visible(form)
      <3>. DEFINE u == Visible(g)
                  v == Visible(form)
      <3>1. /\ u.Region = v.Region /\ u.Channel = v.Channel /\ u.MPBGP = v.MPBGP /\ u.ENH = v.ENH
            /\ u.IPv6 = v.IPv6 /\ u.IPv4 = v.IPv4 /\ u.Clearnet = v.Clearnet
            /\ u.PublicKey = v.PublicKey /\ u.PresharedKey = v.PresharedKey
            /\ u.Port = v.Port /\ u.MTU = v.MTU
        BY <2>2, <2>4 DEF ButFor
      <3>. QED
        BY <2>4, <3>1, FormFields
    <2>. QED
      BY <2>5 DEF g
  <1>. QED
    BY <1>1, FormInvariant, PTL

(* A new file differs from the old one of the same peer only in what a     *)
(* submission was for.                                                     *)
LEMMA Submission ==
  ASSUME FormInv, [Next]_vars, NEW n \in Nodes, conf'[n] # conf[n], conf'[n] # None
  PROVE  /\ step = "confirm" /\ n = form.Region /\ conf'[n] = SetupPeer(n, form)
         /\ UNCHANGED <<privileged, kind, backup, touched>>
  <1>1. Submit \/ UNCHANGED conf
    BY DEF Next, vars, StartPeer, StartModify, Relogin, PreRegion, Finish, Cancel, EndDialogue, Ask,
           PostNodeChoose, PostRegion, ChooseItem, PostSessionType, PostMpbgpSupport, PostEnh,
           PostMpbgpType, PostIPv6, PostRequestLinkLocal, AfterIPv6, PostIPv4, PostClearnetNone,
           PostClearnetPort, AfterClearnet, PostContact, PostClearnet, PostPortMyside, PostPubkey,
           PostPsk, PostMtu
  <1>2. Submit
    BY <1>1
  <1>. DEFINE r == form.Region
              c == SetupPeer(r, form)
  <1>3. conf \in [Nodes -> Confs \cup {None}]
    BY DEF FormInv, ConfInv
  <1>4. n = r /\ conf'[n] = c
    <2>1. \/ conf' = conf
          \/ conf' = [conf EXCEPT ![r] = c]
          \/ conf' = [[conf EXCEPT ![r] = c] EXCEPT ![backup.Region] = None]
      BY <1>2, SubmitFacts
    <2>. HIDE DEF r, c
    <2>. QED
      BY <1>3, <2>1
  <1>. QED
    BY <1>2, <1>4, SubmitFacts

(* Whatever /modify did not ask for stays what it was on file.             *)
THEOREM ModifyKeepsTheRest == Spec => OnlyTouchedChanges
  <1>1. ASSUME FormInv, [Next]_vars, NEW n \in Nodes, conf'[n] # conf[n], conf'[n] # None,
               kind = "modify"
        PROVE  KeepsUntouched(n)
    <2>. DEFINE b == backup.Region
                old == conf[b]
                new == conf'[n]
    <2>1. step = "confirm" /\ n = form.Region /\ new = SetupPeer(n, form)
      BY <1>1, Submission
    <2>2. form \in Forms /\ Complete(form) /\ Kept(form, privileged, touched, backup)
      BY <1>1, <2>1, ConfirmedIsComplete DEF Ready
    <2>3. b \in Nodes /\ old # None /\ backup = RecreatePeerInfo(b, old) /\ Written(b, old)
      BY <1>1, <2>1 DEF FormInv, ConfInv, DialogueInv, BackupInv, Resting
    <2>4. PICK f \in Forms : Complete(f) /\ old = SetupPeer(b, f)
      BY <2>3 DEF Written
    <2>. HIDE DEF b, old, new
    <2>5. /\ backup.Channel = f.Channel /\ backup.MPBGP = f.MPBGP /\ backup.IPv6 = f.IPv6
          /\ backup.IPv4 = f.IPv4 /\ backup.Clearnet = f.Clearnet
          /\ backup.PublicKey = f.PublicKey /\ backup.PresharedKey = f.PresharedKey
          /\ backup.Port = f.Port /\ backup.MTU = f.MTU
          /\ backup.RequestLL = IF f.IPv6 = "lla" THEN f.RequestLL ELSE NotRequired
          /\ f.IPv6 = "lla" => f.RequestLL \in LLAs /\ f.RequestLL = old.myLla
      BY <2>3, <2>4, Readback
    <2>6. /\ new.peerV6 = IF form.IPv6 = NotEnabled THEN None ELSE form.IPv6
          /\ new.peerV4 = IF form.IPv4 = "addr" THEN "addr" ELSE None
          /\ new.myLla = IF form.RequestLL = NotRequired THEN Lla[n] ELSE form.RequestLL
          /\ new.port = form.Port /\ new.mtu = form.MTU /\ new.pubkey = form.PublicKey
          /\ new.psk = form.PresharedKey /\ new.clearnet = form.Clearnet
          /\ new.sessions = Sessions(form)
      <3>. DEFINE c == SetupPeer(n, form)
      <3>1. /\ c.peerV6 = IF form.IPv6 = NotEnabled THEN None ELSE form.IPv6
            /\ c.peerV4 = IF form.IPv4 = "addr" THEN "addr" ELSE None
            /\ c.myLla = IF form.RequestLL = NotRequired THEN Lla[n] ELSE form.RequestLL
            /\ c.port = form.Port /\ c.mtu = form.MTU /\ c.pubkey = form.PublicKey
            /\ c.psk = form.PresharedKey /\ c.clearnet = form.Clearnet
            /\ c.sessions = BirdSessions(form)
        BY SetupFields
      <3>. HIDE DEF c
      <3>2. c.sessions = Sessions(form)
        BY <2>2, <3>1, SessionsOfForm DEF Complete, ChannelFits
      <3>3. new = c
        BY <2>1 DEF c
      <3>. QED
        BY <3>1, <3>2, <3>3
    <2>7. /\ old.peerV6 = IF f.IPv6 = NotEnabled THEN None ELSE f.IPv6
          /\ old.peerV4 = IF f.IPv4 = "addr" THEN "addr" ELSE None
          /\ old.port = f.Port /\ old.mtu = f.MTU /\ old.pubkey = f.PublicKey
          /\ old.psk = f.PresharedKey /\ old.clearnet = f.Clearnet
          /\ old.sessions = Sessions(f)
      <3>. DEFINE c == SetupPeer(b, f)
      <3>1. /\ c.peerV6 = IF f.IPv6 = NotEnabled THEN None ELSE f.IPv6
            /\ c.peerV4 = IF f.IPv4 = "addr" THEN "addr" ELSE None
            /\ c.port = f.Port /\ c.mtu = f.MTU /\ c.pubkey = f.PublicKey
            /\ c.psk = f.PresharedKey /\ c.clearnet = f.Clearnet
            /\ c.sessions = BirdSessions(f)
        BY SetupFields
      <3>. HIDE DEF c
      <3>2. c.sessions = Sessions(f)
        BY <2>4, <3>1, SessionsOfForm DEF Complete, ChannelFits
      <3>3. old = c
        BY <2>4 DEF c
      <3>. QED
        BY <3>1, <3>2, <3>3
    <2>8. "Region" \notin touched => n = b
      BY <2>1, <2>2 DEF Kept, b
    <2>9. /\ "MTU" \notin touched => new.mtu = old.mtu
          /\ "WireGuard PublicKey" \notin touched => new.pubkey = old.pubkey
          /\ "WireGuard PresharedKey" \notin touched => new.psk = old.psk
          /\ "Clearnet Endpoint" \notin touched => new.clearnet = old.clearnet /\ new.port = old.port
      BY <2>2, <2>5, <2>6, <2>7 DEF Kept
    <2>10. "Session Type" \notin touched => SessionName(new) = SessionName(old)
      <3>1. SessionName(new) = NameOf(form)
        BY <2>1, <2>2, NameOfForm DEF Complete
      <3>2. SessionName(old) = NameOf(f)
        BY <2>4, NameOfForm DEF Complete
      <3>3. "Session Type" \notin touched => NameOf(form) = NameOf(f)
        BY <2>2, <2>5 DEF Kept, NameOf
      <3>. QED
        BY <3>1, <3>2, <3>3
    <2>11. ASSUME "Session Type" \notin touched, "DN42 IP" \notin touched
           PROVE  /\ new.sessions = old.sessions /\ new.peerV6 = old.peerV6
                  /\ new.peerV4 = old.peerV4
                  /\ old.peerV6 = "lla" => new.myLla = old.myLla
      <3>1. /\ form.Channel = f.Channel /\ form.MPBGP = f.MPBGP
            /\ form.IPv6 = f.IPv6 /\ form.IPv4 = f.IPv4 /\ form.RequestLL = backup.RequestLL
        BY <2>2, <2>5, <2>11 DEF Kept
      <3>2. Sessions(form) = Sessions(f)
        BY <3>1 DEF Sessions, Session
      <3>3. old.peerV6 = "lla" => f.IPv6 = "lla"
        BY <2>7, EarlierAssumption
      <3>. QED
        BY <2>5, <2>6, <2>7, <3>1, <3>2, <3>3, EarlierAssumption
    <2>. QED
      BY <2>6, <2>7, <2>8, <2>9, <2>10, <2>11 DEF KeepsUntouched, b, old, new
  <1>2. FormInv /\ [Next]_vars =>
          [\A n \in Nodes : conf'[n] # conf[n] /\ conf'[n] # None /\ kind = "modify"
                             => KeepsUntouched(n)]_vars
    BY <1>1
  <1>. QED
    BY <1>2, FormInvariant, PTL DEF Spec, OnlyTouchedChanges

(* An endpoint that comes to a node without a move was checked for it, or  *)
(* an administrator insisted (post_clearnet).                              *)
THEOREM EndpointIsChecked == Spec => EndpointFitsUnlessMoved
  <1>1. ASSUME FormInv, [Next]_vars, NEW n \in Nodes, EndpointBrought(n)
        PROVE  privileged \/ "Region" \in touched \/ Reaches(n, conf'[n].clearnet)
    <2>1. conf'[n] # None /\ conf'[n] # conf[n]
      BY <1>1 DEF EndpointBrought
    <2>2. /\ step = "confirm" /\ n = form.Region /\ conf'[n] = SetupPeer(n, form)
      BY <1>1, <2>1, Submission
    <2>3. Ready("confirm", form, kind, privileged, touched, backup) /\ kind \in {"peer", "modify"}
      BY <1>1, <2>2, ConfirmedIsComplete DEF FormInv, TypeOK
    <2>4. conf'[n].clearnet = form.Clearnet
      BY <2>2, SetupFields
    <2>5. CASE kind = "peer"
      BY <2>2, <2>3, <2>4, <2>5 DEF Ready, RestReady, LateSteps
    <2>6. CASE kind = "modify" /\ "Region" \notin touched
      <3>1. /\ form.Region = backup.Region
            /\ privileged \/ form.Clearnet = backup.Clearnet \/ Reaches(form.Region, form.Clearnet)
        BY <2>3, <2>6 DEF Ready, Kept
      <3>2. conf[n] # None /\ backup = RecreatePeerInfo(n, conf[n])
        BY <1>1, <2>2, <2>6, <3>1 DEF FormInv, DialogueInv, BackupInv, Resting
      <3>3. backup.Clearnet = conf[n].clearnet
        BY <3>2 DEF RecreatePeerInfo
      <3>4. form.Clearnet # backup.Clearnet
        BY <1>1, <2>4, <3>2, <3>3 DEF EndpointBrought
      <3>. QED
        BY <2>2, <2>4, <3>1, <3>4
    <2>. QED
      BY <2>3, <2>5, <2>6
  <1>2. FormInv /\ [Next]_vars =>
          [\A n \in Nodes : EndpointBrought(n) =>
             privileged \/ "Region" \in touched \/ Reaches(n, conf'[n].clearnet)]_vars
    BY <1>1
  <1>. QED
    BY <1>2, FormInvariant, PTL DEF Spec, EndpointFitsUnlessMoved

=============================================================================
