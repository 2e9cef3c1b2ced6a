------------------------------ MODULE PeerForm ------------------------------
(***************************************************************************)
(* The dialogue in which a user fills in the form of a peering: /peer      *)
(* (server/commands/peer/peer.py) asks for every field in turn, /modify    *)
(* (modify.py) shows a menu, asks for the fields of one item and returns,  *)
(* both with the questions of info_collect.py.  The confirmed form goes to *)
(* the agent of the chosen node, which writes it into a WireGuard and a    *)
(* BIRD file; /info of the agent reads it back and /modify starts from     *)
(* that.  The translation form -> files -> form is that of                 *)
(* agent/commands/peer.py.                                                 *)
(*                                                                         *)
(* Here there is one user, of one ASN, whose dialogues follow each other.  *)
(* Two dialogues at a time, changes of identity and nodes that go offline  *)
(* are the subject of PeerOrders.  An answer that is not accepted is asked *)
(* for again and changes nothing: it is a stuttering step.                 *)
(***************************************************************************)
EXTENDS Naturals, FiniteSets

CONSTANTS
  Nodes,            \* config.SERVERS
  AdminOnly,        \* config.NEED_ADMIN_SERVER
  NetSupport,       \* [Nodes -> [ipv4, nat, ipv6, cn : BOOLEAN]], of each agent
  Lla,              \* [Nodes -> LLAs], the link-local address an agent provides
  LLAs,             \* link-local addresses our side can be asked to use
  Hosts,            \* [v4, v6, cn : BOOLEAN], what an endpoint resolves to
  Ports, MTUs, Keys,  \* values of the fields that are only stored
  AllowNoClearnet,  \* config.ALLOW_NO_CLEARNET
  Earlier,          \* forms that may be on file at every node at the start
  MaxDialogues,     \* bound of the model: dialogues of a behaviour
  MaxItems,         \* bound of the model: different items chosen in a dialogue
  None

ASSUME FormAssumption ==
  /\ AdminOnly \subseteq Nodes
  /\ NetSupport \in [Nodes -> [ipv4 : BOOLEAN, nat : BOOLEAN, ipv6 : BOOLEAN, cn : BOOLEAN]]
  /\ Lla \in [Nodes -> LLAs]
  /\ Hosts \subseteq [v4 : BOOLEAN, v6 : BOOLEAN, cn : BOOLEAN]
  /\ None \notin Nodes \cup LLAs \cup Hosts \cup Keys /\ None \notin MTUs
  /\ Ports # {}
  /\ MaxDialogues \in Nat /\ MaxItems \in Nat

VARIABLES
  privileged,  \* chat.id \in db_privilege
  dialogues,   \* number of dialogues begun
  kind,        \* "peer" or "modify"
  step,        \* the next-step handler that waits for an answer, or "idle"
  form,        \* peer_info
  backup,      \* peer_info["backup"]
  stop,        \* stop_sign of modify.step_manage
  menu,        \* the candidates in peer_info["Region"] while a node is chosen
  conf,        \* [Nodes -> what the agent has on file for the ASN, or None]
  touched      \* (observed) items of the menu chosen in this dialogue

vars == <<privileged, dialogues, kind, step, form, backup, stop, menu, conf, touched>>

Channels == {"IPv6 & IPv4", "IPv6 only", "IPv4 only"}
Items == {"Region", "Session Type", "DN42 IP", "Clearnet Endpoint", "WireGuard PublicKey",
          "WireGuard PresharedKey", "Contact", "MTU"}
Steps == {"idle", "node_choose", "action_choose", "pre_region", "region", "session_type", "mpbgp_support",
          "mpbgp_type", "enh", "ipv6", "request_linklocal", "ipv4", "clearnet", "clearnet_port",
          "port_myside", "pubkey", "psk", "mtu", "contact", "confirm"}

(* The values of IPv6, IPv4 and Request-LinkLocal that are texts.          *)
NotEnabled == "Not enabled"
ViaENH == "Not required due to Extended Next Hop"
NotRequired == "Not required due to not use LLA as IPv6"

(* What MP-BGP Support, IPv6 and IPv4 can hold.                            *)
Multiprotocol == {"Not supported", "IPv6", "IPv4"}
Addresses6 == {NotEnabled, "lla", "ula"}
Addresses4 == {NotEnabled, ViaENH, "addr"}

Forms ==
  [Region : Nodes \cup {None}, Channel : Channels \cup {None},
   MPBGP : Multiprotocol, ENH : BOOLEAN \cup {None},
   IPv6 : Addresses6, IPv4 : Addresses4,
   RequestLL : LLAs \cup {NotRequired}, Clearnet : Hosts \cup {None}, ClearnetPort : BOOLEAN,
   PublicKey : Keys \cup {None}, PresharedKey : Keys \cup {None},
   Port : Ports, MTU : MTUs \cup {None}]

(* What fits together in a form that somebody has confirmed: MP-BGP and    *)
(* extended next hop are for both channels, and each channel that is not   *)
(* carried by a session of the other family has an address of its own.     *)
ChannelFits(f) ==
  /\ f.Channel \in Channels
  /\ f.Channel # "IPv6 & IPv4" => f.MPBGP = "Not supported"
  /\ f.MPBGP = "IPv6" <=> f.ENH # None

NeedsIPv6(f) == f.Channel # "IPv4 only"
NeedsIPv4(f) == f.Channel = "IPv4 only" \/ (f.Channel = "IPv6 & IPv4" /\ f.ENH # TRUE)

IPv6Fits(f) ==
  /\ NeedsIPv6(f) <=> f.IPv6 # NotEnabled
  /\ f.IPv6 = "lla" => f.RequestLL # NotRequired

IPv4Fits(f) == f.IPv4 = IF NeedsIPv4(f) THEN "addr" ELSE NotEnabled

Complete(f) ==
  /\ ChannelFits(f) /\ IPv6Fits(f) /\ IPv4Fits(f)
  /\ f.PublicKey # None /\ f.MTU # None

(* The texts are told from addresses and from no value at all, and what is *)
(* on file from before has been entered with /peer.                        *)
ASSUME EarlierAssumption ==
  /\ NotRequired \notin LLAs
  /\ \A text \in Steps \cup Channels \cup {"addr", "lla", "ula"} : None # text
  /\ None \notin BOOLEAN
  /\ \A f \in Earlier : f \in Forms /\ Complete(f)

DefaultPort == CHOOSE p \in Ports : TRUE
DefaultMTU == CHOOSE m \in MTUs : TRUE

(* peer.start_peer and peer.init: the port follows from the ASN.           *)
EmptyForm ==
  [Region |-> None, Channel |-> None, MPBGP |-> "Not supported", ENH |-> None,
   IPv6 |-> NotEnabled, IPv4 |-> NotEnabled, RequestLL |-> NotRequired, Clearnet |-> None,
   ClearnetPort |-> FALSE, PublicKey |-> None, PresharedKey |-> None, Port |-> DefaultPort,
   MTU |-> None]

-----------------------------------------------------------------------------
(* The agent: what /peer writes and /info reads.                           *)

(* gen_bird_protocol: a session whose neighbour is the field IPv4 or IPv6  *)
(* as it stands, "only" when the other family's channel is closed.         *)
Session(f, v, only) ==
  [version |-> v, only |-> only, neighbor |-> IF v = 6 THEN f.IPv6 ELSE f.IPv4]

BirdSessions(f) ==
  CASE f.Channel = "IPv6 only" -> {Session(f, 6, TRUE)}
    [] f.Channel = "IPv4 only" -> {Session(f, 4, TRUE)}
    [] f.Channel = "IPv6 & IPv4" /\ f.MPBGP = "IPv6" -> {Session(f, 6, FALSE)}
    [] f.Channel = "IPv6 & IPv4" /\ f.MPBGP = "IPv4" -> {Session(f, 4, FALSE)}
    [] OTHER -> {Session(f, 6, TRUE), Session(f, 4, TRUE)}

(* setup_peer: an address of the form that is not one of DN42 is left out  *)
(* of the tunnel, a Request-LinkLocal that is a text gives the agent's own.*)
SetupPeer(n, f) ==
  [peerV6   |-> IF f.IPv6 = NotEnabled THEN None ELSE f.IPv6,
   peerV4   |-> IF f.IPv4 = "addr" THEN "addr" ELSE None,
   myLla    |-> IF f.RequestLL = NotRequired THEN Lla[n] ELSE f.RequestLL,
   port     |-> f.Port, mtu |-> f.MTU, pubkey |-> f.PublicKey, psk |-> f.PresharedKey,
   clearnet |-> f.Clearnet, sessions |-> BirdSessions(f)]

SessionNameOfOne(c) ==   \* mutation: the case of two sessions comes too late
  LET has(v, only) == \E s \in c.sessions : s.version = v /\ s.only = only IN
  IF has(6, TRUE) THEN "IPv6 Session with IPv6 channel only"
  ELSE IF has(4, TRUE) THEN "IPv4 Session with IPv4 channel only"
  ELSE IF has(6, FALSE) THEN "IPv6 Session with IPv6 & IPv4 Channels"
  ELSE "IPv4 Session with IPv6 & IPv4 Channels"

(* get_info of the agent names the combination of sessions it finds.       *)
SessionName(c) ==
  LET has(v, only) == \E s \in c.sessions : s.version = v /\ s.only = only IN
  IF has(6, TRUE) /\ has(4, TRUE) THEN "IPv6 & IPv4 Session with their own channels"
  ELSE IF has(6, TRUE) THEN "IPv6 Session with IPv6 channel only"
  ELSE IF has(4, TRUE) THEN "IPv4 Session with IPv4 channel only"
  ELSE IF has(6, FALSE) THEN "IPv6 Session with IPv6 & IPv4 Channels"
  ELSE "IPv4 Session with IPv6 & IPv4 Channels"

(* modify.recreate_peer_info.                                              *)
RecreatePeerInfo(n, c) ==
  LET name == SessionName(c)
      both == name = "IPv6 Session with IPv6 & IPv4 Channels" IN
  [Region    |-> n,
   Channel   |-> CASE name = "IPv6 Session with IPv6 channel only" -> "IPv6 only"
                   [] name = "IPv4 Session with IPv4 channel only" -> "IPv4 only"
                   [] OTHER -> "IPv6 & IPv4",
   MPBGP     |-> IF both THEN "IPv6"
                 ELSE IF name = "IPv4 Session with IPv6 & IPv4 Channels" THEN "IPv4"
                 ELSE "Not supported",
   ENH       |-> IF both THEN c.peerV4 = None ELSE None,
   IPv6      |-> IF c.peerV6 = None THEN NotEnabled ELSE c.peerV6,
   IPv4      |-> IF c.peerV4 = None THEN NotEnabled ELSE c.peerV4,
   RequestLL |-> IF c.peerV6 = "lla" THEN c.myLla ELSE NotRequired,
   Clearnet  |-> c.clearnet, ClearnetPort |-> FALSE,
   PublicKey |-> c.pubkey, PresharedKey |-> c.psk, Port |-> c.port, MTU |-> c.mtu]

Peered == {n \in Nodes : conf[n] # None}

-----------------------------------------------------------------------------
(* step_manage: the function that follows an answer.  A question that is   *)
(* the stop sign is not asked: /modify returns to its menu.  Three of the  *)
(* questions do something before they are asked.                           *)

(* pre_clearnet remembers the port of the old endpoint, pre_clearnet_port  *)
(* forgets it.                                                             *)
BeforeAsking(next, f) ==
  CASE next = "clearnet" /\ f.Clearnet # None -> [f EXCEPT !.ClearnetPort = TRUE]
    [] next = "clearnet_port"                 -> [f EXCEPT !.ClearnetPort = FALSE]
    [] OTHER                                  -> f

(* modify.pre_confirm drops a form that is equal to what is on file.       *)
Ask(next, f) ==
  /\ UNCHANGED <<privileged, dialogues, kind, backup, conf, touched>>
  /\ menu' = {}
  /\ IF next = stop
     THEN step' = "action_choose" /\ stop' = None /\ form' = f
     ELSE /\ step' = IF next = "confirm" /\ kind = "modify" /\ f = backup THEN "idle" ELSE next
          /\ form' = BeforeAsking(next, f)
          /\ UNCHANGED stop

EndDialogue ==
  /\ step' = "idle"
  /\ UNCHANGED <<privileged, dialogues, kind, form, backup, stop, menu, conf, touched>>

(* pre_region asks every agent for its state.  A node that does not answer,*)
(* is not open, is full or wants more peers is no candidate, but the last  *)
(* three do not bind administrators: which they are is the agents' choice. *)
(* Nodes the user has peered with are no candidates either.  A single      *)
(* candidate is chosen for the user.                                       *)
PreRegion ==
  /\ step = "pre_region"
  /\ \E open \in SUBSET {n \in Nodes \ Peered : privileged \/ n \notin AdminOnly} :
       \/ open = {} /\ EndDialogue
       \/ /\ Cardinality(open) = 1
          /\ \E n \in open : Ask("session_type", [form EXCEPT !.Region = n])
       \/ /\ Cardinality(open) > 1
          /\ step' = "region"
          /\ menu' = open
          /\ UNCHANGED <<privileged, dialogues, kind, form, backup, stop, conf, touched>>

-----------------------------------------------------------------------------
(* The beginning of a dialogue.                                            *)

Begin(k) ==
  /\ step = "idle"
  /\ dialogues < MaxDialogues
  /\ dialogues' = dialogues + 1
  /\ kind' = k
  /\ stop' = None
  /\ touched' = {}

(* peer.init goes on to pre_region with an empty form.                     *)
StartPeer ==
  /\ Begin("peer")
  /\ \E n \in Nodes \ Peered : privileged \/ n \notin AdminOnly
  /\ step' = "pre_region"
  /\ form' = EmptyForm
  /\ UNCHANGED <<privileged, backup, menu, conf>>

(* Between two dialogues the user may log out and in again with or without *)
(* the administrator's identity (logout.start_logout, user_manage/login.py)*)
Relogin ==
  /\ step = "idle"
  /\ dialogues < MaxDialogues
  /\ privileged' = ~privileged
  /\ UNCHANGED <<dialogues, kind, step, form, backup, stop, menu, conf, touched>>

(* modify.init and pre_node_choose: a single node is chosen for the user.  *)
StartModify ==
  /\ Begin("modify")
  /\ Peered # {}
  /\ IF Cardinality(Peered) = 1
     THEN LET n == CHOOSE n \in Peered : TRUE IN
          /\ form' = RecreatePeerInfo(n, conf[n])
          /\ backup' = RecreatePeerInfo(n, conf[n])
          /\ step' = "action_choose"
     ELSE step' = "node_choose" /\ UNCHANGED <<form, backup>>
  /\ UNCHANGED <<privileged, menu, conf>>

(* post_node_choose accepts every online server; the dialogue breaks off   *)
(* when the user has no peer there.                                        *)
PostNodeChoose(n) ==
  /\ step = "node_choose"
  /\ IF n \in Peered
     THEN /\ form' = RecreatePeerInfo(n, conf[n])
          /\ backup' = RecreatePeerInfo(n, conf[n])
          /\ step' = "action_choose"
     ELSE step' = "idle" /\ UNCHANGED <<form, backup>>
  /\ UNCHANGED <<privileged, dialogues, kind, stop, menu, conf, touched>>

(* The question an item begins with and the one before which it stops.     *)
FirstQuestion(i) ==
  CASE i = "Region"                 -> "pre_region"
    [] i = "Session Type"           -> "session_type"
    [] i = "DN42 IP"                -> IF form.Channel = "IPv4 only" THEN "ipv4" ELSE "ipv6"
    [] i = "Clearnet Endpoint"      -> "clearnet"
    [] i = "WireGuard PublicKey"    -> "pubkey"
    [] i = "WireGuard PresharedKey" -> "psk"
    [] i = "Contact"                -> "contact"
    [] OTHER                        -> "mtu"

StopSignTooFar(i) ==   \* mutation: the addresses are followed by the endpoint
  CASE i = "Region"                                          -> "session_type"
    [] i = "Session Type"                                    -> "clearnet"
    [] i \in {"DN42 IP", "Clearnet Endpoint"}                -> "pubkey"
    [] i = "WireGuard PublicKey"                             -> "psk"
    [] i = "WireGuard PresharedKey"                          -> "mtu"
    [] i = "MTU"                                             -> "contact"
    [] OTHER                                                 -> "confirm"

StopSign(i) ==
  CASE i = "Region"                      -> "session_type"
    [] i \in {"Session Type", "DN42 IP"} -> "clearnet"
    [] i = "Clearnet Endpoint"           -> "pubkey"
    [] i = "WireGuard PublicKey"         -> "psk"
    [] i = "WireGuard PresharedKey"      -> "mtu"
    [] i = "MTU"                         -> "contact"
    [] OTHER                             -> "confirm"

(* post_action_choose.  Who is no administrator cannot move away from a    *)
(* node that only administrators give out.                                 *)
ChooseItem(i) ==
  /\ step = "action_choose"
  /\ i = "Region" => privileged \/ form.Region \notin AdminOnly
  /\ step' = FirstQuestion(i)
  /\ stop' = StopSign(i)
  /\ form' = BeforeAsking(FirstQuestion(i), form)
  /\ touched' = touched \cup {i}
  /\ Cardinality(touched') <= MaxItems
  /\ UNCHANGED <<privileged, dialogues, kind, backup, menu, conf>>

Finish ==
  /\ step = "action_choose"
  /\ Ask("confirm", form)

(* "/cancel" (which step_manage looks for first) and "Abort modification". *)
Cancel ==
  /\ step \notin {"idle", "pre_region"}
  /\ EndDialogue

-----------------------------------------------------------------------------
(* The answers.                                                            *)

PostRegion(n) ==
  /\ step = "region"
  /\ n \in menu
  /\ Ask("session_type", [form EXCEPT !.Region = n])

PostSessionType(c) ==
  /\ step = "session_type"
  /\ IF c = "IPv6 & IPv4"
     THEN Ask("mpbgp_support", [form EXCEPT !.Channel = c])
     ELSE LET f == [form EXCEPT !.Channel = c, !.MPBGP = "Not supported", !.ENH = None] IN
          IF c = "IPv6 only"
          THEN Ask("ipv6", f)
          ELSE Ask("ipv4", [f EXCEPT !.IPv6 = NotEnabled])

PostMpbgpSupport(yes) ==
  /\ step = "mpbgp_support"
  /\ IF yes
     THEN Ask("mpbgp_type", form)
     ELSE Ask("ipv6", [form EXCEPT !.MPBGP = "Not supported", !.ENH = None])

PostMpbgpType(t) ==
  /\ step = "mpbgp_type"
  /\ IF t = "IPv6"
     THEN Ask("enh", [form EXCEPT !.MPBGP = t])
     ELSE Ask("ipv6", [form EXCEPT !.MPBGP = t, !.ENH = None])

PostEnh(yes) ==
  /\ step = "enh"
  /\ Ask("ipv6", [form EXCEPT !.ENH = yes, !.IPv4 = IF yes THEN ViaENH ELSE @])

AfterIPv6IfPlain(f) ==   \* mutation: no MP-BGP session is taken to need IPv4
  IF f.Channel = "IPv6 & IPv4" /\ f.MPBGP = "Not supported"
  THEN Ask("ipv4", f)
  ELSE Ask("clearnet", [f EXCEPT !.IPv4 = NotEnabled])

(* The end of post_ipv6 and of post_request_linklocal: is the IPv4 address *)
(* needed as well?                                                         *)
AfterIPv6(f) ==
  IF f.Channel = "IPv6 & IPv4" /\ f.ENH # TRUE
  THEN Ask("ipv4", f)
  ELSE Ask("clearnet", [f EXCEPT !.IPv4 = NotEnabled])

PostIPv6(a) ==
  /\ step = "ipv6"
  /\ IF a = "lla"
     THEN Ask("request_linklocal", [form EXCEPT !.IPv6 = a])
     ELSE AfterIPv6([form EXCEPT !.IPv6 = a, !.RequestLL = NotRequired])

PostRequestLinkLocal(l) ==
  /\ step = "request_linklocal"
  /\ AfterIPv6([form EXCEPT !.RequestLL = l])

PostIPv4 ==
  /\ step = "ipv4"
  /\ Ask("clearnet", [form EXCEPT !.IPv4 = "addr"])

(* Can a tunnel be set up between the node and the endpoint, and may it?   *)
(* An endpoint is None when the other side has no public address.          *)
Reaches(n, h) ==
  LET net == NetSupport[n] IN
  IF h = None
  THEN net.ipv6 \/ (net.ipv4 /\ ~net.nat)
  ELSE /\ h.v4 \/ h.v6
       /\ h.v4 /\ ~h.v6 => net.ipv4
       /\ h.v6 /\ ~h.v4 => net.ipv6
       /\ h.cn => net.cn

AfterClearnet(f) == Ask(IF privileged THEN "port_myside" ELSE "pubkey", f)

(* post_clearnet with "none" and with a host, to which a port may have been*)
(* appended; administrators are warned of a host that does not fit.        *)
PostClearnetNone ==
  /\ step = "clearnet"
  /\ AllowNoClearnet \/ privileged
  /\ Reaches(form.Region, None)
  /\ AfterClearnet([form EXCEPT !.Clearnet = None])

PostAnyClearnet(h, withPort) ==   \* mutation: the endpoint is not looked up
  /\ step = "clearnet"
  /\ Ask("clearnet_port", [form EXCEPT !.Clearnet = h, !.ClearnetPort = @ \/ withPort])

PostClearnet(h, withPort) ==
  /\ step = "clearnet"
  /\ Reaches(form.Region, h) \/ privileged
  /\ Ask("clearnet_port", [form EXCEPT !.Clearnet = h, !.ClearnetPort = @ \/ withPort])

PostClearnetPort ==
  /\ step = "clearnet_port"
  /\ AfterClearnet(form)

PostPortMyside(p) ==
  /\ step = "port_myside"
  /\ Ask("pubkey", [form EXCEPT !.Port = p])

PostPubkey(k) ==
  /\ step = "pubkey"
  /\ Ask("psk", [form EXCEPT !.PublicKey = k])

PostPskNoMtu(k) ==   \* mutation: the question for the MTU is passed over
  /\ step = "psk"
  /\ Ask("contact", [form EXCEPT !.PresharedKey = k])

(* "Skip" or a key; "Keep current" is the key that is there.               *)
PostPsk(k) ==
  /\ step = "psk"
  /\ Ask("mtu", [form EXCEPT !.PresharedKey = k])

PostMtu(m) ==
  /\ step = "mtu"
  /\ Ask("contact", [form EXCEPT !.MTU = m])

(* The contact decides nothing and is left out of the form.                *)
PostContact ==
  /\ step = "contact"
  /\ Ask("confirm", form)

Moved == kind = "modify" /\ form.Region # backup.Region

(* post_confirm refuses moves to and from nodes of the administrators.     *)
Forbidden ==
  /\ ~privileged
  /\ \/ kind = "peer" /\ form.Region \in AdminOnly
     \/ Moved /\ {form.Region, backup.Region} \cap AdminOnly # {}

(* post_confirm with "yes".  The POST of /peer may be refused, fail or be  *)
(* carried out after the bot has given up; only an answer 200 in time lets *)
(* a move go on to /remove at the old node, which may fail as well.        *)
Submit ==
  /\ step = "confirm"
  /\ ~Forbidden
  /\ step' = "idle"
  /\ LET added == [conf EXCEPT ![form.Region] = SetupPeer(form.Region, form)] IN
     \/ conf' = conf
     \/ conf' = added
     \/ Moved /\ conf' = [added EXCEPT ![backup.Region] = None]
  /\ UNCHANGED <<privileged, dialogues, kind, form, backup, stop, menu, touched>>

-----------------------------------------------------------------------------

(* The user has no peer yet, or one made earlier at each node.             *)
Init ==
  /\ privileged \in BOOLEAN
  /\ dialogues = 0
  /\ kind = "peer"
  /\ step = "idle"
  /\ form = EmptyForm /\ backup = EmptyForm
  /\ stop = None
  /\ menu = {}
  /\ \/ conf = [n \in Nodes |-> None]
     \/ \E f \in Earlier : conf = [n \in Nodes |-> SetupPeer(n, f)]
  /\ touched = {}

Next ==
  \/ StartPeer \/ StartModify \/ Relogin \/ PreRegion \/ Finish \/ Cancel \/ Submit
  \/ \E n \in Nodes : PostNodeChoose(n) \/ PostRegion(n)
  \/ \E i \in Items : ChooseItem(i)
  \/ \E c \in Channels : PostSessionType(c)
  \/ \E yes \in BOOLEAN : PostMpbgpSupport(yes) \/ PostEnh(yes)
  \/ \E t \in {"IPv6", "IPv4"} : PostMpbgpType(t)
  \/ \E a \in {"lla", "ula"} : PostIPv6(a)
  \/ \E l \in LLAs : PostRequestLinkLocal(l)
  \/ PostIPv4 \/ PostClearnetNone \/ PostClearnetPort \/ PostContact
  \/ \E h \in Hosts, withPort \in BOOLEAN : PostClearnet(h, withPort)
  \/ \E p \in Ports : PostPortMyside(p)
  \/ \E k \in Keys : PostPubkey(k)
  \/ \E k \in Keys \cup {None} : PostPsk(k)
  \/ \E m \in MTUs : PostMtu(m)

Spec == Init /\ [][Next]_vars

-----------------------------------------------------------------------------
(* Properties.                                                             *)

Confs ==
  [peerV6 : {"lla", "ula", None}, peerV4 : {"addr", None}, myLla : LLAs, port : Ports,
   mtu : MTUs, pubkey : Keys, psk : Keys \cup {None}, clearnet : Hosts \cup {None},
   sessions : SUBSET [version : {4, 6}, only : BOOLEAN,
                      neighbor : {NotEnabled, ViaENH, "lla", "ula", "addr"}]]

ASSUME NoneAssumption == None \notin Confs

(* Types; a form on its way has every field of its step's type, and what   *)
(* is on file at an agent is complete.                                     *)
TypeOK ==
  /\ privileged \in BOOLEAN
  /\ dialogues \in 0..MaxDialogues
  /\ kind \in {"peer", "modify"}
  /\ step \in Steps
  /\ form \in Forms /\ backup \in Forms
  /\ stop \in Steps \cup {None}
  /\ menu \subseteq Nodes
  /\ \A n \in Nodes : conf[n] # None => conf[n] \in Confs
  /\ touched \subseteq Items

(* Whatever was asked, skipped and changed in whatever order: every BGP    *)
(* session an agent is told to set up has an address of its own family as  *)
(* neighbour, and the tunnel routes that address (peer.py:388 writes the   *)
(* field into bird's file as it stands).                                   *)
SessionsHaveNeighbors ==
  \A n \in Peered : LET c == conf[n] IN
    /\ c.sessions # {}
    /\ \A s \in c.sessions :
         s.neighbor # NotEnabled /\ s.neighbor = (IF s.version = 6 THEN c.peerV6 ELSE c.peerV4)

(* What the user confirmed is what /modify shows and starts from later:    *)
(* form -> two files -> /info -> form loses nothing (the field             *)
(* Request-LinkLocal counts only next to a link-local address).            *)
Visible(f) ==
  [f EXCEPT !.RequestLL = IF f.IPv6 = "lla" THEN @ ELSE NotRequired, !.ClearnetPort = FALSE]

ShownAgain ==
  step = "confirm" =>
    LET n == form.Region IN Visible(RecreatePeerInfo(n, SetupPeer(n, form))) = Visible(form)

(* A modification changes what the user chose from the menu and nothing    *)
(* else: the questions stop in time, and the fields that were not asked    *)
(* come out as they went in, also on another node.                         *)
KeepsUntouched(n) ==
  LET old == conf[backup.Region]
      new == conf'[n]
      kept(items) == touched \cap items = {} IN
  /\ kept({"Region"}) => n = backup.Region
  /\ kept({"MTU"}) => new.mtu = old.mtu
  /\ kept({"WireGuard PublicKey"}) => new.pubkey = old.pubkey
  /\ kept({"WireGuard PresharedKey"}) => new.psk = old.psk
  /\ kept({"Clearnet Endpoint"}) => new.clearnet = old.clearnet /\ new.port = old.port
  /\ kept({"Session Type"}) => SessionName(new) = SessionName(old)
  /\ kept({"Session Type", "DN42 IP"}) =>
       /\ new.sessions = old.sessions /\ new.peerV6 = old.peerV6 /\ new.peerV4 = old.peerV4
       /\ old.peerV6 = "lla" => new.myLla = old.myLla

OnlyTouchedChanges ==
  [][\A n \in Nodes :
       conf'[n] # conf[n] /\ conf'[n] # None /\ kind = "modify" => KeepsUntouched(n)]_vars

(* An endpoint that a step brings to a node passed the check of that node, *)
(* unless an administrator insisted.                                       *)
EndpointBrought(n) ==
  /\ conf'[n] # None
  /\ conf[n] = None \/ conf[n].clearnet # conf'[n].clearnet

EndpointFits ==
  [][\A n \in Nodes : EndpointBrought(n) => privileged \/ Reaches(n, conf'[n].clearnet)]_vars

(* It does as long as no peer moves: post_clearnet checks the endpoint for *)
(* the node the form names at that moment.                                 *)
EndpointFitsUnlessMoved ==
  [][\A n \in Nodes : EndpointBrought(n) =>
       privileged \/ "Region" \in touched \/ Reaches(n, conf'[n].clearnet)]_vars

=============================================================================
