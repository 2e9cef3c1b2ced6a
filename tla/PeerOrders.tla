----------------------------- MODULE PeerOrders -----------------------------
(***************************************************************************)
(* The orders a user gives through the bot - /peer, /modify, /remove and   *)
(* /restart (server/commands/peer) - while other things go on: telebot     *)
(* runs handlers in worker threads, the identity db[chat.id] changes under *)
(* them, nodes go offline, agents answer late or never, the bot restarts.  *)
(*                                                                         *)
(* One chat is modelled.  An order is one dialogue; what it asks for is    *)
(* reduced to the node (the fields are the subject of PeerForm), so it     *)
(* waits at most twice: for the rest of the form, and for the confirmation.*)
(* A waiting order is a next-step handler of telebot.  The chat's next     *)
(* message goes to all of them and to no command handler.                  *)
(***************************************************************************)
EXTENDS Naturals, Sequences, FiniteSets

CONSTANTS
  ASNs, Nodes,
  Orders,        \* bound of the model: the dialogues of a behaviour
  Events,        \* of what goes on beside the orders, what does
  MaxEvents,     \* bound of the model: how many kinds of it, each once
  None

ASSUME OrdersAssumption ==
  /\ None \notin ASNs \cup Nodes \cup {"ok", "refused", "failed"}
  /\ Events \subseteq {"switch", "restart", "outage"}
  /\ MaxEvents \in Nat
  /\ IsFiniteSet(Orders)

VARIABLES
  id,        \* db[chat.id], or None
  online,    \* base.servers
  peers,     \* [Nodes -> SUBSET ASNs], the agents' peers
  inbox,     \* [Nodes -> Seq(request)], POSTs an agent has not handled yet
  order,     \* [Orders -> order]
  saved,     \* [Orders -> order], the handlers in data/step.save
  events,    \* what of that went on, for the bound
  did,       \* (observed) [Orders -> what agents did while the order waited for it]
  disturbed  \* (observed) orders, waiting ones in the file too, during which the identity changed

vars == <<id, online, peers, inbox, order, saved, events, did, disturbed>>
agents == <<peers, inbox, did>>

Kinds == {"peer", "modify", "remove", "restart"}

Waiting == {"form", "confirm"}                        \* next_step_handlers
Calling == {"adding", "removing", "restarting"}       \* in requests.post
Running == {"starting", "asking", "filling", "confirmed", "added"} \cup Calling
Ended == {"done", "half", "refused", "cancelled", "failed", "lost"}

(* node is where the order is carried out, from the node a modification    *)
(* starts at; seen are the nodes /info of the agents named; shown is the   *)
(* identity the user was told, asn the one in peer_info.                   *)
NoOrder == [phase |-> "free", kind |-> "peer", seen |-> {}, shown |-> None, asn |-> None,
            node |-> None, from |-> None, reply |-> None]

InPhase(P) == {o \in Orders : order[o].phase \in P}

MayHappen(e) == e \in Events \ events /\ Cardinality(events) < MaxEvents

Happens(e) == MayHappen(e) /\ events' = events \cup {e}

(* What a handler has read and been answered is of no use once it is past. *)
Becomes(o, ph) == order' = [order EXCEPT ![o].phase = ph, ![o].seen = {}, ![o].reply = None]

-----------------------------------------------------------------------------
(* Messages of the user.                                                   *)

(* No handler waits: a command starts a new dialogue, in another worker    *)
(* thread if one is still busy.                                            *)
Command(o, k) ==
  /\ order[o].phase = "free"
  /\ InPhase(Waiting) = {}
  /\ order' = [order EXCEPT ![o] = [NoOrder EXCEPT !.kind = k, !.phase = "starting"]]
  /\ UNCHANGED <<id, online, agents, saved, events, disturbed>>

(* What a message does to one waiting order: "/cancel" ends it, so does    *)
(* any answer to the confirmation but the right one.  That is "yes", or    *)
(* the random code of the order for a removal.                             *)
Answered(o, msg) ==
  CASE order[o].phase = "form"    -> IF msg = "/cancel" THEN "cancelled" ELSE "filling"
    [] order[o].phase = "confirm" -> IF msg = (IF order[o].kind = "remove" THEN o ELSE "yes")
                                     THEN "confirmed" ELSE "cancelled"
    [] OTHER                      -> order[o].phase

Answer(msg) ==
  /\ InPhase(Waiting) # {}
  /\ order' = [o \in Orders |-> [order[o] EXCEPT !.phase = Answered(o, msg)]]
  /\ UNCHANGED <<id, online, agents, saved, events, disturbed>>

(* The identity changes: by /login, /logout or /whoami, which are messages *)
(* and so need that nothing waits, or by the callback of an OIDC login     *)
(* (main.oidc_callback), which comes from the browser at any time and sets *)
(* an ASN.                                                                 *)
Switch(a) ==
  /\ Happens("switch")
  /\ a # id
  /\ a = None => InPhase(Waiting) = {}
  /\ id' = a
  /\ disturbed' = disturbed \cup InPhase(Running \cup Waiting)
                          \cup {o \in Orders : saved[o].phase \in Waiting}
  /\ UNCHANGED <<online, agents, order, saved>>

-----------------------------------------------------------------------------
(* A handler's thread.  db[chat.id] raises KeyError once the user has      *)
(* logged out, base.servers[n] once the node is offline: the handler ends, *)
(* nothing waits any more, and the user is told nothing but an error.      *)

(* init: the agents are asked about the identity of this moment.  An agent *)
(* that is still busy with a request does not answer in time.              *)
Start(o) ==
  /\ order[o].phase = "starting"
  /\ LET seen == {n \in online : id \in peers[n] /\ inbox[n] = <<>>} IN
     IF \/ id = None
        \/ order[o].kind = "peer" /\ online \subseteq seen
        \/ order[o].kind # "peer" /\ seen = {}
     THEN Becomes(o, "cancelled")
     ELSE order' = [order EXCEPT ![o].phase = "asking", ![o].seen = seen]
  /\ UNCHANGED <<id, online, agents, saved, events, disturbed>>

(* The identity is read again for the text that names it, and once more    *)
(* for peer_info of /peer.  Then the user is asked: for the form of /peer, *)
(* for a node by the others.                                               *)
AskUser(o, n) ==
  /\ order[o].phase = "asking"
  /\ n \in IF order[o].kind = "peer" THEN Nodes \ order[o].seen ELSE order[o].seen
  /\ IF id = None \/ ~(order[o].seen \subseteq online)
     THEN Becomes(o, "lost")
     ELSE order' = [order EXCEPT ![o] = [@ EXCEPT !.phase = "form", !.shown = id, !.node = n,
                      !.asn = IF order[o].kind = "peer" THEN id ELSE None]]
  /\ UNCHANGED <<id, online, agents, saved, events, disturbed>>

(* The answer: recreate_peer_info of /modify and /remove looks the peer up *)
(* under the identity of now; a modification may go to another node, n.    *)
(* The form is shown for confirmation with the ASN in it.                  *)
Fill(o, n) ==
  LET r == order[o] IN
  /\ r.phase = "filling"
  /\ r.kind = "modify" \/ n = r.node
  /\ r.kind = "modify" => n = r.node \/ n \notin r.seen
  /\ IF \/ ~({r.node, n} \subseteq online)
        \/ r.kind \in {"modify", "remove"} /\ (id = None \/ id \notin peers[r.node])
     THEN Becomes(o, "lost")
     ELSE order' = [order EXCEPT ![o] = [r EXCEPT !.phase = "confirm", !.seen = {}, !.node = n, !.from = r.node,
                      !.asn = IF r.kind \in {"modify", "remove"} THEN id ELSE @]]
  /\ UNCHANGED <<id, online, agents, saved, events, disturbed>>

(* requests.post: the request is on its way to the agent's queue.          *)
Post(o, ph, n, op, a) ==
  /\ order' = [order EXCEPT ![o].phase = ph, ![o].reply = None]
  /\ inbox' = [inbox EXCEPT ![n] = Append(@, [op |-> op, asn |-> a, by |-> o, awaited |-> TRUE])]
  /\ UNCHANGED peers

(* post_confirm, remove_peer_confirm and restart_peer_confirm: /peer       *)
(* carries the ASN of the form, /remove and /restart carry db[chat.id].    *)
Confirm(o) ==
  LET r == order[o] IN
  /\ r.phase = "confirmed"
  /\ IF id = None
     THEN Becomes(o, IF r.kind \in {"peer", "modify"} THEN "lost" ELSE "failed") /\ UNCHANGED agents
     ELSE /\ did' = [did EXCEPT ![o] = {}]
          /\ CASE r.kind \in {"peer", "modify"} -> Post(o, "adding", r.node, "peer", r.asn)
               [] r.kind = "remove"             -> Post(o, "removing", r.node, "remove", id)
               [] OTHER                         -> Post(o, "restarting", r.node, "restart", id)
  /\ UNCHANGED <<id, online, saved, events, disturbed>>

(* After /peer a modification restarts the peer on its node or removes it  *)
(* from the old one.                                                       *)
Second(o) ==
  LET r == order[o] IN
  /\ r.phase = "added"
  /\ IF id = None
     THEN Becomes(o, "failed") /\ UNCHANGED agents
     ELSE /\ UNCHANGED did
          /\ IF r.from = r.node
             THEN Post(o, "restarting", r.node, "restart", id)
             ELSE Post(o, "removing", r.from, "remove", id)
  /\ UNCHANGED <<id, online, saved, events, disturbed>>

OutcomeAtOnce(r) ==   \* mutation: a modification is over when the peer is added
  CASE r.reply = "ok" -> "done"
    [] r.phase = "adding" /\ r.reply = "refused" -> "refused"
    [] r.phase # "adding" /\ r.kind = "modify" /\ r.reply # "ok" -> "half"
    [] OTHER -> "failed"

OutcomeRefused(r) ==   \* mutation: any error of /peer is taken for a refusal
  CASE r.phase = "adding" /\ r.reply = "ok" -> IF r.kind = "peer" THEN "done" ELSE "added"
    [] r.phase = "adding" /\ r.reply # "ok" -> "refused"
    [] r.phase # "adding" /\ r.reply = "ok" -> "done"
    [] r.phase # "adding" /\ r.kind = "modify" /\ r.reply # "ok" -> "half"
    [] OTHER -> "failed"

OutcomeAdded(r) ==   \* mutation: the status of /peer is not looked at
  CASE r.phase = "adding" -> IF r.kind = "peer" THEN "done" ELSE "added"
    [] r.phase # "adding" /\ r.reply = "ok" -> "done"
    [] r.phase # "adding" /\ r.kind = "modify" /\ r.reply # "ok" -> "half"
    [] OTHER -> "failed"

(* The answer of the agent.  503 of /peer is told as such, an answer other *)
(* than 200 to the second call of a modification as half a success.        *)
Outcome(r) ==
  CASE r.phase = "adding" /\ r.reply = "ok" -> IF r.kind = "peer" THEN "done" ELSE "added"
    [] r.phase = "adding" /\ r.reply = "refused" -> "refused"
    [] r.phase # "adding" /\ r.reply = "ok" -> "done"
    [] r.phase # "adding" /\ r.kind = "modify" /\ r.reply # "ok" -> "half"
    [] OTHER -> "failed"

HandleReply(o) ==
  LET r == order[o] IN
  /\ r.phase \in Calling
  /\ r.reply # None
  /\ Becomes(o, Outcome(r))
  /\ UNCHANGED <<id, online, agents, saved, events, disturbed>>

(* Nobody waits for the answers to the requests of these orders any more.  *)
Abandon(S) ==
  inbox' = [n \in Nodes |-> [j \in DOMAIN inbox[n] |->
              [inbox[n][j] EXCEPT !.awaited = @ /\ inbox[n][j].by \notin S]]]

(* Ten seconds without an answer, or a connection that breaks: an error,   *)
(* whatever the agent has done or is yet to do.                            *)
GiveUp(o) ==
  /\ order[o].phase \in Calling
  /\ order[o].reply = None
  /\ Becomes(o, "failed")
  /\ Abandon({o})
  /\ UNCHANGED <<id, online, peers, did, saved, events, disturbed>>

-----------------------------------------------------------------------------
(* The rest of the world.                                                  *)

(* An agent handles its oldest request, whether or not the bot still waits *)
(* (its event loop is busy with one at a time).  /peer may be refused with *)
(* 503; any request may end with another error, before or after its effect.*)
Handle(n, effect, answer) ==
  /\ inbox[n] # <<>>
  /\ LET q == Head(inbox[n]) IN
     /\ answer = "ok" => effect
     /\ answer = "refused" => q.op = "peer" /\ ~effect
     /\ inbox' = [inbox EXCEPT ![n] = Tail(@)]
     /\ peers' = [peers EXCEPT ![n] =
                    CASE effect /\ q.op = "peer"   -> @ \cup {q.asn}
                      [] effect /\ q.op = "remove" -> @ \ {q.asn}
                      [] OTHER                     -> @]
     /\ did' = [did EXCEPT ![q.by] = IF effect /\ q.awaited THEN @ \cup {q.op} ELSE @]
     /\ order' = IF q.awaited THEN [order EXCEPT ![q.by].reply = answer] ELSE order
  /\ UNCHANGED <<id, online, saved, events, disturbed>>

(* A request never arrives, or the agent stops before it does anything.    *)
Lose(n) ==
  /\ inbox[n] # <<>>
  /\ inbox' = [inbox EXCEPT ![n] = Tail(@)]
  /\ UNCHANGED <<id, online, peers, order, saved, events, did, disturbed>>

(* servers_check, every three minutes, replaces base.servers.              *)
ServersCheck(S) ==
  /\ Happens("outage")
  /\ S # online
  /\ online' = S
  /\ UNCHANGED <<id, agents, order, saved, disturbed>>

(* telebot writes the waiting handlers to step.save two seconds after a    *)
(* change.                                                                 *)
Handlers == [o \in Orders |-> IF order[o].phase \in Waiting THEN order[o] ELSE NoOrder]

Save ==
  /\ MayHappen("restart")
  /\ saved # Handlers
  /\ saved' = Handlers
  /\ UNCHANGED <<id, online, agents, order, events, disturbed>>

(* The bot restarts: threads are gone, the handlers of the file wait again *)
(* and the file is deleted; the identity is in user_db.pkl.                *)
Restart ==
  /\ Happens("restart")
  /\ order' = [o \in Orders |->
                 IF saved[o].phase # "free" THEN saved[o]
                 ELSE IF order[o].phase \in Running \cup Waiting THEN [order[o] EXCEPT !.phase = "lost"]
                 ELSE order[o]]
  /\ saved' = [o \in Orders |-> NoOrder]
  /\ Abandon(Orders)
  /\ UNCHANGED <<id, online, peers, did, disturbed>>

Init ==
  /\ id \in ASNs
  /\ online = Nodes
  /\ peers \in [Nodes -> SUBSET ASNs]
  /\ inbox = [n \in Nodes |-> <<>>]
  /\ order = [o \in Orders |-> NoOrder]
  /\ saved = [o \in Orders |-> NoOrder]
  /\ events = {}
  /\ did = [o \in Orders |-> {}]
  /\ disturbed = {}

Thread(o) ==
  \/ Start(o) \/ Confirm(o) \/ Second(o) \/ HandleReply(o) \/ GiveUp(o)
  \/ \E n \in Nodes : AskUser(o, n) \/ Fill(o, n)

Next ==
  \/ \E o \in Orders : Thread(o) \/ \E k \in Kinds : Command(o, k)
  \/ \E msg \in {"/cancel", "yes"} \cup Orders : Answer(msg)
  \/ \E a \in ASNs \cup {None} : Switch(a)
  \/ \E n \in Nodes : Lose(n) \/ \E effect \in BOOLEAN, answer \in {"ok", "refused", "failed"} :
                                   Handle(n, effect, answer)
  \/ \E S \in SUBSET Nodes : ServersCheck(S)
  \/ Save \/ Restart

(* A worker thread goes on: nothing in it waits without a time limit.      *)
Fairness == \A o \in Orders : WF_vars(Thread(o))

Spec == Init /\ [][Next]_vars /\ Fairness

-----------------------------------------------------------------------------
(* Properties.                                                             *)

OrderType ==
  [phase : {"free"} \cup Waiting \cup Running \cup Ended, kind : Kinds, seen : SUBSET Nodes,
   shown : ASNs \cup {None}, asn : ASNs \cup {None}, node : Nodes \cup {None},
   from : Nodes \cup {None}, reply : {"ok", "refused", "failed", None}]

RequestType ==
  [op : {"peer", "remove", "restart"}, asn : ASNs, by : Orders, awaited : BOOLEAN]

(* Types.                                                                  *)
TypeOK ==
  /\ id \in ASNs \cup {None}
  /\ online \subseteq Nodes
  /\ peers \in [Nodes -> SUBSET ASNs]
  /\ inbox \in [Nodes -> Seq(RequestType)]
  /\ order \in [Orders -> OrderType]
  /\ saved \in [Orders -> OrderType]
  /\ events \subseteq Events
  /\ did \in [Orders -> SUBSET {"peer", "remove", "restart"}]
  /\ disturbed \subseteq Orders

Requests == UNION {{inbox[n][j] : j \in DOMAIN inbox[n]} : n \in Nodes}

(* An agent is asked to do something to the ASN the user was told at the   *)
(* start ("through the following identity").                               *)
ShownIsMeant == \A q \in Requests : q.asn = order[q.by].shown

(* ... which is true of an order during which the identity did not change. *)
ShownIsMeantUnlessSwitched ==
  \A q \in Requests : q.by \notin disturbed => q.asn = order[q.by].shown

(* What the bot tells at the end is true: "created", "modified", "deleted" *)
(* mean that the agents did all of it, "not open" and "cancelled" that     *)
(* they did nothing, whatever was late, lost, answered twice or restarted. *)
NeededFor(r) ==
  CASE r.kind = "peer"    -> {"peer"}
    [] r.kind = "modify"  -> {"peer", IF r.from = r.node THEN "restart" ELSE "remove"}
    [] OTHER              -> {r.kind}

SuccessIsTrue ==
  \A o \in Orders : order[o].phase = "done" => NeededFor(order[o]) \subseteq did[o]

NothingIsTrue ==
  \A o \in Orders : order[o].phase \in {"cancelled", "refused"} /\ "restart" \notin events => did[o] = {}

(* Every handler ends or waits for the user, and the bot is usable again.  *)
HandlersEnd == \A o \in Orders : order[o].phase \in Running ~> order[o].phase \notin Running

(* The orders as a registry of peers: a removal is ordered while a request *)
(* of a /remove is on its way, a node is released from when a modification *)
(* that leaves it finds the peer at the new node.                          *)
Removals(k) ==
  UNION {{<<inbox[n][j].asn, n>> : j \in {i \in DOMAIN inbox[n] :
            inbox[n][i].op = "remove" /\ order[inbox[n][i].by].kind = k}} : n \in Nodes}

Leaving ==
  {o \in Orders : /\ order[o].kind = "modify" /\ order[o].phase \in {"adding", "added"}
                  /\ order[o].from # order[o].node /\ "peer" \in did[o]}

Registry == INSTANCE PeerRegistry WITH
  where <- [a \in ASNs |-> {n \in Nodes : a \in peers[n]}],
  ordered <- Removals("remove"),
  released <- Removals("modify") \cup {<<order[o].asn, order[o].from>> : o \in Leaving}

(* Nothing but an order of its own user takes the peer of an ASN away, and *)
(* a move lets go of the old node only when the new one has the peer, as   *)
(* long as the identity does not change: also when orders overlap, answers *)
(* come late or never, requests are lost and the bot restarts.             *)
RegistrySpec == Registry!Spec

=============================================================================
