-------------------------- MODULE PeerOrdersProofs --------------------------
(***************************************************************************)
(* Theorems about PeerOrders, for any number of orders, nodes, ASNs and    *)
(* requests on their way: what the bot tells at the end is true, a request *)
(* means the identity shown to the user if that has not changed, and the   *)
(* orders implement PeerRegistry.                                          *)
(***************************************************************************)
EXTENDS PeerOrders, SequenceTheorems, TLAPS

Phases == {"free"} \cup Waiting \cup Running \cup Ended

New == {"free", "starting", "asking"}
Agreed == {"confirm", "confirmed", "added"} \cup Calling
Asked == {"form", "filling"} \cup Agreed

(* What the form holds by the time it is needed.                           *)
Fields(r) ==
  /\ r.phase \in Asked => r.node \in Nodes /\ (r.kind = "peer" => r.asn \in ASNs)
  /\ r.phase \in Agreed => r.from \in Nodes /\ (r.kind = "modify" => r.asn \in ASNs)

(* Which calls an order makes, and that only a call has an answer.         *)
Calls(r) ==
  /\ r.phase = "adding" => r.kind \in {"peer", "modify"}
  /\ r.phase = "added" => r.kind = "modify"
  /\ r.phase = "removing" => r.kind = "remove" \/ (r.kind = "modify" /\ r.from # r.node)
  /\ r.phase = "restarting" => r.kind = "restart" \/ (r.kind = "modify" /\ r.from = r.node)
  /\ r.reply # None => r.phase \in Calling \cup {"lost"}

OpOf(ph) == CASE ph = "adding" -> "peer" [] ph = "removing" -> "remove" [] OTHER -> "restart"

(* What agents have done for an order when it is where it is.              *)
Deeds(r, d) ==
  /\ r.phase \in Calling /\ r.reply = "ok" => OpOf(r.phase) \in d
  /\ r.phase \in Calling /\ r.reply = "refused" => r.phase = "adding" /\ d = {}
  /\ r.kind = "modify" /\ r.phase \in {"added", "removing", "restarting"} => "peer" \in d
  /\ r.phase = "done" => NeededFor(r) \subseteq d
  /\ "restart" \notin events /\ r.phase \in New \cup Waiting \cup {"filling", "confirmed", "cancelled", "refused"}
       => d = {}

(* What the user was told and what the form says is the identity of now.   *)
Meant(r) ==
  r.phase \in Asked =>
    /\ r.shown = id
    /\ r.kind = "peer" \/ (r.kind = "modify" /\ r.phase \in Agreed) => r.asn = r.shown

OrderInv(o) ==
  /\ Fields(order[o]) /\ Calls(order[o]) /\ Deeds(order[o], did[o])
  /\ o \notin disturbed => Meant(order[o])

(* A handler in the file is of the same dialogue, at an earlier place.     *)
SavedInv(o) ==
  /\ saved[o].phase \in {"free"} \cup Waiting
  /\ saved[o].reply = None
  /\ saved[o].phase # "free" =>
       /\ Fields(saved[o])
       /\ order[o].phase \notin New
       /\ saved[o].kind = order[o].kind /\ saved[o].shown = order[o].shown
       /\ o \notin disturbed => Meant(saved[o])

(* A request that is awaited is the one its order is at.                   *)
SentInv(n, q) ==
  /\ order[q.by].phase \notin New
  /\ q.op = "peer" => order[q.by].kind \in {"peer", "modify"}
  /\ q.op = "remove" => order[q.by].kind \in {"remove", "modify"}
  /\ q.by \notin disturbed => q.asn = order[q.by].shown
  /\ q.awaited =>
       /\ order[q.by].phase \in Calling /\ order[q.by].reply = None
       /\ q.op = OpOf(order[q.by].phase)
       /\ q.op = "peer" => n = order[q.by].node /\ q.asn = order[q.by].asn /\ did[q.by] = {}

InboxInv == \A n \in Nodes : \A j \in DOMAIN inbox[n] : SentInv(n, inbox[n][j])

AwaitedOnce ==
  \A n, m \in Nodes : \A j \in DOMAIN inbox[n], k \in DOMAIN inbox[m] :
    inbox[n][j].awaited /\ inbox[m][k].awaited /\ inbox[n][j].by = inbox[m][k].by => n = m /\ j = k

OrdersInv ==
  /\ TypeOK
  /\ \A o \in Orders : OrderInv(o) /\ SavedInv(o)
  /\ InboxInv
  /\ AwaitedOnce

(* While no other identity takes the place of one, a modification is about *)
(* the identity of now.                                                    *)
OneIdentity == "switch" \notin Events \/ \A a, b \in ASNs : a = b

Steady(r) == r.kind = "modify" /\ r.phase \in Agreed => id = None \/ r.asn = id

SteadyInv == \A o \in Orders : Steady(order[o]) /\ (saved[o].phase # "free" => Steady(saved[o]))

-----------------------------------------------------------------------------
(* What the steps do to an order, field by field.                          *)

(* No order but o is touched.                                              *)
Others(o) == \A p \in Orders \ {o} : order'[p] = order[p]

LEMMA NoOrderFacts ==
  /\ NoOrder \in OrderType
  /\ NoOrder.phase = "free" /\ NoOrder.reply = None
PROOF BY DEF NoOrder, OrderType, Kinds

(* Becomes changes the phase and forgets what the handler has read.        *)
LEMMA BecomesFacts ==
  ASSUME NEW o \in Orders, NEW ph \in Phases, order \in [Orders -> OrderType], Becomes(o, ph)
  PROVE  /\ order' \in [Orders -> OrderType]
         /\ Others(o)
         /\ order'[o].phase = ph /\ order'[o].reply = None
         /\ order'[o].kind = order[o].kind /\ order'[o].shown = order[o].shown
         /\ order'[o].asn = order[o].asn
         /\ order'[o].node = order[o].node /\ order'[o].from = order[o].from
PROOF
<1> DEFINE r == [order[o] EXCEPT !.phase = ph, !.seen = {}, !.reply = None]
<1>1. order[o] \in OrderType
  OBVIOUS
<1>2. /\ r \in OrderType
      /\ r.phase = ph /\ r.reply = None /\ r.kind = order[o].kind /\ r.shown = order[o].shown
      /\ r.asn = order[o].asn /\ r.node = order[o].node /\ r.from = order[o].from
  BY <1>1 DEF OrderType, Phases
<1>3. order' = [order EXCEPT ![o] = r]
  BY DEF Becomes
<1> HIDE DEF r
<1> QED
  BY <1>2, <1>3 DEF Others


(* An order that has been shown to the user stays what it is.              *)
Onward(o) ==
  order[o].phase \notin New =>
    /\ order'[o].phase \notin New
    /\ order'[o].kind = order[o].kind /\ order'[o].shown = order[o].shown

(* Where the ASN of a modification that is being carried out comes from,   *)
(* and how an order gets to where it leaves a node.                        *)
Moved(o) ==
  /\ Onward(o)
  /\ order'[o].kind = "modify" /\ order'[o].phase \in Agreed =>
       \/ order[o].kind = "modify" /\ order[o].phase \in Agreed /\ order'[o].asn = order[o].asn
       \/ order'[o].asn = id
       \/ order'[o] = saved[o]
  /\ order'[o].phase \in {"adding", "added"} =>
       \/ order[o].phase = "confirmed" /\ did'[o] = {}
       \/ /\ order[o].phase \in {"adding", "added"} /\ order'[o].kind = order[o].kind
          /\ order'[o].asn = order[o].asn
          /\ order'[o].node = order[o].node /\ order'[o].from = order[o].from

AllMoved == \A o \in Orders : Moved(o)

LEMMA SameMoved ==
  ASSUME NEW o \in Orders, order'[o] = order[o]
  PROVE  Moved(o)
PROOF BY DEF Moved, Onward

(* No request of the order is awaited.                                     *)
Idle(o) == ~(order[o].phase \in Calling /\ order[o].reply = None)

-----------------------------------------------------------------------------
(* The parts of the invariant about the file and the requests.             *)

LEMMA SavedKept ==
  ASSUME NEW o \in Orders, SavedInv(o), Onward(o), saved'[o] = saved[o], id' = id,
         disturbed \subseteq disturbed'
  PROVE  SavedInv(o)'
PROOF BY DEF SavedInv, Onward, Fields, Meant

LEMMA SentKept ==
  ASSUME NEW n \in Nodes, NEW q \in RequestType, SentInv(n, q), Onward(q.by),
         disturbed \subseteq disturbed',
         q.awaited => order'[q.by] = order[q.by] /\ did'[q.by] = did[q.by]
  PROVE  SentInv(n, q)'
PROOF BY DEF SentInv, Onward

LEMMA AwaitedNotIdle ==
  ASSUME NEW n \in Nodes, NEW q \in RequestType, SentInv(n, q), q.awaited
  PROVE  ~Idle(q.by)
PROOF BY DEF SentInv, Idle

LEMMA RequestOf ==
  ASSUME inbox \in [Nodes -> Seq(RequestType)], NEW n \in Nodes, NEW j \in DOMAIN inbox[n]
  PROVE  inbox[n][j] \in RequestType /\ inbox[n][j].by \in Orders
PROOF
<1>1. inbox[n] \in Seq(RequestType)
  OBVIOUS
<1>2. inbox[n][j] \in RequestType
  BY <1>1, ElementOfSeq, LenProperties
<1> QED
  BY <1>2 DEF RequestType

(* A step of threads that wait for no answer, and that sends nothing.      *)
LEMMA LocalStep ==
  ASSUME OrdersInv, order' \in [Orders -> OrderType],
         UNCHANGED <<id, online, peers, inbox, saved, events, did, disturbed>>,
         \A o \in Orders : order'[o] = order[o] \/ (Idle(o) /\ Moved(o) /\ OrderInv(o)')
  PROVE  OrdersInv' /\ AllMoved
PROOF
<1>1. TypeOK'
  BY DEF OrdersInv, TypeOK
<1>2. \A o \in Orders : Moved(o) /\ Onward(o)
  <2>1. \A o \in Orders : Moved(o)
    BY SameMoved
  <2> QED
    BY <2>1 DEF Moved
<1>3. ASSUME NEW o \in Orders
      PROVE  OrderInv(o)' /\ SavedInv(o)'
  <2>1. SavedInv(o)'
    BY <1>2, SavedKept DEF OrdersInv
  <2>2. OrderInv(o)'
    <3>1. CASE order'[o] = order[o]
      BY <3>1 DEF OrdersInv, OrderInv, Fields, Calls, Deeds, Meant, OpOf, NeededFor
    <3> QED
      BY <3>1
  <2> QED
    BY <2>1, <2>2
<1>4. InboxInv'
  <2> SUFFICES ASSUME NEW n \in Nodes, NEW j \in DOMAIN inbox[n]
               PROVE  SentInv(n, inbox[n][j])'
    BY DEF InboxInv
  <2>1. PICK q : q = inbox[n][j]
    OBVIOUS
  <2>2. q \in RequestType /\ q.by \in Orders
    BY <2>1, RequestOf DEF OrdersInv, TypeOK
  <2>3. SentInv(n, q)
    BY <2>1 DEF OrdersInv, InboxInv
  <2>4. SentInv(n, q)'
    BY <1>2, <2>2, <2>3, SentKept, AwaitedNotIdle
  <2> QED
    BY <2>1, <2>4 DEF SentInv
<1>5. AwaitedOnce'
  BY DEF OrdersInv, AwaitedOnce
<1> QED
  BY <1>1, <1>2, <1>3, <1>4, <1>5 DEF OrdersInv, AllMoved

(* The same when one order becomes r.                                      *)
LEMMA OneOrderStep ==
  ASSUME OrdersInv, NEW o \in Orders, order' \in [Orders -> OrderType], Others(o),
         UNCHANGED <<id, online, agents, saved, events, disturbed>>,
         Idle(o), Moved(o), OrderInv(o)'
  PROVE  OrdersInv' /\ AllMoved
PROOF BY LocalStep DEF Others, agents

LEMMA Replaced ==
  ASSUME NEW o \in Orders, NEW r \in OrderType, order \in [Orders -> OrderType],
         order' = [order EXCEPT ![o] = r]
  PROVE  order' \in [Orders -> OrderType] /\ Others(o) /\ order'[o] = r
PROOF BY DEF Others

LEMMA OrderOf ==
  ASSUME OrdersInv, NEW o \in Orders
  PROVE  /\ order \in [Orders -> OrderType] /\ order[o] \in OrderType
         /\ order[o].phase \in Phases /\ order[o].kind \in Kinds
         /\ order[o].node \in Nodes \cup {None} /\ order[o].asn \in ASNs \cup {None}
         /\ Fields(order[o]) /\ Calls(order[o]) /\ Deeds(order[o], did[o])
         /\ o \notin disturbed => Meant(order[o])
PROOF
<1>1. order \in [Orders -> OrderType] /\ order[o] \in OrderType
  BY DEF OrdersInv, TypeOK
<1> QED
  BY <1>1 DEF OrdersInv, OrderInv, OrderType, Phases

-----------------------------------------------------------------------------
(* Steps of threads and messages that only change orders.                  *)

(* A handler that ends with nothing said that would have to be true.       *)
LEMMA EndKeeps ==
  ASSUME OrdersInv, NEW o \in Orders, NEW ph \in {"lost", "failed", "half"}, Becomes(o, ph),
         UNCHANGED <<id, online, agents, saved, events, disturbed>>, Idle(o)
  PROVE  OrdersInv' /\ AllMoved
PROOF
<1> USE OrderOf, BecomesFacts
<1>1. Moved(o)
  BY DEF Moved, Onward, Agreed, Calling, Phases, Ended, New
<1>2. OrderInv(o)'
  BY DEF OrderInv, Fields, Calls, Deeds, Meant, Phases, Ended, Agreed, Asked, Waiting, Calling, New, agents
<1> QED
  BY <1>1, <1>2, OneOrderStep DEF Phases, Ended

LEMMA CommandKeeps ==
  ASSUME OrdersInv, NEW o \in Orders, NEW k \in Kinds, Command(o, k)
  PROVE  OrdersInv' /\ AllMoved
PROOF
<1> DEFINE r == [NoOrder EXCEPT !.kind = k, !.phase = "starting"]
<1>1. r \in OrderType /\ r.phase = "starting" /\ r.reply = None
  BY DEF NoOrder, OrderType, Running
<1>2. order' = [order EXCEPT ![o] = r] /\ order[o].phase = "free"
      /\ UNCHANGED <<id, online, agents, saved, events, disturbed>>
  BY DEF Command
<1> HIDE DEF r
<1>3. order' \in [Orders -> OrderType] /\ Others(o) /\ order'[o] = r
  BY <1>1, <1>2, Replaced, OrderOf
<1>4. Idle(o) /\ Moved(o)
  BY <1>1, <1>2, <1>3 DEF Idle, Moved, Onward, Agreed, Calling, New
<1>5. OrderInv(o)'
  BY <1>1, <1>2, <1>3, OrderOf DEF OrderInv, Fields, Calls, Deeds, Meant, Agreed, Asked, Calling, New, agents
<1> QED
  BY <1>2, <1>3, <1>4, <1>5, OneOrderStep

LEMMA AnswerKeeps ==
  ASSUME OrdersInv, NEW msg, Answer(msg)
  PROVE  OrdersInv' /\ AllMoved
PROOF
<1>1. ASSUME NEW o \in Orders
      PROVE  /\ order'[o] \in OrderType
             /\ order'[o] = order[o] \/ (Idle(o) /\ Moved(o) /\ OrderInv(o)')
  <2> DEFINE ph == Answered(o, msg)
             r == [order[o] EXCEPT !.phase = ph]
  <2>1. order'[o] = r /\ UNCHANGED <<id, did, events, disturbed>>
    BY DEF Answer, agents
  <2>2. order[o] \in OrderType
    BY OrderOf
  <2>3. CASE order[o].phase \notin Waiting
    <3>1. ph = order[o].phase
      BY <2>3 DEF Answered, Waiting
    <3>2. r = order[o]
      BY <3>1, <2>2 DEF OrderType
    <3> QED
      BY <3>2, <2>1, <2>2
  <2>4. CASE order[o].phase \in Waiting
    <3>1. ph \in {"cancelled", "filling", "confirmed"} /\ (ph = "confirmed" => order[o].phase = "confirm")
      BY <2>4 DEF Answered, Waiting
    <3> HIDE DEF ph
    <3>2. /\ r \in OrderType
          /\ r.phase = ph /\ r.kind = order[o].kind /\ r.shown = order[o].shown
          /\ r.asn = order[o].asn /\ r.node = order[o].node /\ r.from = order[o].from
          /\ r.reply = order[o].reply
      BY <3>1, <2>2 DEF OrderType, Running, Ended
    <3> HIDE DEF r
    <3>3. Idle(o) /\ Moved(o)
      BY <2>1, <2>4, <3>1, <3>2 DEF Idle, Moved, Onward, Agreed, Calling, New, Waiting
    <3>4. OrderInv(o)'
      BY <2>1, <2>4, <3>1, <3>2, OrderOf
         DEF OrderInv, Fields, Calls, Deeds, Meant, Agreed, Asked, Calling, New, Waiting
    <3> QED
      BY <2>1, <3>2, <3>3, <3>4
  <2> QED
    BY <2>3, <2>4
<1>2. order' \in [Orders -> OrderType]
  <2>1. order' = [o \in Orders |-> order'[o]]
    BY DEF Answer
  <2> QED
    BY <2>1, <1>1
<1> QED
  BY <1>1, <1>2, LocalStep DEF Answer, agents

LEMMA StartKeeps ==
  ASSUME OrdersInv, NEW o \in Orders, Start(o)
  PROVE  OrdersInv' /\ AllMoved
PROOF
<1> DEFINE S == {n \in online : id \in peers[n] /\ inbox[n] = <<>>}
           r == [order[o] EXCEPT !.phase = "asking", !.seen = S]
<1>1. /\ order[o].phase = "starting" /\ UNCHANGED <<id, online, agents, saved, events, disturbed>>
      /\ Becomes(o, "cancelled") \/ order' = [order EXCEPT ![o] = r]
  BY DEF Start
<1>2. S \subseteq Nodes
  BY DEF OrdersInv, TypeOK
<1> HIDE DEF S
<1>3. r \in OrderType /\ r.phase = "asking" /\ r.reply = order[o].reply
  BY <1>2, OrderOf DEF OrderType, Running
<1> HIDE DEF r
<1>4. /\ order' \in [Orders -> OrderType] /\ Others(o)
      /\ order'[o].phase \in {"cancelled", "asking"}
      /\ order'[o].reply = None
  <2>1. CASE Becomes(o, "cancelled")
    BY <2>1, OrderOf, BecomesFacts DEF Phases, Ended
  <2>2. CASE order' = [order EXCEPT ![o] = r]
    BY <2>2, <1>1, <1>3, OrderOf, Replaced DEF Calls, Calling
  <2> QED
    BY <1>1, <2>1, <2>2
<1>5. Idle(o) /\ Moved(o)
  BY <1>1, <1>4 DEF Idle, Moved, Onward, Agreed, Calling, New
<1>6. OrderInv(o)'
  BY <1>1, <1>4, OrderOf DEF OrderInv, Fields, Calls, Deeds, Meant, Agreed, Asked, Calling, New, agents
<1> QED
  BY <1>1, <1>4, <1>5, <1>6, OneOrderStep

LEMMA AskUserKeeps ==
  ASSUME OrdersInv, NEW o \in Orders, NEW n \in Nodes, AskUser(o, n)
  PROVE  OrdersInv' /\ AllMoved
PROOF
<1> DEFINE r == [order[o] EXCEPT !.phase = "form", !.shown = id, !.node = n,
                   !.asn = IF order[o].kind = "peer" THEN id ELSE None]
<1>1. /\ order[o].phase = "asking" /\ UNCHANGED <<id, online, agents, saved, events, disturbed>>
      /\ Becomes(o, "lost") \/ (id # None /\ order' = [order EXCEPT ![o] = r])
  BY DEF AskUser
<1>2. Idle(o)
  BY <1>1 DEF Idle, Calling
<1>3. CASE Becomes(o, "lost")
  BY <1>1, <1>2, <1>3, EndKeeps
<1>4. CASE id # None /\ order' = [order EXCEPT ![o] = r]
  <2>1. id \in ASNs
    BY <1>4 DEF OrdersInv, TypeOK
  <2>2. /\ r \in OrderType /\ r.phase = "form" /\ r.shown = id /\ r.node = n /\ r.kind = order[o].kind
        /\ r.kind = "peer" => r.asn = id
        /\ r.reply = order[o].reply
    BY <2>1, OrderOf DEF OrderType, Waiting
  <2> HIDE DEF r
  <2>3. order' \in [Orders -> OrderType] /\ Others(o) /\ order'[o] = r
    BY <1>4, <2>2, Replaced, OrderOf
  <2>4. Moved(o)
    BY <1>1, <2>2, <2>3 DEF Moved, Onward, Agreed, Calling, New
  <2>5. OrderInv(o)'
    BY <1>1, <2>1, <2>2, <2>3, OrderOf
       DEF OrderInv, Fields, Calls, Deeds, Meant, Agreed, Asked, Calling, New, Waiting, agents
  <2> QED
    BY <1>1, <1>2, <2>3, <2>4, <2>5, OneOrderStep
<1> QED
  BY <1>1, <1>3, <1>4

LEMMA FillKeeps ==
  ASSUME OrdersInv, NEW o \in Orders, NEW n \in Nodes, Fill(o, n)
  PROVE  OrdersInv' /\ AllMoved
PROOF
<1> DEFINE r == [order[o] EXCEPT !.phase = "confirm", !.seen = {}, !.node = n, !.from = order[o].node,
                   !.asn = IF order[o].kind \in {"modify", "remove"} THEN id ELSE @]
           Named == order[o].kind \in {"modify", "remove"} => id # None
<1>1. /\ order[o].phase = "filling" /\ UNCHANGED <<id, online, agents, saved, events, disturbed>>
      /\ Becomes(o, "lost") \/ (Named /\ order' = [order EXCEPT ![o] = r])
  BY DEF Fill
<1>2. Idle(o)
  BY <1>1 DEF Idle, Calling
<1>3. CASE Becomes(o, "lost")
  BY <1>1, <1>2, <1>3, EndKeeps
<1>4. CASE Named /\ order' = [order EXCEPT ![o] = r]
  <2>1. id \in ASNs \cup {None}
    BY DEF OrdersInv, TypeOK
  <2>2. order[o].node \in Nodes /\ (order[o].kind = "peer" => order[o].asn \in ASNs)
    BY <1>1, OrderOf DEF Fields, Asked
  <2>3. /\ r \in OrderType /\ r.phase = "confirm" /\ r.node = n /\ r.from = order[o].node
        /\ r.kind = order[o].kind /\ r.shown = order[o].shown /\ r.reply = order[o].reply
        /\ r.kind = "modify" => r.asn = id
        /\ r.kind = "peer" => r.asn = order[o].asn
    BY <2>1, <2>2, OrderOf DEF OrderType, Waiting
  <2> HIDE DEF r
  <2>4. order' \in [Orders -> OrderType] /\ Others(o) /\ order'[o] = r
    BY <1>4, <2>3, Replaced, OrderOf
  <2>5. Moved(o)
    BY <1>1, <2>3, <2>4 DEF Moved, Onward, Agreed, New
  <2>6. OrderInv(o)'
    BY <1>1, <1>4, <2>1, <2>2, <2>3, <2>4, OrderOf
       DEF OrderInv, Fields, Calls, Deeds, Meant, Agreed, Asked, Calling, New, Waiting, agents
  <2> QED
    BY <1>1, <1>2, <2>4, <2>5, <2>6, OneOrderStep
<1> QED
  BY <1>1, <1>3, <1>4

(* The one step of a call that is answered: what the bot tells is what the *)
(* agents did.                                                             *)
LEMMA HandleReplyKeeps ==
  ASSUME OrdersInv, NEW o \in Orders, HandleReply(o)
  PROVE  OrdersInv' /\ AllMoved
PROOF
<1> DEFINE ph == Outcome(order[o])
<1>1. /\ order[o].phase \in Calling /\ order[o].reply # None /\ Becomes(o, ph)
      /\ UNCHANGED <<id, online, agents, saved, events, disturbed>>
  BY DEF HandleReply
<1>2. ph \in {"done", "added", "refused", "half", "failed"}
  BY DEF Outcome
<1>3. /\ order' \in [Orders -> OrderType] /\ Others(o)
      /\ order'[o].phase = ph /\ order'[o].reply = None
      /\ order'[o].kind = order[o].kind /\ order'[o].shown = order[o].shown
      /\ order'[o].asn = order[o].asn
      /\ order'[o].node = order[o].node /\ order'[o].from = order[o].from
  <2> HIDE DEF ph
  <2> QED
    BY <1>1, <1>2, OrderOf, BecomesFacts DEF Phases, Ended, Running
<1>4. ph = "done" => NeededFor(order[o]) \subseteq did[o]
  <2>1. CASE order[o].phase = "adding"
    BY <1>1, <2>1, OrderOf DEF Outcome, NeededFor, Deeds, OpOf, Calls
  <2>2. CASE order[o].phase = "removing"
    BY <1>1, <2>2, OrderOf DEF Outcome, NeededFor, Deeds, OpOf, Calls
  <2>3. CASE order[o].phase = "restarting"
    BY <1>1, <2>3, OrderOf DEF Outcome, NeededFor, Deeds, OpOf, Calls
  <2> QED
    BY <1>1, <2>1, <2>2, <2>3 DEF Calling
<1>5. /\ ph = "refused" => did[o] = {}
      /\ ph = "added" => order[o].phase = "adding" /\ order[o].kind = "modify" /\ "peer" \in did[o]
  BY <1>1, OrderOf DEF Outcome, Deeds, OpOf, Calls
<1> HIDE DEF ph
<1>6. Idle(o) /\ Moved(o)
  BY <1>1, <1>2, <1>3, <1>5 DEF Idle, Moved, Onward, Agreed, Calling, New
<1>7. OrderInv(o)'
  <2>1. Fields(order[o])' /\ Calls(order[o])'
    BY <1>1, <1>2, <1>3, <1>5, OrderOf DEF Fields, Calls, Agreed, Asked, Calling
  <2>2. o \notin disturbed => Meant(order[o])'
    BY <1>1, <1>2, <1>3, OrderOf DEF Meant, Agreed, Asked, Calling
  <2>3. NeededFor(order[o])' = NeededFor(order[o])
    BY <1>3 DEF NeededFor
  <2>4. Deeds(order[o], did[o])'
    BY <1>1, <1>2, <1>3, <1>4, <1>5, <2>3 DEF Deeds, Calling, New, Waiting, agents
  <2> QED
    BY <1>1, <2>1, <2>2, <2>4 DEF OrderInv
<1> QED
  BY <1>1, <1>3, <1>6, <1>7, OneOrderStep

-----------------------------------------------------------------------------
(* Steps that send a request.                                              *)

(* After a request was sent every slot is an old one or the new one.       *)
LEMMA PostFacts ==
  ASSUME inbox \in [Nodes -> Seq(RequestType)], NEW n \in Nodes, NEW q \in RequestType,
         inbox' = [inbox EXCEPT ![n] = Append(@, q)]
  PROVE  /\ inbox' \in [Nodes -> Seq(RequestType)]
         /\ \A m \in Nodes : \A j \in DOMAIN inbox'[m] :
              \/ m = n /\ j = Len(inbox[n]) + 1 /\ inbox'[m][j] = q
              \/ j \in DOMAIN inbox[m] /\ inbox'[m][j] = inbox[m][j]
PROOF
<1>1. inbox[n] \in Seq(RequestType)
  OBVIOUS
<1> DEFINE s == inbox[n]
           t == Append(s, q)
<1>2. /\ t \in Seq(RequestType) /\ Len(t) = Len(s) + 1 /\ t[Len(s) + 1] = q
      /\ \A i \in 1..Len(s) : t[i] = s[i]
  BY <1>1, AppendProperties
<1>3. Len(s) \in Nat /\ DOMAIN s = 1..Len(s) /\ DOMAIN t = 1..Len(t)
  BY <1>1, <1>2, LenProperties
<1> HIDE DEF t
<1>4. inbox' = [inbox EXCEPT ![n] = t]
  BY DEF t
<1>5. inbox' \in [Nodes -> Seq(RequestType)]
  BY <1>2, <1>4
<1>6. ASSUME NEW m \in Nodes, NEW j \in DOMAIN inbox'[m]
      PROVE  \/ m = n /\ j = Len(inbox[n]) + 1 /\ inbox'[m][j] = q
             \/ j \in DOMAIN inbox[m] /\ inbox'[m][j] = inbox[m][j]
  <2>1. CASE m = n
    <3>1. inbox'[m] = t
      BY <1>4, <2>1
    <3>2. j \in 1..(Len(s) + 1)
      BY <1>2, <1>3, <3>1
    <3> QED
      BY <1>2, <1>3, <2>1, <3>1, <3>2
  <2>2. CASE m # n
    BY <1>4, <2>2
  <2> QED
    BY <2>1, <2>2
<1> QED
  BY <1>5, <1>6

LEMMA SendStep ==
  ASSUME OrdersInv, NEW o \in Orders, NEW n \in Nodes, NEW q \in RequestType,
         q.by = o, inbox' = [inbox EXCEPT ![n] = Append(@, q)], SentInv(n, q)',
         order' \in [Orders -> OrderType], Others(o), Idle(o), Moved(o), OrderInv(o)',
         did' = [did EXCEPT ![o] = {}] \/ did' = did,
         UNCHANGED <<id, online, peers, saved, events, disturbed>>
  PROVE  OrdersInv' /\ AllMoved
PROOF
<1>1. /\ inbox' \in [Nodes -> Seq(RequestType)]
      /\ \A m \in Nodes : \A j \in DOMAIN inbox'[m] :
           \/ m = n /\ j = Len(inbox[n]) + 1 /\ inbox'[m][j] = q
           \/ j \in DOMAIN inbox[m] /\ inbox'[m][j] = inbox[m][j]
  BY PostFacts DEF OrdersInv, TypeOK
<1>2. TypeOK'
  BY <1>1 DEF OrdersInv, TypeOK
<1>3. \A p \in Orders : p # o => order'[p] = order[p] /\ did'[p] = did[p]
  BY DEF Others, OrdersInv, TypeOK
<1>4. \A p \in Orders : Moved(p) /\ Onward(p)
  <2>1. \A p \in Orders : Moved(p)
    BY <1>3, SameMoved
  <2> QED
    BY <2>1 DEF Moved
<1>5. ASSUME NEW p \in Orders
      PROVE  OrderInv(p)' /\ SavedInv(p)'
  <2>1. SavedInv(p)'
    BY <1>4, SavedKept DEF OrdersInv
  <2>2. CASE p # o
    <3>1. order'[p] = order[p] /\ did'[p] = did[p]
      BY <1>3, <2>2
    <3>2. OrderInv(p)'
      BY <3>1 DEF OrdersInv, OrderInv, Fields, Calls, Deeds, Meant, OpOf, NeededFor
    <3> QED
      BY <2>1, <3>2
  <2> QED
    BY <2>1, <2>2
<1>6. ASSUME NEW m \in Nodes, NEW j \in DOMAIN inbox[m], NEW u, u = inbox[m][j]
      PROVE  /\ u \in RequestType /\ u.by \in Orders /\ SentInv(m, u)
             /\ u.awaited => u.by # o
  <2>1. u \in RequestType /\ u.by \in Orders /\ SentInv(m, u)
    BY <1>6, RequestOf DEF OrdersInv, TypeOK, InboxInv
  <2> QED
    BY <2>1, AwaitedNotIdle
<1>7. InboxInv'
  <2> SUFFICES ASSUME NEW m \in Nodes, NEW j \in DOMAIN inbox'[m]
               PROVE  SentInv(m, inbox[m][j])'
    BY DEF InboxInv
  <2>1. PICK u : u = inbox'[m][j]
    OBVIOUS
  <2>2. SentInv(m, u)'
    <3>1. CASE m = n /\ u = q
      BY <3>1
    <3>2. CASE j \in DOMAIN inbox[m] /\ u = inbox[m][j]
      BY <1>3, <1>4, <1>6, <3>2, SentKept
    <3> QED
      BY <1>1, <2>1, <3>1, <3>2
  <2> QED
    BY <2>1, <2>2 DEF SentInv
<1>8. AwaitedOnce'
  <2> SUFFICES ASSUME NEW m \in Nodes, NEW l \in Nodes, NEW j \in DOMAIN inbox'[m], NEW k \in DOMAIN inbox'[l],
                      inbox'[m][j].awaited, inbox'[l][k].awaited, inbox'[m][j].by = inbox'[l][k].by
               PROVE  m = l /\ j = k
    BY DEF AwaitedOnce
  <2>1. CASE m = n /\ j = Len(inbox[n]) + 1 /\ inbox'[m][j] = q
    BY <1>1, <1>6, <2>1
  <2>2. CASE l = n /\ k = Len(inbox[n]) + 1 /\ inbox'[l][k] = q
    BY <1>1, <1>6, <2>2
  <2>3. CASE /\ j \in DOMAIN inbox[m] /\ inbox'[m][j] = inbox[m][j]
             /\ k \in DOMAIN inbox[l] /\ inbox'[l][k] = inbox[l][k]
    BY <2>3 DEF OrdersInv, AwaitedOnce
  <2> QED
    BY <1>1, <2>1, <2>2, <2>3
<1> QED
  BY <1>2, <1>4, <1>5, <1>7, <1>8 DEF OrdersInv, AllMoved

(* A thread that posts a request the invariant agrees with.  The fields of *)
(* the order stay, so it is enough to look at the call that is made.       *)
LEMMA PostKeeps ==
  ASSUME OrdersInv, NEW o \in Orders, NEW ph \in Calling, NEW n \in Nodes, NEW op, NEW a \in ASNs,
         Post(o, ph, n, op, a), op = OpOf(ph),
         UNCHANGED <<id, online, saved, events, disturbed>>,
         order[o].phase \in {"confirmed", "added"},
         ph = "adding" =>
           /\ order[o].phase = "confirmed" /\ order[o].kind \in {"peer", "modify"}
           /\ n = order[o].node /\ a = order[o].asn,
         ph = "removing" => order[o].kind = "remove" \/ (order[o].kind = "modify" /\ order[o].from # order[o].node),
         ph = "restarting" => order[o].kind = "restart" \/ (order[o].kind = "modify" /\ order[o].from = order[o].node),
         order[o].phase = "confirmed" /\ order[o].kind = "modify" => ph = "adding",
         IF order[o].phase = "confirmed" THEN did' = [did EXCEPT ![o] = {}] ELSE did' = did,
         o \notin disturbed => a = order[o].shown
  PROVE  OrdersInv' /\ AllMoved
PROOF
<1> DEFINE r == [order[o] EXCEPT !.phase = ph, !.reply = None]
           q == [op |-> op, asn |-> a, by |-> o, awaited |-> TRUE]
<1>1. /\ order' = [order EXCEPT ![o] = r]
      /\ inbox' = [inbox EXCEPT ![n] = Append(@, q)] /\ UNCHANGED peers
  BY DEF Post
<1>2. /\ r \in OrderType /\ r.phase = ph /\ r.reply = None
      /\ r.kind = order[o].kind /\ r.shown = order[o].shown /\ r.asn = order[o].asn
      /\ r.node = order[o].node /\ r.from = order[o].from
  BY OrderOf DEF OrderType, Running
<1> HIDE DEF r
<1>3. order' \in [Orders -> OrderType] /\ Others(o) /\ order'[o] = r
  BY <1>1, <1>2, OrderOf, Replaced
<1>4. q \in RequestType /\ q.op = op /\ q.asn = a /\ q.by = o /\ q.awaited
  BY DEF RequestType, OpOf
<1> HIDE DEF q
<1>6. did'[o] = IF order[o].phase = "confirmed" THEN {} ELSE did[o]
  BY DEF OrdersInv, TypeOK
<1>5. Idle(o) /\ Moved(o)
  BY <1>2, <1>3, <1>6 DEF Idle, Moved, Onward, Agreed, Calling, New
<1>7. OrderInv(o)'
  <2>1. Fields(order[o])' /\ Calls(order[o])'
    BY <1>2, <1>3, OrderOf DEF Fields, Calls, Agreed, Asked, Calling
  <2>2. o \notin disturbed => Meant(order[o])'
    BY <1>2, <1>3, OrderOf DEF Meant, Agreed, Asked
  <2>3. Deeds(order[o], did[o])'
    BY <1>2, <1>3, <1>6, OrderOf, OrdersAssumption DEF Deeds, Calling, New, Waiting, Calls
  <2> QED
    BY <2>1, <2>2, <2>3 DEF OrderInv
<1>8. SentInv(n, q)'
  BY <1>2, <1>3, <1>4, <1>6 DEF SentInv, OpOf, Calling, New
<1> QED
  BY <1>1, <1>3, <1>4, <1>5, <1>7, <1>8, SendStep

LEMMA ConfirmKeeps ==
  ASSUME OrdersInv, NEW o \in Orders, Confirm(o)
  PROVE  OrdersInv' /\ AllMoved
PROOF
<1> DEFINE r == order[o]
<1>1. r.phase = "confirmed" /\ UNCHANGED <<id, online, saved, events, disturbed>>
  BY DEF Confirm
<1>2. CASE id = None
  <2> DEFINE ph == IF r.kind \in {"peer", "modify"} THEN "lost" ELSE "failed"
  <2>1. Becomes(o, ph) /\ UNCHANGED agents
    BY <1>2 DEF Confirm
  <2>2. ph \in {"lost", "failed", "half"} /\ Idle(o)
    BY <1>1 DEF Idle, Calling
  <2> HIDE DEF ph
  <2> QED
    BY <1>1, <2>1, <2>2, EndKeeps
<1>3. CASE id # None
  <2>1. id \in ASNs /\ did' = [did EXCEPT ![o] = {}]
    BY <1>3 DEF OrdersInv, TypeOK, Confirm
  <2>2. r.node \in Nodes /\ (r.kind \in {"peer", "modify"} => r.asn \in ASNs)
    BY <1>1, OrderOf DEF Fields, Asked, Agreed
  <2>3. o \notin disturbed => id = r.shown /\ (r.kind \in {"peer", "modify"} => r.asn = r.shown)
    BY <1>1, OrderOf DEF Meant, Asked, Agreed
  <2>4. CASE r.kind \in {"peer", "modify"}
    <3>1. Post(o, "adding", r.node, "peer", r.asn)
      BY <1>3, <2>4 DEF Confirm
    <3> QED
      BY <1>1, <2>1, <2>2, <2>3, <2>4, <3>1, PostKeeps DEF Calling, OpOf
  <2>5. CASE r.kind = "remove"
    <3>1. Post(o, "removing", r.node, "remove", id)
      BY <1>3, <2>5 DEF Confirm
    <3> QED
      BY <1>1, <2>1, <2>2, <2>3, <2>5, <3>1, PostKeeps DEF Calling, OpOf
  <2>6. CASE r.kind = "restart"
    <3>1. Post(o, "restarting", r.node, "restart", id)
      BY <1>3, <2>6 DEF Confirm
    <3> QED
      BY <1>1, <2>1, <2>2, <2>3, <2>6, <3>1, PostKeeps DEF Calling, OpOf
  <2> QED
    BY <2>4, <2>5, <2>6, OrderOf DEF Kinds
<1> QED
  BY <1>2, <1>3

LEMMA SecondKeeps ==
  ASSUME OrdersInv, NEW o \in Orders, Second(o)
  PROVE  OrdersInv' /\ AllMoved
PROOF
<1> DEFINE r == order[o]
<1>1. r.phase = "added" /\ UNCHANGED <<id, online, saved, events, disturbed>>
  BY DEF Second
<1>2. CASE id = None
  <2>1. Becomes(o, "failed") /\ UNCHANGED agents
    BY <1>2 DEF Second
  <2>2. Idle(o)
    BY <1>1 DEF Idle, Calling
  <2> QED
    BY <1>1, <2>1, <2>2, EndKeeps
<1>3. CASE id # None
  <2>1. id \in ASNs /\ did' = did
    BY <1>3 DEF OrdersInv, TypeOK, Second
  <2>2. r.node \in Nodes /\ r.from \in Nodes /\ r.kind = "modify"
    BY <1>1, OrderOf DEF Fields, Calls, Asked, Agreed
  <2>3. o \notin disturbed => id = r.shown
    BY <1>1, OrderOf DEF Meant, Asked, Agreed
  <2>4. CASE r.from = r.node
    <3>1. Post(o, "restarting", r.node, "restart", id)
      BY <1>3, <2>4 DEF Second
    <3> QED
      BY <1>1, <2>1, <2>2, <2>3, <2>4, <3>1, PostKeeps DEF Calling, OpOf
  <2>5. CASE r.from # r.node
    <3>1. Post(o, "removing", r.from, "remove", id)
      BY <1>3, <2>5 DEF Second
    <3> QED
      BY <1>1, <2>1, <2>2, <2>3, <2>5, <3>1, PostKeeps DEF Calling, OpOf
  <2> QED
    BY <2>4, <2>5
<1> QED
  BY <1>2, <1>3

-----------------------------------------------------------------------------
(* Steps that forget requests, or lose or handle one.                      *)

LEMMA FunctionIsSeq ==
  ASSUME NEW S, NEW m \in Nat, NEW s \in [1..m -> S]
  PROVE  s \in Seq(S)
PROOF BY SeqDef

(* The requests stay where they are; those of S are no longer awaited.     *)
LEMMA AbandonFacts ==
  ASSUME inbox \in [Nodes -> Seq(RequestType)], NEW S, Abandon(S)
  PROVE  /\ inbox' \in [Nodes -> Seq(RequestType)]
         /\ \A n \in Nodes : \A j \in DOMAIN inbox'[n] :
              /\ j \in DOMAIN inbox[n]
              /\ inbox'[n][j].op = inbox[n][j].op /\ inbox'[n][j].asn = inbox[n][j].asn
              /\ inbox'[n][j].by = inbox[n][j].by
              /\ inbox'[n][j].awaited => inbox[n][j].awaited /\ inbox[n][j].by \notin S
PROOF
<1> DEFINE f(n) == [j \in DOMAIN inbox[n] |-> [inbox[n][j] EXCEPT !.awaited = @ /\ inbox[n][j].by \notin S]]
<1>1. inbox' = [n \in Nodes |-> f(n)]
  BY DEF Abandon
<1>2. ASSUME NEW n \in Nodes
      PROVE  /\ f(n) \in Seq(RequestType) /\ DOMAIN f(n) = DOMAIN inbox[n]
             /\ \A j \in DOMAIN inbox[n] :
                  /\ f(n)[j].op = inbox[n][j].op /\ f(n)[j].asn = inbox[n][j].asn
                  /\ f(n)[j].by = inbox[n][j].by
                  /\ f(n)[j].awaited => inbox[n][j].awaited /\ inbox[n][j].by \notin S
  <2>1. Len(inbox[n]) \in Nat /\ DOMAIN inbox[n] = 1..Len(inbox[n])
    BY LenProperties
  <2>2. ASSUME NEW j \in DOMAIN inbox[n]
        PROVE  /\ f(n)[j] \in RequestType
               /\ f(n)[j].op = inbox[n][j].op /\ f(n)[j].asn = inbox[n][j].asn
               /\ f(n)[j].by = inbox[n][j].by
               /\ f(n)[j].awaited => inbox[n][j].awaited /\ inbox[n][j].by \notin S
    <3> DEFINE q == inbox[n][j]
               u == [q EXCEPT !.awaited = @ /\ q.by \notin S]
    <3>1. q \in RequestType
      BY RequestOf
    <3> HIDE DEF q
    <3>2. u \in RequestType /\ u.op = q.op /\ u.asn = q.asn /\ u.by = q.by
          /\ (u.awaited => q.awaited /\ q.by \notin S)
      BY <3>1 DEF RequestType
    <3> HIDE DEF u
    <3>3. f(n)[j] = u
      BY DEF u, q
    <3> QED
      BY <3>2, <3>3 DEF q
  <2>3. DOMAIN f(n) = 1..Len(inbox[n])
    BY <2>1
  <2> HIDE DEF f
  <2>4. f(n) \in [1..Len(inbox[n]) -> RequestType]
    BY <2>1, <2>2, <2>3 DEF f
  <2>5. f(n) \in Seq(RequestType)
    BY <2>1, <2>4, FunctionIsSeq
  <2> QED
    BY <2>1, <2>2, <2>3, <2>5
<1> HIDE DEF f
<1>3. \A n \in Nodes : inbox'[n] = f(n)
  BY <1>1
<1> QED
  BY <1>1, <1>2, <1>3

(* A step after which a request is awaited only if it was, and of an order *)
(* that is the same.                                                       *)
LEMMA LeftOver ==
  ASSUME NEW n \in Nodes, NEW q \in RequestType, NEW u \in RequestType, SentInv(n, q), Onward(q.by),
         u.op = q.op, u.asn = q.asn, u.by = q.by,
         disturbed \subseteq disturbed',
         u.awaited => q.awaited /\ order'[q.by] = order[q.by] /\ did'[q.by] = did[q.by]
  PROVE  SentInv(n, u)'
PROOF BY DEF SentInv, Onward

LEMMA AbandonKeeps ==
  ASSUME OrdersInv, NEW S \in SUBSET Orders, Abandon(S),
         order' \in [Orders -> OrderType], saved' \in [Orders -> OrderType], events' \subseteq Events,
         \A o \in Orders \ S : order'[o] = order[o],
         \A o \in Orders : Moved(o) /\ OrderInv(o)' /\ SavedInv(o)',
         UNCHANGED <<id, online, peers, did, disturbed>>
  PROVE  OrdersInv' /\ AllMoved
PROOF
<1>1. /\ inbox' \in [Nodes -> Seq(RequestType)]
      /\ \A n \in Nodes : \A j \in DOMAIN inbox'[n] :
           /\ j \in DOMAIN inbox[n]
           /\ inbox'[n][j].op = inbox[n][j].op /\ inbox'[n][j].asn = inbox[n][j].asn
           /\ inbox'[n][j].by = inbox[n][j].by
           /\ inbox'[n][j].awaited => inbox[n][j].awaited /\ inbox[n][j].by \notin S
  BY AbandonFacts DEF OrdersInv, TypeOK
<1>2. TypeOK'
  BY <1>1 DEF OrdersInv, TypeOK
<1>3. InboxInv'
  <2> SUFFICES ASSUME NEW n \in Nodes, NEW j \in DOMAIN inbox'[n]
               PROVE  SentInv(n, inbox[n][j])'
    BY DEF InboxInv
  <2>1. PICK u : u = inbox'[n][j]
    OBVIOUS
  <2>2. PICK q : q = inbox[n][j]
    OBVIOUS
  <2>3. u.op = q.op /\ u.asn = q.asn /\ u.by = q.by /\ (u.awaited => q.awaited /\ q.by \notin S)
    BY <1>1, <2>1, <2>2
  <2>4. q \in RequestType /\ q.by \in Orders /\ SentInv(n, q)
    BY <1>1, <2>2, RequestOf DEF OrdersInv, TypeOK, InboxInv
  <2>5. u \in RequestType
    BY <1>1, <2>1, ElementOfSeq, LenProperties
  <2>6. SentInv(n, u)'
    BY <2>3, <2>4, <2>5, LeftOver DEF Moved
  <2> QED
    BY <2>1, <2>6 DEF SentInv
<1>4. AwaitedOnce'
  <2> SUFFICES ASSUME NEW n \in Nodes, NEW m \in Nodes, NEW j \in DOMAIN inbox'[n], NEW k \in DOMAIN inbox'[m],
                      inbox'[n][j].awaited, inbox'[m][k].awaited, inbox'[n][j].by = inbox'[m][k].by
               PROVE  n = m /\ j = k
    BY DEF AwaitedOnce
  <2>1. j \in DOMAIN inbox[n] /\ inbox[n][j].awaited /\ inbox'[n][j].by = inbox[n][j].by
    BY <1>1
  <2>2. k \in DOMAIN inbox[m] /\ inbox[m][k].awaited /\ inbox'[m][k].by = inbox[m][k].by
    BY <1>1
  <2>3. inbox[n][j].by = inbox[m][k].by
    BY <2>1, <2>2
  <2>4. AwaitedOnce
    BY DEF OrdersInv
  <2> QED
    BY <2>1, <2>2, <2>3, <2>4 DEF AwaitedOnce
<1> QED
  BY <1>2, <1>3, <1>4 DEF OrdersInv, AllMoved

LEMMA GiveUpKeeps ==
  ASSUME OrdersInv, NEW o \in Orders, GiveUp(o)
  PROVE  OrdersInv' /\ AllMoved
PROOF
<1>1. /\ order[o].phase \in Calling /\ Becomes(o, "failed") /\ Abandon({o})
      /\ UNCHANGED <<id, online, peers, did, saved, events, disturbed>>
  BY DEF GiveUp
<1>2. /\ order' \in [Orders -> OrderType] /\ Others(o)
      /\ order'[o].phase = "failed" /\ order'[o].reply = None
      /\ order'[o].kind = order[o].kind /\ order'[o].shown = order[o].shown
  BY <1>1, OrderOf, BecomesFacts DEF Phases, Ended
<1>3. ASSUME NEW p \in Orders
      PROVE  Moved(p) /\ OrderInv(p)' /\ SavedInv(p)'
  <2>1. Moved(p)
    BY <1>2, SameMoved DEF Moved, Onward, Agreed, Calling, Others, New
  <2>2. SavedInv(p)'
    BY <1>1, <2>1, SavedKept DEF OrdersInv, Moved
  <2>3. OrderInv(p)'
    <3>1. CASE p = o
      BY <1>2, <3>1 DEF OrderInv, Fields, Calls, Deeds, Meant, Agreed, Asked, Calling, New, Waiting
    <3>2. CASE p # o
      <4>1. order'[p] = order[p]
        BY <1>2, <3>2 DEF Others
      <4> QED
        BY <1>1, <4>1 DEF OrdersInv, OrderInv, Fields, Calls, Deeds, Meant, OpOf, NeededFor
    <3> QED
      BY <3>1, <3>2
  <2> QED
    BY <2>1, <2>2, <2>3
<1>4. \A p \in Orders \ {o} : order'[p] = order[p]
  BY <1>2 DEF Others
<1>5. saved' \in [Orders -> OrderType] /\ events' \subseteq Events
  BY <1>1 DEF OrdersInv, TypeOK
<1> QED
  BY <1>1, <1>2, <1>3, <1>4, <1>5, AbandonKeeps

LEMMA RestartKeeps ==
  ASSUME OrdersInv, Restart
  PROVE  OrdersInv' /\ AllMoved
PROOF
<1>1. /\ "restart" \in events' /\ events' \subseteq Events
      /\ Abandon(Orders) /\ UNCHANGED <<id, online, peers, did, disturbed>>
      /\ saved' = [o \in Orders |-> NoOrder]
  BY DEF Restart, Happens, MayHappen, OrdersInv, TypeOK
<1>2. ASSUME NEW o \in Orders
      PROVE  /\ order'[o] \in OrderType
             /\ \/ saved[o].phase \in Waiting /\ order'[o] = saved[o]
                \/ order[o].phase \in Running \cup Waiting /\ order'[o] = [order[o] EXCEPT !.phase = "lost"]
                \/ order[o].phase \notin Running \cup Waiting /\ order'[o] = order[o]
  <2>1. saved[o] \in OrderType /\ order[o] \in OrderType /\ saved[o].phase \in {"free"} \cup Waiting
    BY DEF OrdersInv, TypeOK, SavedInv
  <2>2. [order[o] EXCEPT !.phase = "lost"] \in OrderType
    BY <2>1 DEF OrderType, Ended
  <2> QED
    BY <2>1, <2>2 DEF Restart
<1>3. order' \in [Orders -> OrderType]
  <2>1. order' = [o \in Orders |-> order'[o]]
    BY DEF Restart
  <2> QED
    BY <1>2, <2>1
<1>4. saved' \in [Orders -> OrderType] /\ \A o \in Orders : saved'[o].phase = "free" /\ saved'[o].reply = None
  BY <1>1, NoOrderFacts
<1>5. ASSUME NEW o \in Orders
      PROVE  Moved(o) /\ OrderInv(o)' /\ SavedInv(o)'
  <2>1. SavedInv(o)'
    BY <1>4 DEF SavedInv
  <2>2. CASE saved[o].phase \in Waiting /\ order'[o] = saved[o]
    <3>1. /\ order'[o].phase \in Waiting /\ order'[o].reply = None
          /\ Fields(order'[o]) /\ order'[o].kind = order[o].kind /\ order'[o].shown = order[o].shown
          /\ o \notin disturbed => Meant(order'[o])
      BY <2>2 DEF OrdersInv, SavedInv, Waiting
    <3>2. Moved(o)
      BY <2>2, <3>1 DEF Moved, Onward, Agreed, Calling, New, Waiting
    <3>3. OrderInv(o)'
      BY <1>1, <3>1 DEF OrderInv, Fields, Calls, Deeds, Meant, Calling, Waiting
    <3> QED
      BY <2>1, <3>2, <3>3
  <2>3. CASE order[o].phase \in Running \cup Waiting /\ order'[o] = [order[o] EXCEPT !.phase = "lost"]
    <3>1. order'[o].phase = "lost" /\ order'[o].kind = order[o].kind /\ order'[o].shown = order[o].shown
      BY <2>3, OrderOf DEF OrderType
    <3>2. Moved(o)
      BY <3>1 DEF Moved, Onward, Agreed, Calling, New
    <3>3. OrderInv(o)'
      BY <1>1, <3>1 DEF OrderInv, Fields, Calls, Deeds, Meant, Calling, Asked, Agreed
    <3> QED
      BY <2>1, <3>2, <3>3
  <2>4. CASE order[o].phase \notin Running \cup Waiting /\ order'[o] = order[o]
    <3>1. Moved(o)
      BY <2>4, SameMoved
    <3>2. OrderInv(o)'
      BY <1>1, <2>4, OrderOf DEF OrderInv, Fields, Calls, Deeds, Meant, Calling, Asked, Agreed, Running, Waiting, NeededFor
    <3> QED
      BY <2>1, <3>1, <3>2
  <2> QED
    BY <1>2, <2>2, <2>3, <2>4
<1> QED
  BY <1>1, <1>3, <1>4, <1>5, AbandonKeeps

(* Where a request was before the oldest one of n was taken.               *)
Before(n, m, j) == IF m = n THEN j + 1 ELSE j

LEMMA TailFacts ==
  ASSUME inbox \in [Nodes -> Seq(RequestType)], NEW n \in Nodes, inbox[n] # <<>>,
         inbox' = [inbox EXCEPT ![n] = Tail(@)]
  PROVE  /\ inbox' \in [Nodes -> Seq(RequestType)]
         /\ 1 \in DOMAIN inbox[n] /\ Head(inbox[n]) = inbox[n][1]
         /\ \A m \in Nodes : \A j \in DOMAIN inbox'[m] :
              /\ j \in Nat \ {0}
              /\ Before(n, m, j) \in DOMAIN inbox[m] /\ inbox'[m][j] = inbox[m][Before(n, m, j)]
PROOF
<1> DEFINE s == inbox[n]
           t == Tail(s)
<1>1. s \in Seq(RequestType) /\ Len(s) \in Nat /\ DOMAIN s = 1..Len(s)
  BY LenProperties
<1>2. /\ t \in Seq(RequestType) /\ Len(t) = Len(s) - 1
      /\ \A i \in 1..Len(t) : t[i] = s[i + 1]
  BY <1>1, HeadTailProperties
<1>3. Len(t) \in Nat /\ DOMAIN t = 1..Len(t)
  BY <1>2, LenProperties
<1>4. Head(s) = s[1]
  BY <1>1
<1> HIDE DEF t
<1>5. inbox' = [inbox EXCEPT ![n] = t]
  BY DEF t
<1>6. inbox' \in [Nodes -> Seq(RequestType)]
  BY <1>2, <1>5
<1>7. ASSUME NEW m \in Nodes, NEW j \in DOMAIN inbox'[m]
      PROVE  /\ j \in Nat \ {0}
             /\ Before(n, m, j) \in DOMAIN inbox[m] /\ inbox'[m][j] = inbox[m][Before(n, m, j)]
  <2>1. CASE m = n
    <3>1. inbox'[m] = t
      BY <1>5, <2>1
    <3>2. j \in 1..Len(t) /\ j + 1 \in 1..Len(s)
      BY <1>1, <1>2, <1>3, <3>1
    <3> QED
      BY <1>1, <1>2, <2>1, <3>1, <3>2 DEF Before
  <2>2. CASE m # n
    <3>1. inbox'[m] = inbox[m]
      BY <1>5, <2>2
    <3>2. Len(inbox[m]) \in Nat /\ DOMAIN inbox[m] = 1..Len(inbox[m])
      BY LenProperties
    <3> QED
      BY <2>2, <3>1, <3>2 DEF Before
  <2> QED
    BY <2>1, <2>2
<1>8. 1 \in DOMAIN s
  BY <1>1, <1>2, <1>3
<1> QED
  BY <1>4, <1>6, <1>7, <1>8

(* The oldest request of n is lost or handled: what else is awaited is of  *)
(* other orders.                                                           *)
LEMMA TakeKeeps ==
  ASSUME OrdersInv, NEW n \in Nodes, NEW q, inbox[n] # <<>>, q = Head(inbox[n]),
         inbox' = [inbox EXCEPT ![n] = Tail(@)],
         peers' \in [Nodes -> SUBSET ASNs],
         did' \in [Orders -> SUBSET {"peer", "remove", "restart"}],
         order' \in [Orders -> OrderType],
         ~q.awaited => UNCHANGED <<order, did>>,
         \A o \in Orders : o # q.by => order'[o] = order[o] /\ did'[o] = did[o],
         \A o \in Orders : Moved(o) /\ OrderInv(o)',
         UNCHANGED <<id, online, saved, events, disturbed>>
  PROVE  OrdersInv' /\ AllMoved
PROOF
<1>1. /\ inbox' \in [Nodes -> Seq(RequestType)]
      /\ 1 \in DOMAIN inbox[n] /\ Head(inbox[n]) = inbox[n][1]
      /\ \A m \in Nodes : \A j \in DOMAIN inbox'[m] :
           /\ j \in Nat \ {0}
           /\ Before(n, m, j) \in DOMAIN inbox[m] /\ inbox'[m][j] = inbox[m][Before(n, m, j)]
  BY TailFacts DEF OrdersInv, TypeOK
<1>2. TypeOK'
  BY <1>1 DEF OrdersInv, TypeOK
<1>3. \A o \in Orders : SavedInv(o)'
  BY SavedKept DEF OrdersInv, Moved
<1>4. ASSUME NEW m \in Nodes, NEW j \in DOMAIN inbox'[m]
      PROVE  SentInv(m, inbox[m][j])'
  <2> DEFINE i == Before(n, m, j)
  <2>1. i \in DOMAIN inbox[m] /\ inbox'[m][j] = inbox[m][i] /\ (m # n \/ i # 1)
    BY <1>1 DEF Before
  <2> HIDE DEF i
  <2>2. PICK u : u = inbox[m][i]
    OBVIOUS
  <2>3. u \in RequestType /\ u.by \in Orders /\ SentInv(m, u)
    BY <2>1, <2>2, RequestOf DEF OrdersInv, TypeOK, InboxInv
  <2>4. q.awaited /\ u.awaited => u.by # q.by
    BY <1>1, <2>1, <2>2 DEF OrdersInv, AwaitedOnce
  <2>5. u.awaited => order'[u.by] = order[u.by] /\ did'[u.by] = did[u.by]
    BY <2>3, <2>4
  <2>6. SentInv(m, u)'
    BY <2>3, <2>5, SentKept DEF Moved
  <2> QED
    BY <2>1, <2>2, <2>6 DEF SentInv
<1>5. AwaitedOnce'
  <2> SUFFICES ASSUME NEW m \in Nodes, NEW l \in Nodes, NEW j \in DOMAIN inbox'[m], NEW k \in DOMAIN inbox'[l],
                      inbox'[m][j].awaited, inbox'[l][k].awaited, inbox'[m][j].by = inbox'[l][k].by
               PROVE  m = l /\ j = k
    BY DEF AwaitedOnce
  <2>1. m = l /\ Before(n, m, j) = Before(n, l, k)
    BY <1>1 DEF OrdersInv, AwaitedOnce
  <2> QED
    BY <1>1, <2>1 DEF Before
<1> QED
  BY <1>2, <1>3, <1>4, <1>5 DEF OrdersInv, InboxInv, AllMoved

LEMMA LoseKeeps ==
  ASSUME OrdersInv, NEW n \in Nodes, Lose(n)
  PROVE  OrdersInv' /\ AllMoved
PROOF
<1>1. ASSUME NEW o \in Orders
      PROVE  Moved(o) /\ OrderInv(o)'
  <2>1. UNCHANGED <<id, order, did, events, disturbed>>
    BY DEF Lose
  <2> QED
    BY <2>1, SameMoved DEF OrdersInv, OrderInv, Fields, Calls, Deeds, Meant, OpOf, NeededFor
<1> DEFINE q == Head(inbox[n])
<1>2. /\ inbox[n] # <<>> /\ inbox' = [inbox EXCEPT ![n] = Tail(@)]
      /\ UNCHANGED <<id, online, peers, order, saved, events, did, disturbed>>
  BY DEF Lose
<1>3. /\ peers' \in [Nodes -> SUBSET ASNs] /\ order' \in [Orders -> OrderType]
      /\ did' \in [Orders -> SUBSET {"peer", "remove", "restart"}]
  BY <1>2 DEF OrdersInv, TypeOK
<1>4. PICK u : u = q
  OBVIOUS
<1> HIDE DEF q
<1> QED
  BY <1>1, <1>2, <1>3, <1>4, TakeKeeps DEF q

(* An agent handles a request.  If it is awaited the order gets an answer  *)
(* that tells what was done, and the deed is noted.                        *)
LEMMA HandleKeeps ==
  ASSUME OrdersInv, NEW n \in Nodes, NEW effect \in BOOLEAN, NEW answer \in {"ok", "refused", "failed"},
         Handle(n, effect, answer)
  PROVE  OrdersInv' /\ AllMoved
PROOF
<1>1. PICK q : q = Head(inbox[n])
  OBVIOUS
<1>2. /\ inbox[n] # <<>> /\ inbox' = [inbox EXCEPT ![n] = Tail(@)]
      /\ answer = "ok" => effect
      /\ answer = "refused" => q.op = "peer" /\ ~effect
      /\ peers' = [peers EXCEPT ![n] = CASE effect /\ q.op = "peer"   -> @ \cup {q.asn}
                                         [] effect /\ q.op = "remove" -> @ \ {q.asn}
                                         [] OTHER                     -> @]
      /\ did' = [did EXCEPT ![q.by] = IF effect /\ q.awaited THEN @ \cup {q.op} ELSE @]
      /\ order' = IF q.awaited THEN [order EXCEPT ![q.by].reply = answer] ELSE order
      /\ UNCHANGED <<id, online, saved, events, disturbed>>
  BY <1>1 DEF Handle
<1>3. q \in RequestType /\ SentInv(n, q)
  <2>1. 1 \in DOMAIN inbox[n] /\ q = inbox[n][1]
    BY <1>1, <1>2, TailFacts DEF OrdersInv, TypeOK
  <2> QED
    BY <2>1, RequestOf DEF OrdersInv, TypeOK, InboxInv
<1>4. q.by \in Orders /\ q.asn \in ASNs /\ q.op \in {"peer", "remove", "restart"}
  BY <1>3 DEF RequestType
<1>5. peers' \in [Nodes -> SUBSET ASNs] /\ did' \in [Orders -> SUBSET {"peer", "remove", "restart"}]
  BY <1>2, <1>4 DEF OrdersInv, TypeOK
<1> DEFINE r == [order[q.by] EXCEPT !.reply = answer]
<1>6. /\ r \in OrderType /\ r.reply = answer
      /\ r.phase = order[q.by].phase /\ r.kind = order[q.by].kind /\ r.shown = order[q.by].shown
      /\ r.asn = order[q.by].asn /\ r.node = order[q.by].node /\ r.from = order[q.by].from
  BY <1>4, OrderOf DEF OrderType
<1> HIDE DEF r
<1>7. /\ order' \in [Orders -> OrderType]
      /\ \A o \in Orders : o # q.by \/ ~q.awaited => order'[o] = order[o] /\ did'[o] = did[o]
      /\ q.awaited => /\ order'[q.by] = r
                      /\ did'[q.by] = IF effect THEN did[q.by] \cup {q.op} ELSE did[q.by]
  <2>1. \A o \in Orders : o # q.by \/ ~q.awaited => did'[o] = did[o]
    BY <1>2, <1>4 DEF OrdersInv, TypeOK
  <2>2. did'[q.by] = IF effect /\ q.awaited THEN did[q.by] \cup {q.op} ELSE did[q.by]
    BY <1>2, <1>4 DEF OrdersInv, TypeOK
  <2>3. CASE q.awaited
    <3>1. order' = [order EXCEPT ![q.by] = r]
      BY <1>2, <2>3 DEF r
    <3> QED
      BY <1>4, <1>6, <2>1, <2>2, <2>3, <3>1, OrderOf
  <2>4. CASE ~q.awaited
    BY <1>2, <1>4, <2>1, <2>4, OrderOf
  <2> QED
    BY <2>3, <2>4
<1>8. ASSUME NEW o \in Orders
      PROVE  Moved(o) /\ OrderInv(o)'
  <2>1. CASE o # q.by \/ ~q.awaited
    <3>1. order'[o] = order[o] /\ did'[o] = did[o]
      BY <1>7, <2>1
    <3>2. UNCHANGED <<id, events, disturbed>>
      BY <1>2
    <3> QED
      BY <3>1, <3>2, SameMoved DEF OrdersInv, OrderInv, Fields, Calls, Deeds, Meant, OpOf, NeededFor
  <2>2. CASE o = q.by /\ q.awaited
    <3>1. /\ r.phase \in Calling /\ q.op = OpOf(r.phase)
          /\ q.op = "peer" => did[o] = {}
      BY <1>3, <1>6, <2>2 DEF SentInv
    <3>2. order'[o] = r /\ did'[o] = IF effect THEN did[o] \cup {q.op} ELSE did[o]
      BY <1>7, <2>2
    <3>3. Moved(o)
      BY <1>6, <2>2, <3>1, <3>2 DEF Moved, Onward, Agreed, New, Calling
    <3>4. Fields(r) /\ Calls(r) /\ (o \notin disturbed => Meant(r))
      BY <1>6, <2>2, <3>1, OrderOf DEF Fields, Calls, Meant
    <3>5. Deeds(r, did'[o])
      BY <1>2, <1>6, <2>2, <3>1, <3>2, OrderOf DEF Deeds, Calling, New, Waiting, OpOf
    <3>6. UNCHANGED <<id, events, disturbed>>
      BY <1>2
    <3>7. OrderInv(o)'
      BY <3>2, <3>4, <3>5, <3>6 DEF OrderInv, Fields, Calls, Meant, Deeds, NeededFor
    <3> QED
      BY <3>3, <3>7
  <2> QED
    BY <2>1, <2>2
<1>9. ~q.awaited => UNCHANGED <<order, did>>
  BY <1>2, <1>4 DEF OrdersInv, TypeOK
<1> QED
  BY <1>1, <1>2, <1>5, <1>7, <1>8, <1>9, TakeKeeps

-----------------------------------------------------------------------------
(* The world around the orders.                                            *)

(* Another identity: whatever it could concern counts as disturbed.        *)
LEMMA SwitchKeeps ==
  ASSUME OrdersInv, NEW a \in ASNs \cup {None}, Switch(a)
  PROVE  OrdersInv' /\ AllMoved
PROOF
<1>1. /\ events \subseteq events' /\ events' \subseteq Events /\ id' = a
      /\ UNCHANGED <<online, peers, inbox, did, order, saved>>
      /\ disturbed' = disturbed \cup InPhase(Running \cup Waiting) \cup {o \in Orders : saved[o].phase \in Waiting}
  BY DEF Switch, Happens, MayHappen, agents, OrdersInv, TypeOK
<1>2. TypeOK'
  BY <1>1 DEF OrdersInv, TypeOK, InPhase
<1>3. ASSUME NEW o \in Orders
      PROVE  OrderInv(o)' /\ SavedInv(o)'
  <2>1. o \notin disturbed' => order[o].phase \notin Asked /\ saved[o].phase \notin Waiting
    BY <1>1 DEF InPhase, Asked, Agreed, Running, Waiting
  <2>2. OrderInv(o)'
    BY <1>1, <2>1 DEF OrdersInv, OrderInv, Fields, Calls, Deeds, Meant, NeededFor
  <2>3. SavedInv(o)'
    BY <1>1, <2>1 DEF OrdersInv, SavedInv, Fields
  <2> QED
    BY <2>2, <2>3
<1>4. InboxInv' /\ AwaitedOnce'
  <2>1. AwaitedOnce'
    BY <1>1 DEF OrdersInv, AwaitedOnce
  <2>2. disturbed \subseteq disturbed'
    BY <1>1
  <2>3. InboxInv'
    BY <1>1, <2>2 DEF OrdersInv, InboxInv, SentInv
  <2> QED
    BY <2>1, <2>3
<1> QED
  BY <1>1, <1>2, <1>3, <1>4, SameMoved DEF OrdersInv, AllMoved

(* Neither base.servers nor the file has a part in what was said and done. *)
LEMMA QuietKeeps ==
  ASSUME OrdersInv, online' \subseteq Nodes, events \subseteq events', events' \subseteq Events,
         saved' \in [Orders -> OrderType], \A o \in Orders : SavedInv(o)',
         UNCHANGED <<id, peers, inbox, order, did, disturbed>>
  PROVE  OrdersInv' /\ AllMoved
PROOF
<1>1. TypeOK'
  BY DEF OrdersInv, TypeOK
<1>2. \A o \in Orders : OrderInv(o)'
  BY DEF OrdersInv, OrderInv, Fields, Calls, Deeds, Meant, NeededFor
<1>3. InboxInv' /\ AwaitedOnce'
  BY DEF OrdersInv, InboxInv, SentInv, AwaitedOnce
<1> QED
  BY <1>1, <1>2, <1>3, SameMoved DEF OrdersInv, AllMoved

LEMMA ServersCheckKeeps ==
  ASSUME OrdersInv, NEW S \in SUBSET Nodes, ServersCheck(S)
  PROVE  OrdersInv' /\ AllMoved
PROOF
<1>1. /\ online' = S /\ events \subseteq events' /\ events' \subseteq Events
      /\ UNCHANGED <<id, peers, inbox, order, saved, did, disturbed>>
  BY DEF ServersCheck, Happens, MayHappen, agents, OrdersInv, TypeOK
<1>2. saved' \in [Orders -> OrderType] /\ \A o \in Orders : SavedInv(o)'
  BY <1>1 DEF OrdersInv, TypeOK, SavedInv, Fields, Meant
<1> QED
  BY <1>1, <1>2, QuietKeeps

LEMMA SaveKeeps ==
  ASSUME OrdersInv, Save
  PROVE  OrdersInv' /\ AllMoved
PROOF
<1>1. saved' = Handlers /\ UNCHANGED <<id, online, peers, inbox, order, events, did, disturbed>>
  BY DEF Save, agents
<1>2. ASSUME NEW o \in Orders
      PROVE  saved'[o] \in OrderType /\ SavedInv(o)'
  <2>1. CASE order[o].phase \in Waiting
    <3>1. saved'[o] = order[o]
      BY <1>1, <2>1 DEF Handlers
    <3>2. order[o].phase \notin New /\ order[o].reply = None
      BY <2>1, OrderOf DEF Calls, Calling, Waiting, New
    <3> QED
      BY <1>1, <2>1, <3>1, <3>2, OrderOf DEF SavedInv, Fields, Meant
  <2>2. CASE order[o].phase \notin Waiting
    <3>1. saved'[o] = NoOrder
      BY <1>1, <2>2 DEF Handlers
    <3> QED
      BY <3>1, NoOrderFacts DEF SavedInv
  <2> QED
    BY <2>1, <2>2
<1>3. saved' \in [Orders -> OrderType]
  BY <1>1, <1>2 DEF Handlers
<1>4. online' \subseteq Nodes /\ events' \subseteq Events
  BY <1>1 DEF OrdersInv, TypeOK
<1> QED
  BY <1>1, <1>2, <1>3, <1>4, QuietKeeps

-----------------------------------------------------------------------------
(* The invariant.                                                          *)

LEMMA InitHolds == Init => OrdersInv
PROOF
<1> SUFFICES ASSUME Init PROVE OrdersInv
  OBVIOUS
<1>1. \A o \in Orders : order[o] = NoOrder /\ saved[o] = NoOrder /\ did[o] = {}
  BY DEF Init
<1>2. TypeOK
  BY NoOrderFacts DEF Init, TypeOK
<1>3. \A n \in Nodes : DOMAIN inbox[n] = {}
  BY DEF Init
<1>4. \A o \in Orders : OrderInv(o) /\ SavedInv(o)
  BY <1>1, NoOrderFacts
     DEF OrderInv, SavedInv, Fields, Calls, Deeds, Meant, Asked, Agreed, Waiting, Calling
<1>5. InboxInv /\ AwaitedOnce
  BY <1>3 DEF InboxInv, AwaitedOnce
<1> QED
  BY <1>2, <1>4, <1>5 DEF OrdersInv

LEMMA StutterKeeps ==
  ASSUME OrdersInv, UNCHANGED vars
  PROVE  OrdersInv' /\ AllMoved
PROOF
<1>1. \A o \in Orders : SavedInv(o)'
  BY DEF OrdersInv, SavedInv, Fields, Meant, vars
<1>2. online' \subseteq Nodes /\ events' \subseteq Events /\ saved' \in [Orders -> OrderType]
  BY DEF OrdersInv, TypeOK, vars
<1> QED
  BY <1>1, <1>2, QuietKeeps DEF vars

LEMMA NextKeeps ==
  ASSUME OrdersInv, [Next]_vars
  PROVE  OrdersInv' /\ AllMoved
PROOF
<1>1. CASE \E o \in Orders : Thread(o) \/ \E k \in Kinds : Command(o, k)
  BY <1>1, StartKeeps, ConfirmKeeps, SecondKeeps, HandleReplyKeeps, GiveUpKeeps, AskUserKeeps, FillKeeps,
     CommandKeeps DEF Thread
<1>2. CASE \E msg \in {"/cancel", "yes"} \cup Orders : Answer(msg)
  BY <1>2, AnswerKeeps
<1>3. CASE \E a \in ASNs \cup {None} : Switch(a)
  BY <1>3, SwitchKeeps
<1>4. CASE \E n \in Nodes : Lose(n) \/ \E effect \in BOOLEAN, answer \in {"ok", "refused", "failed"} :
                                         Handle(n, effect, answer)
  BY <1>4, LoseKeeps, HandleKeeps
<1>5. CASE \E S \in SUBSET Nodes : ServersCheck(S)
  BY <1>5, ServersCheckKeeps
<1>6. CASE Save \/ Restart
  BY <1>6, SaveKeeps, RestartKeeps
<1>7. CASE UNCHANGED vars
  BY <1>7, StutterKeeps
<1> QED
  BY <1>1, <1>2, <1>3, <1>4, <1>5, <1>6, <1>7 DEF Next

(* The orders, the handlers in the file and the requests on their way fit  *)
(* together, whatever overlaps, is late, lost or restarted.                *)
THEOREM OrdersInvariant == Spec => []OrdersInv
PROOF
<1>1. Init => OrdersInv
  BY InitHolds
<1>2. OrdersInv /\ [Next]_vars => OrdersInv'
  BY NextKeeps
<1> QED
  BY <1>1, <1>2, PTL DEF Spec

(* Types of the orders, the file and the agents' queues.                   *)
THEOREM TypesHold == Spec => []TypeOK
PROOF
<1>1. OrdersInv => TypeOK
  BY DEF OrdersInv
<1> QED
  BY <1>1, OrdersInvariant, PTL

(* "Created", "modified", "deleted" and "restarted" are only told when the *)
(* agents did everything the order needs (Outcome), for any number of      *)
(* orders, lost and late answers, outages, logouts and restarts.           *)
THEOREM SuccessHolds == Spec => []SuccessIsTrue
PROOF
<1>1. OrdersInv => SuccessIsTrue
  BY DEF OrdersInv, OrderInv, Deeds, SuccessIsTrue
<1> QED
  BY <1>1, OrdersInvariant, PTL

(* "Not open" and "cancelled" are only told when no agent did anything for *)
(* the order, as long as no restart brought an older handler of it back.   *)
THEOREM NothingHolds == Spec => []NothingIsTrue
PROOF
<1>1. OrdersInv => NothingIsTrue
  BY DEF OrdersInv, OrderInv, Deeds, NothingIsTrue
<1> QED
  BY <1>1, OrdersInvariant, PTL

(* What an agent is asked to do is about the identity the user was shown,  *)
(* unless that changed while the order ran, waited or lay in the file.     *)
THEOREM ShownHolds == Spec => []ShownIsMeantUnlessSwitched
PROOF
<1>1. OrdersInv => ShownIsMeantUnlessSwitched
  <2> SUFFICES ASSUME OrdersInv, NEW q \in Requests, q.by \notin disturbed
               PROVE  q.asn = order[q.by].shown
    BY DEF ShownIsMeantUnlessSwitched
  <2>1. PICK n \in Nodes : \E j \in DOMAIN inbox[n] : q = inbox[n][j]
    BY DEF Requests
  <2>2. SentInv(n, q)
    BY <2>1 DEF OrdersInv, InboxInv
  <2> QED
    BY <2>2 DEF SentInv
<1> QED
  BY <1>1, OrdersInvariant, PTL

-----------------------------------------------------------------------------
(* PeerRegistry.                                                           *)

(* With a single ASN the types say it: a user is logged in as that or not. *)
LEMMA SteadySingle ==
  ASSUME OrdersInv, \A a, b \in ASNs : a = b
  PROVE  SteadyInv
PROOF
<1>1. id \in ASNs \cup {None}
  BY DEF OrdersInv, TypeOK
<1>2. \A o \in Orders : Fields(order[o]) /\ (saved[o].phase # "free" => Fields(saved[o]))
  BY DEF OrdersInv, OrderInv, SavedInv
<1> QED
  BY <1>1, <1>2 DEF SteadyInv, Steady, Fields

LEMMA IdentityStays ==
  ASSUME [Next]_vars, "switch" \notin Events
  PROVE  id' = id
PROOF
<1>1. ASSUME NEW a, Switch(a)
      PROVE  FALSE
  BY <1>1 DEF Switch, Happens, MayHappen
<1>2. ASSUME NEW o \in Orders, Thread(o)
      PROVE  id' = id
  BY <1>2 DEF Thread, Start, Confirm, Second, HandleReply, GiveUp, AskUser, Fill
<1>3. ASSUME NEW n \in Nodes, NEW effect, NEW answer, Handle(n, effect, answer)
      PROVE  id' = id
  BY <1>3 DEF Handle
<1> QED
  BY <1>1, <1>2, <1>3 DEF Next, Command, Answer, Lose, ServersCheck, Save, Restart, vars

LEMMA FileMoves ==
  ASSUME [Next]_vars, NEW o \in Orders
  PROVE  saved'[o] = saved[o] \/ saved'[o] = order[o] \/ saved'[o] = NoOrder
PROOF
<1>1. ASSUME Save \/ Restart
      PROVE  saved'[o] = order[o] \/ saved'[o] = NoOrder
  BY <1>1 DEF Save, Handlers, Restart
<1>2. ASSUME NEW p \in Orders, Thread(p)
      PROVE  saved' = saved
  BY <1>2 DEF Thread, Start, Confirm, Second, HandleReply, GiveUp, AskUser, Fill
<1>3. ASSUME NEW n \in Nodes, NEW effect, NEW answer, Handle(n, effect, answer)
      PROVE  saved' = saved
  BY <1>3 DEF Handle
<1> QED
  BY <1>1, <1>2, <1>3 DEF Next, Command, Answer, Lose, ServersCheck, Switch, vars

LEMMA SteadyStep ==
  ASSUME OrdersInv, SteadyInv, [Next]_vars, "switch" \notin Events
  PROVE  SteadyInv'
PROOF
<1>1. id' = id /\ AllMoved
  BY IdentityStays, NextKeeps
<1>2. ASSUME NEW o \in Orders
      PROVE  Steady(order[o])' /\ (saved'[o].phase # "free" => Steady(saved[o])')
  <2>1. Steady(order[o]) /\ (saved[o].phase # "free" => Steady(saved[o])) /\ Moved(o)
    BY <1>1 DEF SteadyInv, AllMoved
  <2>2. Steady(order[o])'
    BY <1>1, <2>1 DEF Steady, Moved, Agreed, Calling
  <2>3. CASE saved'[o] = NoOrder
    BY <2>2, <2>3, NoOrderFacts
  <2>4. CASE saved'[o] = saved[o] \/ saved'[o] = order[o]
    BY <1>1, <2>1, <2>2, <2>4 DEF Steady
  <2> QED
    BY <2>2, <2>3, <2>4, FileMoves
<1> QED
  BY <1>2 DEF SteadyInv

(* What the registry sees.                                                 *)
Where == [a \in ASNs |-> {n \in Nodes : a \in peers[n]}]
Ordered == Removals("remove")
Released == Removals("modify") \cup {<<order[o].asn, order[o].from>> : o \in Leaving}

LEMMA RemovalsOf ==
  ASSUME NEW k, NEW x
  PROVE  x \in Removals(k) <=> \E n \in Nodes : \E j \in DOMAIN inbox[n] :
           inbox[n][j].op = "remove" /\ order[inbox[n][j].by].kind = k /\ x = <<inbox[n][j].asn, n>>
PROOF BY DEF Removals

(* The slot is of an old request.                                          *)
WasThere(n, j) ==
  \E i \in DOMAIN inbox[n] : /\ inbox'[n][j].op = inbox[n][i].op /\ inbox'[n][j].asn = inbox[n][i].asn
                             /\ inbox'[n][j].by = inbox[n][i].by

(* A request keeps the kind of its order.                                  *)
LEMMA WasRemoval ==
  ASSUME OrdersInv, AllMoved, NEW n \in Nodes, NEW j \in DOMAIN inbox'[n], WasThere(n, j),
         inbox'[n][j].op = "remove"
  PROVE  <<inbox'[n][j].asn, n>> \in Removals(order'[inbox'[n][j].by].kind)
PROOF
<1>1. PICK i \in DOMAIN inbox[n] : /\ inbox'[n][j].op = inbox[n][i].op /\ inbox'[n][j].asn = inbox[n][i].asn
                                   /\ inbox'[n][j].by = inbox[n][i].by
  BY DEF WasThere
<1>2. inbox[n][i].by \in Orders /\ SentInv(n, inbox[n][i])
  BY RequestOf DEF OrdersInv, TypeOK, InboxInv
<1>3. order'[inbox'[n][j].by].kind = order[inbox[n][i].by].kind
  BY <1>1, <1>2 DEF AllMoved, Moved, Onward, SentInv
<1> QED
  BY <1>1, <1>3, RemovalsOf

LEMMA RemovalsKept ==
  ASSUME OrdersInv, AllMoved, NEW k,
         \A n \in Nodes : \A j \in DOMAIN inbox'[n] : WasThere(n, j)
  PROVE  Removals(k)' \subseteq Removals(k)
PROOF
<1>1. ASSUME NEW x \in Removals(k)'
      PROVE  x \in Removals(k)
  <2>1. PICK n \in Nodes : \E j \in DOMAIN inbox'[n] :
          inbox'[n][j].op = "remove" /\ order'[inbox'[n][j].by].kind = k /\ x = <<inbox'[n][j].asn, n>>
    BY <1>1 DEF Removals
  <2> QED
    BY <2>1, WasRemoval
<1> QED
  BY <1>1

(* An order that leaves a node has done so since the peer is at the other. *)
LEMMA LeavingKept ==
  ASSUME AllMoved, NEW o \in Orders, o \in Leaving', "peer" \in did'[o] => "peer" \in did[o]
  PROVE  o \in Leaving /\ order'[o].asn = order[o].asn /\ order'[o].from = order[o].from
PROOF BY DEF AllMoved, Moved, Leaving

(* Nothing is released by a step that notes no /peer.                      *)
LEMMA ReleasedKept ==
  ASSUME OrdersInv, AllMoved,
         \A o \in Orders : "peer" \in did'[o] => "peer" \in did[o],
         \A n \in Nodes : \A j \in DOMAIN inbox'[n] :
           \/ WasThere(n, j)
           \/ inbox'[n][j].op = "remove" /\ order'[inbox'[n][j].by].kind = "modify"
                => <<inbox'[n][j].asn, n>> \in Released
  PROVE  Released' \subseteq Released
PROOF
<1>1. ASSUME NEW x \in Removals("modify")'
      PROVE  x \in Released
  <2>1. PICK n \in Nodes : \E j \in DOMAIN inbox'[n] :
          /\ inbox'[n][j].op = "remove" /\ order'[inbox'[n][j].by].kind = "modify"
          /\ x = <<inbox'[n][j].asn, n>>
    BY <1>1 DEF Removals
  <2>2. PICK j \in DOMAIN inbox'[n] :
          /\ inbox'[n][j].op = "remove" /\ order'[inbox'[n][j].by].kind = "modify"
          /\ x = <<inbox'[n][j].asn, n>>
    BY <2>1
  <2>3. CASE WasThere(n, j)
    BY <2>2, <2>3, WasRemoval DEF Released
  <2> QED
    BY <2>2, <2>3
<1>2. ASSUME NEW o \in Leaving'
      PROVE  <<order'[o].asn, order'[o].from>> \in Released
  BY <1>2, LeavingKept DEF Released, Leaving
<1> QED
  BY <1>1, <1>2 DEF Released

LEMMA ReorderStep ==
  ASSUME OrdersInv', UNCHANGED peers, Released' \subseteq Released
  PROVE  Registry!Next
PROOF
<1>1. Ordered' \subseteq ASNs \X Nodes
  <2>1. ASSUME NEW x \in Ordered'
        PROVE  x \in ASNs \X Nodes
    <3>1. PICK n \in Nodes : \E j \in DOMAIN inbox'[n] : x = <<inbox'[n][j].asn, n>>
      BY <2>1 DEF Ordered, Removals
    <3>2. PICK j \in DOMAIN inbox'[n] : x = <<inbox'[n][j].asn, n>>
      BY <3>1
    <3>3. inbox'[n][j] \in RequestType
      BY ElementOfSeq, LenProperties DEF OrdersInv, TypeOK
    <3> QED
      BY <3>2, <3>3 DEF RequestType
  <2> QED
    BY <2>1
<1>2. Registry!Reorder
  BY <1>1 DEF Registry!Reorder, Registry!Pairs, Ordered, Released
<1> QED
  BY <1>2 DEF Registry!Next

LEMMA AbandonedWereThere ==
  ASSUME OrdersInv, NEW S, Abandon(S)
  PROVE  \A n \in Nodes : \A j \in DOMAIN inbox'[n] : WasThere(n, j)
PROOF BY AbandonFacts DEF OrdersInv, TypeOK, WasThere

LEMMA RestWasThere ==
  ASSUME OrdersInv, NEW n \in Nodes, inbox[n] # <<>>, inbox' = [inbox EXCEPT ![n] = Tail(@)]
  PROVE  \A m \in Nodes : \A j \in DOMAIN inbox'[m] : WasThere(m, j)
PROOF
<1>1. inbox \in [Nodes -> Seq(RequestType)]
  BY DEF OrdersInv, TypeOK
<1>2. \A m \in Nodes : \A j \in DOMAIN inbox'[m] :
        /\ j \in Nat \ {0}
        /\ Before(n, m, j) \in DOMAIN inbox[m] /\ inbox'[m][j] = inbox[m][Before(n, m, j)]
  BY <1>1, TailFacts
<1> QED
  BY <1>2 DEF WasThere

(* Steps that have nothing to do with the agents.                          *)
LEMMA AgentsUntouched ==
  ASSUME OrdersInv, OrdersInv', AllMoved, UNCHANGED agents
  PROVE  Registry!Next
PROOF
<1>1. \A n \in Nodes : \A j \in DOMAIN inbox'[n] : WasThere(n, j)
  BY DEF WasThere, agents
<1>2. Released' \subseteq Released
  BY <1>1, ReleasedKept DEF agents
<1> QED
  BY <1>2, ReorderStep DEF agents

(* A request that is posted: a removal for a modification is about what    *)
(* was released.                                                           *)
LEMMA PostImplements ==
  ASSUME OrdersInv, OrdersInv', AllMoved, NEW o \in Orders, NEW ph \in Calling, NEW n \in Nodes, NEW op,
         NEW a \in ASNs, Post(o, ph, n, op, a), op = OpOf(ph),
         did' = [did EXCEPT ![o] = {}] \/ did' = did,
         op = "remove" /\ order'[o].kind = "modify" => <<a, n>> \in Released
  PROVE  Registry!Next
PROOF
<1>1. PICK q : q = [op |-> op, asn |-> a, by |-> o, awaited |-> TRUE]
  OBVIOUS
<1>2. q \in RequestType /\ q.op = op /\ q.asn = a /\ q.by = o
  BY <1>1 DEF RequestType, OpOf
<1>3. inbox' = [inbox EXCEPT ![n] = Append(@, q)] /\ UNCHANGED peers
  BY <1>1 DEF Post
<1>4. \A m \in Nodes : \A j \in DOMAIN inbox'[m] :
        \/ m = n /\ inbox'[m][j] = q
        \/ j \in DOMAIN inbox[m] /\ inbox'[m][j] = inbox[m][j]
  BY <1>2, <1>3, PostFacts DEF OrdersInv, TypeOK
<1>5. \A m \in Nodes : \A j \in DOMAIN inbox'[m] :
        \/ WasThere(m, j)
        \/ inbox'[m][j].op = "remove" /\ order'[inbox'[m][j].by].kind = "modify"
             => <<inbox'[m][j].asn, m>> \in Released
  BY <1>2, <1>4 DEF WasThere
<1>6. \A p \in Orders : "peer" \in did'[p] => "peer" \in did[p]
  BY DEF OrdersInv, TypeOK
<1> QED
  BY <1>3, <1>5, <1>6, ReleasedKept, ReorderStep

LEMMA ConfirmImplements ==
  ASSUME OrdersInv, OrdersInv', AllMoved, NEW o \in Orders, Confirm(o)
  PROVE  Registry!Next
PROOF
<1> DEFINE r == order[o]
<1>1. r.phase = "confirmed"
  BY DEF Confirm
<1>2. CASE id = None
  BY <1>2, AgentsUntouched DEF Confirm
<1>3. CASE id # None
  <2>1. id \in ASNs /\ did' = [did EXCEPT ![o] = {}]
    BY <1>3 DEF OrdersInv, TypeOK, Confirm
  <2>2. r.node \in Nodes /\ (r.kind \in {"peer", "modify"} => r.asn \in ASNs)
    BY <1>1, OrderOf DEF Fields, Asked, Agreed
  <2>3. order'[o].kind = r.kind
    BY <1>1 DEF AllMoved, Moved, Onward, New
  <2>4. CASE r.kind \in {"peer", "modify"}
    <3>1. Post(o, "adding", r.node, "peer", r.asn)
      BY <1>3, <2>4 DEF Confirm
    <3> QED
      BY <2>1, <2>2, <2>4, <3>1, PostImplements DEF Calling, OpOf
  <2>5. CASE r.kind = "remove"
    <3>1. Post(o, "removing", r.node, "remove", id)
      BY <1>3, <2>5 DEF Confirm
    <3> QED
      BY <2>1, <2>2, <2>3, <2>5, <3>1, PostImplements DEF Calling, OpOf
  <2>6. CASE r.kind = "restart"
    <3>1. Post(o, "restarting", r.node, "restart", id)
      BY <1>3, <2>6 DEF Confirm
    <3> QED
      BY <2>1, <2>2, <2>6, <3>1, PostImplements DEF Calling, OpOf
  <2> QED
    BY <2>4, <2>5, <2>6, OrderOf DEF Kinds
<1> QED
  BY <1>2, <1>3

(* The second call of a move: the order was leaving, as the same ASN.      *)
LEMMA SecondImplements ==
  ASSUME OrdersInv, OrdersInv', SteadyInv, AllMoved, NEW o \in Orders, Second(o)
  PROVE  Registry!Next
PROOF
<1> DEFINE r == order[o]
<1>1. r.phase = "added"
  BY DEF Second
<1>2. CASE id = None
  BY <1>2, AgentsUntouched DEF Second
<1>3. CASE id # None
  <2>1. id \in ASNs /\ did' = did
    BY <1>3 DEF OrdersInv, TypeOK, Second
  <2>2. r.node \in Nodes /\ r.from \in Nodes /\ r.kind = "modify" /\ "peer" \in did[o]
    BY <1>1, OrderOf DEF Fields, Calls, Deeds, Asked, Agreed
  <2>3. r.asn = id
    BY <1>1, <1>3, <2>2 DEF SteadyInv, Steady, Agreed
  <2>4. CASE r.from = r.node
    <3>1. Post(o, "restarting", r.node, "restart", id)
      BY <1>3, <2>4 DEF Second
    <3> QED
      BY <2>1, <2>2, <3>1, PostImplements DEF Calling, OpOf
  <2>5. CASE r.from # r.node
    <3>1. Post(o, "removing", r.from, "remove", id)
      BY <1>3, <2>5 DEF Second
    <3>2. o \in Leaving
      BY <1>1, <2>2, <2>5 DEF Leaving
    <3>3. <<id, r.from>> \in Released
      BY <2>3, <3>2 DEF Released
    <3> QED
      BY <2>1, <2>2, <3>1, <3>3, PostImplements DEF Calling, OpOf
  <2> QED
    BY <2>4, <2>5
<1> QED
  BY <1>2, <1>3

LEMMA GiveUpImplements ==
  ASSUME OrdersInv, OrdersInv', AllMoved, (\E o \in Orders : GiveUp(o)) \/ Restart
  PROVE  Registry!Next
PROOF
<1>1. \E S : Abandon(S)
  BY DEF GiveUp, Restart
<1>2. UNCHANGED <<peers, did>>
  BY DEF GiveUp, Restart
<1> QED
  BY <1>1, <1>2, AbandonedWereThere, ReleasedKept, ReorderStep

LEMMA LoseImplements ==
  ASSUME OrdersInv, OrdersInv', AllMoved, NEW n \in Nodes, Lose(n)
  PROVE  Registry!Next
PROOF
<1>1. inbox[n] # <<>> /\ inbox' = [inbox EXCEPT ![n] = Tail(@)] /\ UNCHANGED <<peers, did>>
  BY DEF Lose
<1> QED
  BY <1>1, RestWasThere, ReleasedKept, ReorderStep

(* An agent handles a request.                                             *)
LEMMA HandleImplements ==
  ASSUME OrdersInv, OrdersInv', AllMoved,
         NEW n \in Nodes, NEW effect \in BOOLEAN, NEW answer \in {"ok", "refused", "failed"},
         Handle(n, effect, answer)
  PROVE  Registry!Next
PROOF
<1>1. PICK q : q = Head(inbox[n])
  OBVIOUS
<1>2. /\ inbox[n] # <<>> /\ inbox' = [inbox EXCEPT ![n] = Tail(@)]
      /\ peers' = [peers EXCEPT ![n] = CASE effect /\ q.op = "peer"   -> @ \cup {q.asn}
                                         [] effect /\ q.op = "remove" -> @ \ {q.asn}
                                         [] OTHER                     -> @]
      /\ did' = [did EXCEPT ![q.by] = IF effect /\ q.awaited THEN @ \cup {q.op} ELSE @]
  BY <1>1 DEF Handle
<1>3. 1 \in DOMAIN inbox[n] /\ q = inbox[n][1]
  BY <1>1, <1>2, TailFacts DEF OrdersInv, TypeOK
<1>4. q \in RequestType /\ SentInv(n, q)
  BY <1>3, RequestOf DEF OrdersInv, TypeOK, InboxInv
<1>5. q.by \in Orders /\ q.asn \in ASNs /\ q.op \in {"peer", "remove", "restart"}
  BY <1>4 DEF RequestType
<1>6. \A m \in Nodes : \A j \in DOMAIN inbox'[m] : WasThere(m, j)
  BY <1>2, RestWasThere
<1>7. Ordered' \subseteq Ordered
  BY <1>6, RemovalsKept DEF Ordered
<1>8. \A o \in Orders : o # q.by => did'[o] = did[o]
  BY <1>2, <1>5 DEF OrdersInv, TypeOK
<1>9. did'[q.by] = IF effect /\ q.awaited THEN did[q.by] \cup {q.op} ELSE did[q.by]
  BY <1>2, <1>5 DEF OrdersInv, TypeOK
<1>10. peers \in [Nodes -> SUBSET ASNs]
  BY DEF OrdersInv, TypeOK
<1>11. CASE ~(effect /\ q.op = "peer")
  <2>1. \A o \in Orders : "peer" \in did'[o] => "peer" \in did[o]
    BY <1>8, <1>9, <1>11
  <2>2. Released' \subseteq Released
    BY <1>6, <2>1, ReleasedKept
  <2>3. CASE effect /\ q.op = "remove"
    <3>1. <<q.asn, n>> \in Ordered \cup Released
      BY <1>3, <1>4, <2>3 DEF SentInv, Ordered, Released, Removals
    <3>2. peers' = [peers EXCEPT ![n] = @ \ {q.asn}]
      BY <1>2, <2>3
    <3>3. Where' = [Where EXCEPT ![q.asn] = @ \ {n}]
      BY <1>5, <1>10, <3>2 DEF Where
    <3>4. Registry!Leave(q.asn, n)
      BY <1>7, <2>2, <3>1, <3>3 DEF Registry!Leave, Where, Ordered, Released
    <3> QED
      BY <1>5, <3>4 DEF Registry!Next
  <2>4. CASE ~(effect /\ q.op = "remove")
    <3>1. peers' = peers
      BY <1>2, <1>10, <1>11, <2>4
    <3> QED
      BY <2>2, <3>1, ReorderStep
  <2> QED
    BY <2>3, <2>4
<1>12. CASE effect /\ q.op = "peer"
  <2>1. peers' = [peers EXCEPT ![n] = @ \cup {q.asn}]
    BY <1>2, <1>12
  <2>2. Where' = [Where EXCEPT ![q.asn] = @ \cup {n}]
    BY <1>5, <1>10, <2>1 DEF Where
  <2>3. \/ Released' \subseteq Released
        \/ \E m \in Nodes \ {n} : Released' \subseteq Released \cup {<<q.asn, m>>}
    <3> DEFINE o == q.by
    <3>1. CASE o \in Leaving' /\ q.awaited
      <4>1. /\ order'[o].asn = q.asn /\ order'[o].node = n
            /\ order'[o].from \in Nodes \ {n}
        <5>1. /\ order[o].asn = q.asn /\ order[o].node = n
              /\ order[o].phase = "adding"
          BY <1>4, <1>12, <3>1 DEF SentInv, OpOf, Calling
        <5>2. /\ order'[o].asn = order[o].asn /\ order'[o].node = order[o].node
              /\ order'[o].phase \in {"adding", "added"} /\ order'[o].from # order'[o].node
          BY <1>5, <3>1, <5>1 DEF Leaving, AllMoved, Moved
        <5>3. order'[o].from \in Nodes
          BY <1>5, <5>2 DEF OrdersInv, OrderInv, Fields, Agreed, Calling
        <5> QED
          BY <5>1, <5>2, <5>3
      <4>2. Removals("modify")' \subseteq Released
        BY <1>6, RemovalsKept DEF Released
      <4>3. ASSUME NEW p \in Leaving', p # o
            PROVE  <<order'[p].asn, order'[p].from>> \in Released
        BY <1>8, <4>3, LeavingKept DEF Released, Leaving
      <4>4. Released' \subseteq Released \cup {<<q.asn, order'[o].from>>}
        BY <4>1, <4>2, <4>3 DEF Released
      <4> QED
        BY <4>1, <4>4
    <3>2. CASE ~(o \in Leaving' /\ q.awaited)
      <4>1. Removals("modify")' \subseteq Released
        BY <1>6, RemovalsKept DEF Released
      <4>2. ASSUME NEW p \in Leaving'
            PROVE  <<order'[p].asn, order'[p].from>> \in Released
        <5>1. p \in Orders /\ did'[p] = did[p]
          BY <1>8, <1>9, <3>2 DEF Leaving
        <5> QED
          BY <4>2, <5>1, LeavingKept DEF Released
      <4> QED
        BY <4>1, <4>2 DEF Released
    <3> QED
      BY <3>1, <3>2
  <2>4. Registry!Enter(q.asn, n)
    BY <1>7, <2>2, <2>3 DEF Registry!Enter, Where, Ordered, Released
  <2> QED
    BY <1>5, <2>4 DEF Registry!Next
<1> QED
  BY <1>11, <1>12

LEMMA RegistryStep ==
  ASSUME OrdersInv, SteadyInv, [Next]_vars
  PROVE  [Registry!Next]_(Registry!vars)
PROOF
<1>1. OrdersInv' /\ AllMoved
  BY NextKeeps
<1>2. CASE UNCHANGED agents
  BY <1>1, <1>2, AgentsUntouched
<1>3. CASE \E o \in Orders : Confirm(o) \/ Second(o) \/ GiveUp(o)
  BY <1>1, <1>3, ConfirmImplements, SecondImplements, GiveUpImplements
<1>4. CASE Restart
  BY <1>1, <1>4, GiveUpImplements
<1>5. CASE \E n \in Nodes : Lose(n) \/ \E effect \in BOOLEAN, answer \in {"ok", "refused", "failed"} :
                                         Handle(n, effect, answer)
  BY <1>1, <1>5, LoseImplements, HandleImplements
<1>6. UNCHANGED vars => UNCHANGED agents
  BY DEF vars, agents
<1>7. ASSUME NEW o \in Orders, Thread(o)
      PROVE  UNCHANGED agents \/ Confirm(o) \/ Second(o) \/ GiveUp(o)
  BY <1>7 DEF Thread, Start, AskUser, Fill, HandleReply
<1>8. Next =>
        \/ UNCHANGED agents
        \/ \E o \in Orders : Confirm(o) \/ Second(o) \/ GiveUp(o)
        \/ Restart
        \/ \E n \in Nodes : Lose(n) \/ \E effect \in BOOLEAN, answer \in {"ok", "refused", "failed"} :
                                        Handle(n, effect, answer)
  BY <1>7 DEF Next, Command, Answer, Switch, ServersCheck, Save
<1> QED
  BY <1>2, <1>3, <1>4, <1>5, <1>6, <1>8

(* While one identity is not replaced by another, the orders are a         *)
(* registry: only an order of its user takes a peer away, and a move lets  *)
(* go of the old node only once the new one has the peer.                  *)
THEOREM OrdersImplementRegistry ==
  ASSUME OneIdentity
  PROVE  Spec => RegistrySpec
PROOF
<1>1. Spec => []SteadyInv
  <2>1. CASE "switch" \notin Events
    <3>1. Init => SteadyInv
      BY NoOrderFacts DEF Init, SteadyInv, Steady, Agreed, Calling
    <3>2. OrdersInv /\ SteadyInv /\ [Next]_vars => SteadyInv'
      BY <2>1, SteadyStep
    <3> QED
      BY <3>1, <3>2, OrdersInvariant, PTL DEF Spec
  <2>2. CASE \A a, b \in ASNs : a = b
    <3>1. OrdersInv => SteadyInv
      BY <2>2, SteadySingle
    <3> QED
      BY <3>1, OrdersInvariant, PTL
  <2> QED
    BY <2>1, <2>2 DEF OneIdentity
<1>2. Init => Registry!Init
  <2> SUFFICES ASSUME Init
               PROVE  Registry!Init
    OBVIOUS
  <2>1. Leaving = {}
    BY NoOrderFacts DEF Init, Leaving
  <2>2. \A k : Removals(k) = {}
    BY DEF Init, Removals
  <2> QED
    BY <2>1, <2>2 DEF Registry!Init
<1>3. OrdersInv /\ SteadyInv /\ [Next]_vars => [Registry!Next]_(Registry!vars)
  BY RegistryStep
<1> QED
  BY <1>1, <1>2, <1>3, OrdersInvariant, PTL DEF Spec, RegistrySpec, Registry!Spec

=============================================================================
