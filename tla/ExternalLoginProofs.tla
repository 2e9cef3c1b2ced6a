------------------------ MODULE ExternalLoginProofs ------------------------
(***************************************************************************)
(* Theorems about ExternalLogin, for any numbers of logins, keys, texts,   *)
(* rotations and failures: the types, that a link works until its time is  *)
(* up, that the page is true, that a login is finished once and that one   *)
(* which fails has a reason to.                                            *)
(***************************************************************************)
EXTENDS ExternalLogin, SequenceTheorems, TLAPS

Untouched(f) == page[f] = "none" /\ bound[f] = None

(* There is a token only of a login in work, and a claim to compare.       *)
ClaimInv ==
  /\ pc = "idle" => token.key = None
  /\ pc = "compare" => claim # None

(* A login is among the pending ones once at most, not while it is in work,*)
(* and nothing has come of it before.                                      *)
PendingInv ==
  /\ \A i \in 1..Len(pending) :
       flow[pending[i]] = "started" /\ pending[i] # current /\ Untouched(pending[i])
  /\ \A i, k \in 1..Len(pending) : pending[i] = pending[k] => i = k
  /\ current \in Flows => flow[current] = "started" /\ Untouched(current)
  /\ \A f \in Flows : flow[f] # "started" => Untouched(f)

(* The logins in the table behind one have all come after it.              *)
Ranked == \A i \in 1..Len(pending) : later[pending[i]] >= Len(pending) - i

(* LinkLives and PageIsTrue with what they rest on.                        *)
LoginInv == TypeOK /\ ClaimInv /\ PendingInv /\ Ranked /\ LinkLives /\ PageIsTrue

(* The step that finishes a login is the only one to touch it.             *)
Once(f) == page[f] # "none" \/ flow[f] # "started" => page'[f] = page[f] /\ bound'[f] = bound[f]

-----------------------------------------------------------------------------
(* Sequences: what is left when one element goes or one comes.             *)
LEMMA RemoveAtProperties ==
  ASSUME NEW S, NEW s \in Seq(S), NEW i \in 1..Len(s)
  PROVE  /\ RemoveAt(s, i) \in Seq(S)
         /\ Len(RemoveAt(s, i)) = Len(s) - 1
         /\ \A k \in 1..(Len(s) - 1) : RemoveAt(s, i)[k] = IF k < i THEN s[k] ELSE s[k + 1]
  <1>. DEFINE u == SubSeq(s, 1, i - 1)
              v == SubSeq(s, i + 1, Len(s))
  <1>1. Len(s) \in Nat /\ \A k \in 1..Len(s) : s[k] \in S
    OBVIOUS
  <1>2. /\ u \in Seq(S)
        /\ Len(u) = IF 1 <= i - 1 THEN i - 1 - 1 + 1 ELSE 0
        /\ \A k \in 1..(i - 1 - 1 + 1) : u[k] = s[1 + k - 1]
    <2>1. \A k \in 1..(i - 1) : s[k] \in S
      BY <1>1
    <2>. HIDE DEF u
    <2>. QED
      BY <2>1, SubSeqProperties DEF u
  <1>3. /\ v \in Seq(S)
        /\ Len(v) = IF i + 1 <= Len(s) THEN Len(s) - (i + 1) + 1 ELSE 0
        /\ \A k \in 1..(Len(s) - (i + 1) + 1) : v[k] = s[i + 1 + k - 1]
    <2>1. \A k \in (i + 1)..Len(s) : s[k] \in S
      BY <1>1
    <2>. QED
      BY <1>1, <2>1, SubSeqProperties
  <1>. HIDE DEF u, v
  <1>4. /\ u \o v \in Seq(S)
        /\ Len(u \o v) = Len(u) + Len(v)
        /\ \A k \in 1..(Len(u) + Len(v)) : (u \o v)[k] = IF k <= Len(u) THEN u[k] ELSE v[k - Len(u)]
    BY <1>2, <1>3, ConcatProperties
  <1>5. Len(u) = i - 1 /\ Len(v) = Len(s) - i
    BY <1>1, <1>2, <1>3
  <1>6. ASSUME NEW k \in 1..(Len(s) - 1)
        PROVE  (u \o v)[k] = IF k < i THEN s[k] ELSE s[k + 1]
    <2>1. CASE k < i
      BY <1>1, <1>2, <1>4, <1>5, <2>1
    <2>2. CASE ~(k < i)
      BY <1>1, <1>3, <1>4, <1>5, <2>2
    <2>. QED
      BY <2>1, <2>2
  <1>7. RemoveAt(s, i) = u \o v
    BY DEF RemoveAt, u, v
  <1>8. Len(u \o v) = Len(s) - 1
    BY <1>1, <1>4, <1>5
  <1>. QED
    BY <1>4, <1>6, <1>7, <1>8

LEMMA TailRemains ==
  ASSUME NEW S, NEW s \in Seq(S), s # <<>>
  PROVE  /\ Tail(s) \in Seq(S)
         /\ Len(Tail(s)) = Len(s) - 1
         /\ \A k \in 1..(Len(s) - 1) : Tail(s)[k] = s[k + 1]
  BY HeadTailProperties

-----------------------------------------------------------------------------
LEMMA InitInv == Init => LoginInv
  <1>. SUFFICES ASSUME Init PROVE LoginInv
    OBVIOUS
  <1>. USE ExternalLoginAssumption
  <1>1. TypeOK
    <2>1. pending \in Seq(Flows) /\ Len(pending) <= MaxPending
      BY DEF Init
    <2>2. signing \in published /\ published \subseteq Keys /\ doc \subseteq Keys
      BY DEF Init, NoKeys
    <2>3. token \in [key : Keys \cup {None}, idToken : Texts \cup {None}, userinfo : Texts \cup {None}]
      BY DEF Init, NoToken
    <2>4. rotations \in 0..MaxRotations /\ faults \in 0..MaxFaults
      BY DEF Init
    <2>. QED
      BY <2>1, <2>2, <2>3, <2>4 DEF Init, TypeOK
  <1>2. ClaimInv /\ PendingInv
    BY DEF Init, ClaimInv, PendingInv, Untouched, NoToken
  <1>3. Ranked /\ LinkLives /\ PageIsTrue
    BY DEF Init, Ranked, LinkLives, PageIsTrue
  <1>. QED
    BY <1>1, <1>2, <1>3 DEF LoginInv

(* A failure is counted, and whose callback it is is known.                *)
LEMMA FaultTypes ==
  ASSUME TypeOK, NEW f \in Flows, Fault(f) \/ NoFault
  PROVE  faults' \in 0..MaxFaults /\ troubled' \subseteq Flows
  BY ExternalLoginAssumption DEF TypeOK, Fault, NoFault

-----------------------------------------------------------------------------
(* start_login.                                                            *)

(* The tables stay, and no login gets a link or loses it.                  *)
LEMMA TablesKeep ==
  ASSUME LoginInv, UNCHANGED <<pending, current, page, bound, observed>>,
         \A g \in Flows : (flow'[g] = "started") = (flow[g] = "started"),
         TypeOK', ClaimInv'
  PROVE  LoginInv'
  <1>1. \A i \in 1..Len(pending) : pending[i] \in Flows
    BY DEF LoginInv, TypeOK
  <1>2. PendingInv'
    BY <1>1 DEF LoginInv, PendingInv, Untouched
  <1>3. Ranked' /\ LinkLives' /\ PageIsTrue'
    BY DEF observed, LoginInv, Ranked, LinkLives, PageIsTrue
  <1>. QED
    BY <1>2, <1>3 DEF LoginInv

LEMMA DiscoverKeeps ==
  ASSUME LoginInv, NEW f \in Flows, NEW asn \in ASNs \cup {None}, Discover(f, asn)
  PROVE  LoginInv'
  <1>1. /\ flow' \in [Flows -> {"free", "reading", "fetching", "starting", "started", "refused"}]
        /\ \A g \in Flows : (flow'[g] = "started") = (flow[g] = "started")
    BY DEF Discover, LoginInv, TypeOK
  <1>2. asked' \in [Flows -> ASNs \cup {None}]
    BY DEF Discover, LoginInv, TypeOK
  <1>3. UNCHANGED <<callback, provider, pending, cache, bound, page, faults, troubled, observed>>
    BY DEF Discover
  <1>4. TypeOK'
    BY <1>1, <1>2, <1>3 DEF callback, provider, observed, LoginInv, TypeOK
  <1>5. ClaimInv'
    BY <1>3 DEF callback, LoginInv, ClaimInv
  <1>. QED
    BY <1>1, <1>3, <1>4, <1>5, TablesKeep DEF callback

LEMMA ReadDocumentKeeps ==
  ASSUME LoginInv, NEW f \in Flows, ReadDocument(f)
  PROVE  LoginInv'
  <1>1. /\ flow' \in [Flows -> {"free", "reading", "fetching", "starting", "started", "refused"}]
        /\ \A g \in Flows : (flow'[g] = "started") = (flow[g] = "started")
    BY DEF ReadDocument, LoginInv, TypeOK
  <1>2. UNCHANGED <<callback, provider, asked, pending, cache, bound, page, faults, troubled, observed>>
    BY DEF ReadDocument
  <1>3. TypeOK'
    BY <1>1, <1>2 DEF callback, provider, observed, LoginInv, TypeOK
  <1>4. ClaimInv'
    BY <1>2 DEF callback, LoginInv, ClaimInv
  <1>. QED
    BY <1>1, <1>2, <1>3, <1>4, TablesKeep DEF callback

LEMMA FetchDocumentKeeps ==
  ASSUME LoginInv, NEW f \in Flows, FetchDocument(f)
  PROVE  LoginInv'
  <1>1. /\ flow' \in [Flows -> {"free", "reading", "fetching", "starting", "started", "refused"}]
        /\ \A g \in Flows : (flow'[g] = "started") = (flow[g] = "started")
    BY DEF FetchDocument, LoginInv, TypeOK
  <1>2. (cache' = None \/ cache' \subseteq Keys) /\ shared' \in BOOLEAN
    BY DEF FetchDocument, NoKeys, LoginInv, TypeOK
  <1>3. faults' \in 0..MaxFaults /\ troubled' \subseteq Flows
    BY FaultTypes DEF FetchDocument, LoginInv
  <1>4. UNCHANGED <<pc, current, doc, forced, token, claim, provider, asked, pending, bound, page, observed>>
    BY DEF FetchDocument
  <1>5. TypeOK'
    BY <1>1, <1>2, <1>3, <1>4 DEF provider, observed, LoginInv, TypeOK
  <1>6. ClaimInv'
    BY <1>4 DEF LoginInv, ClaimInv
  <1>. QED
    BY <1>1, <1>4, <1>5, <1>6, TablesKeep

(* A full table drops its oldest login before it takes the new one.        *)
LEMMA StoreKeeps ==
  ASSUME LoginInv, NEW f \in Flows, Store(f)
  PROVE  LoginInv'
  <1>. USE ExternalLoginAssumption
  <1>. DEFINE rest == IF Len(pending) = MaxPending THEN Tail(pending) ELSE pending
  <1>1. pending \in Seq(Flows) /\ Len(pending) <= MaxPending /\ flow[f] = "starting" /\ Untouched(f)
    BY DEF Store, LoginInv, TypeOK, PendingInv
  <1>2. /\ rest \in Seq(Flows) /\ Len(rest) < MaxPending
        /\ \A i \in 1..Len(rest) : \E k \in 1..Len(pending) :
             rest[i] = pending[k] /\ Len(rest) - i = Len(pending) - k
        /\ \A k \in 1..Len(pending) :
             (\E i \in 1..Len(rest) : rest[i] = pending[k]) \/ (k = 1 /\ Len(pending) = MaxPending)
        /\ \A i, k \in 1..Len(rest) : rest[i] = rest[k] => i = k
    <2>1. CASE Len(pending) = MaxPending
      <3>1. pending # <<>>
        BY <1>1, <2>1
      <3>2. /\ Tail(pending) \in Seq(Flows) /\ Len(Tail(pending)) = Len(pending) - 1
            /\ \A k \in 1..(Len(pending) - 1) : Tail(pending)[k] = pending[k + 1]
        BY <1>1, <3>1, TailRemains
      <3>3. \A i, k \in 1..Len(pending) : pending[i] = pending[k] => i = k
        BY DEF LoginInv, PendingInv
      <3>4. \A i \in 1..Len(rest) : /\ i + 1 \in 1..Len(pending) /\ rest[i] = pending[i + 1]
                                     /\ Len(rest) - i = Len(pending) - (i + 1)
        BY <1>1, <2>1, <3>2
      <3>6. ASSUME NEW k \in 1..Len(pending), k # 1
            PROVE  \E i \in 1..Len(rest) : rest[i] = pending[k]
        <4>1. k - 1 \in 1..Len(rest) /\ rest[k - 1] = pending[k]
          BY <1>1, <2>1, <3>2, <3>6
        <4>. QED
          BY <4>1
      <3>. HIDE DEF rest
      <3>5. \A i, k \in 1..Len(rest) : rest[i] = rest[k] => i = k
        BY <3>3, <3>4
      <3>. QED
        BY <1>1, <2>1, <3>2, <3>4, <3>5, <3>6 DEF rest
    <2>2. CASE Len(pending) # MaxPending
      BY <1>1, <2>2 DEF LoginInv, PendingInv
    <2>. QED
      BY <2>1, <2>2
  <1>3. pending' = Append(rest, f)
    BY DEF Store
  <1>. HIDE DEF rest
  <1>4. /\ pending' \in Seq(Flows) /\ Len(pending') = Len(rest) + 1
        /\ pending'[Len(rest) + 1] = f /\ \A i \in 1..Len(rest) : pending'[i] = rest[i]
    BY <1>2, <1>3
  <1>5. /\ flow' \in [Flows -> {"free", "reading", "fetching", "starting", "started", "refused"}]
        /\ flow'[f] = "started" /\ \A g \in Flows \ {f} : flow'[g] = flow[g]
    BY DEF Store, LoginInv, TypeOK
  <1>6. UNCHANGED <<callback, provider, asked, cache, bound, page, faults, troubled, expired>>
    BY DEF Store
  <1>10. /\ later' \in [Flows -> Nat]
         /\ \A g \in Flows : /\ later'[g] >= later[g]
                             /\ flow[g] = "started" => later'[g] = later[g] + 1
    BY DEF Store, LoginInv, TypeOK
  <1>7. TypeOK'
    BY <1>2, <1>4, <1>5, <1>6, <1>10 DEF callback, provider, LoginInv, TypeOK
  <1>8. ClaimInv' /\ PageIsTrue'
    BY <1>6 DEF callback, LoginInv, ClaimInv, PageIsTrue
  <1>9. PendingInv'
    <2>1. \A i \in 1..Len(rest) : /\ rest[i] \in Flows \ {f} /\ flow[rest[i]] = "started"
                                 /\ rest[i] # current /\ Untouched(rest[i])
      <3>1. ASSUME NEW i \in 1..Len(rest)
            PROVE  /\ rest[i] \in Flows \ {f} /\ flow[rest[i]] = "started"
                   /\ rest[i] # current /\ Untouched(rest[i])
        <4>1. PICK k \in 1..Len(pending) : rest[i] = pending[k]
          BY <1>2
        <4>2. flow[pending[k]] = "started" /\ pending[k] # current /\ Untouched(pending[k])
          BY DEF LoginInv, PendingInv
        <4>3. rest[i] \in Flows
          BY <1>2
        <4>. QED
          BY <1>1, <4>1, <4>2, <4>3
      <3>. QED
        BY <3>1
    <2>2. current # f
      BY <1>1 DEF LoginInv, PendingInv
    <2>3. Len(rest) \in Nat /\ 1..Len(pending') = 1..Len(rest) \cup {Len(rest) + 1}
      BY <1>2, <1>4
    <2>4. ASSUME NEW i \in 1..Len(pending')
          PROVE  (flow[pending[i]] = "started" /\ pending[i] # current /\ Untouched(pending[i]))'
      <3>1. CASE i \in 1..Len(rest)
        BY <1>4, <1>5, <1>6, <2>1, <3>1 DEF callback, Untouched
      <3>2. CASE i = Len(rest) + 1
        BY <1>1, <1>4, <1>5, <1>6, <2>2, <3>2 DEF callback, Untouched
      <3>. QED
        BY <2>3, <3>1, <3>2
    <2>5. ASSUME NEW i \in 1..Len(pending'), NEW k \in 1..Len(pending'), pending'[i] = pending'[k]
          PROVE  i = k
      <3>1. CASE i \in 1..Len(rest) /\ k \in 1..Len(rest)
        BY <1>2, <1>4, <2>5, <3>1
      <3>2. CASE i \in 1..Len(rest) /\ k = Len(rest) + 1
        BY <1>4, <2>1, <2>5, <3>2
      <3>3. CASE i = Len(rest) + 1 /\ k \in 1..Len(rest)
        BY <1>4, <2>1, <2>5, <3>3
      <3>4. CASE i = Len(rest) + 1 /\ k = Len(rest) + 1
        BY <3>4
      <3>. QED
        BY <2>3, <3>1, <3>2, <3>3, <3>4
    <2>6. \A g \in Flows : (flow[g] # "started" => Untouched(g))'
      BY <1>5, <1>6 DEF LoginInv, PendingInv, Untouched
    <2>7. (current \in Flows => flow[current] = "started" /\ Untouched(current))'
      BY <1>5, <1>6, <2>2 DEF callback, LoginInv, PendingInv, Untouched
    <2>. QED
      BY <2>4, <2>5, <2>6, <2>7 DEF PendingInv
  <1>11. \A k \in 1..Len(pending) : pending[k] \in Flows /\ flow[pending[k]] = "started"
    BY <1>1 DEF LoginInv, PendingInv
  <1>12. Ranked'
    <2>1. ASSUME NEW i \in 1..Len(pending')
          PROVE  later'[pending'[i]] >= Len(pending') - i
      <3>1. CASE i \in 1..Len(rest)
        <4>1. PICK k \in 1..Len(pending) : rest[i] = pending[k] /\ Len(rest) - i = Len(pending) - k
          BY <1>2, <3>1
        <4>2. later[pending[k]] >= Len(pending) - k /\ later[pending[k]] \in Nat
          BY <1>11 DEF LoginInv, Ranked, TypeOK
        <4>3. later'[pending[k]] = later[pending[k]] + 1
          BY <1>10, <1>11
        <4>. QED
          BY <1>1, <1>2, <1>4, <3>1, <4>1, <4>2, <4>3
      <3>2. CASE i = Len(rest) + 1
        BY <1>1, <1>2, <1>4, <1>10, <3>2
      <3>. QED
        BY <1>2, <1>4, <3>1, <3>2
    <2>. QED
      BY <2>1 DEF Ranked
  <1>13. LinkLives'
    <2>. SUFFICES ASSUME NEW g \in Flows, flow'[g] = "started", page'[g] = "none", g # current',
                         g \notin expired', ~(later'[g] >= MaxPending)
                  PROVE  \E i \in DOMAIN pending' : pending'[i] = g
      BY DEF LinkLives
    <2>1. DOMAIN pending' = 1..Len(pending') /\ DOMAIN pending = 1..Len(pending)
      BY <1>1, <1>4
    <2>2. CASE g = f
      <3>1. Len(rest) + 1 \in 1..Len(pending')
        BY <1>2, <1>4
      <3>. QED
        BY <1>4, <2>1, <2>2, <3>1
    <2>3. CASE g # f
      <3>1. flow[g] = "started" /\ page[g] = "none" /\ g # current /\ g \notin expired
        BY <1>5, <1>6, <2>3 DEF callback
      <3>2. later[g] \in Nat /\ later'[g] = later[g] + 1
        BY <1>10, <3>1 DEF LoginInv, TypeOK
      <3>3. ~(later[g] >= MaxPending)
        BY <3>2
      <3>4. PICK k \in 1..Len(pending) : pending[k] = g
        BY <2>1, <3>1, <3>3 DEF LoginInv, LinkLives
      <3>5. later[g] >= Len(pending) - k
        BY <3>4 DEF LoginInv, Ranked
      <3>6. ~(k = 1 /\ Len(pending) = MaxPending)
        BY <3>2, <3>5
      <3>7. PICK i \in 1..Len(rest) : rest[i] = g
        BY <1>2, <3>4, <3>6
      <3>8. i \in 1..Len(pending') /\ pending'[i] = g
        BY <1>2, <1>4, <3>7
      <3>. QED
        BY <2>1, <3>8
    <2>. QED
      BY <2>2, <2>3
  <1>. QED
    BY <1>7, <1>8, <1>9, <1>12, <1>13 DEF LoginInv

-----------------------------------------------------------------------------
(* finish_login.                                                           *)

(* The login is in work, and in no other place.                            *)
LEMMA WorksOn ==
  ASSUME LoginInv, pc # "idle"
  PROVE  current \in Flows /\ flow[current] = "started" /\ Untouched(current)
  BY DEF LoginInv, TypeOK, PendingInv

(* A failure ends the callback and binds nothing.                          *)
LEMMA FailureKeeps ==
  ASSUME LoginInv, pc # "idle", Respond("failed"), UNCHANGED <<flow, asked, pending, provider, bound, observed>>,
         cache' = None \/ cache' \subseteq Keys, faults' \in 0..MaxFaults, troubled' \subseteq Flows
  PROVE  LoginInv'
  <1>. USE ExternalLoginAssumption
  <1>1. current \in Flows /\ flow[current] = "started" /\ Untouched(current)
    BY WorksOn
  <1>2. /\ page' \in [Flows -> {"none", "ok", "failed", "rejected", "error"}]
        /\ page'[current] = "failed" /\ \A f \in Flows \ {current} : page'[f] = page[f]
    BY <1>1 DEF Respond, LoginInv, TypeOK
  <1>3. /\ pc' = "idle" /\ current' = None /\ current' \notin Flows /\ doc' \subseteq Keys /\ shared' = FALSE
        /\ forced' = FALSE /\ claim' = None /\ token'.key = None
        /\ token' \in [key : Keys \cup {None}, idToken : Texts \cup {None}, userinfo : Texts \cup {None}]
    BY DEF Respond, NoKeys, NoToken
  <1>4. TypeOK'
    BY <1>2, <1>3 DEF provider, observed, LoginInv, TypeOK
  <1>5. ClaimInv'
    BY <1>3 DEF ClaimInv
  <1>6. \A i \in 1..Len(pending) : pending[i] \in Flows \ {current}
    BY DEF LoginInv, TypeOK, PendingInv
  <1>7. PendingInv'
    BY <1>1, <1>2, <1>3, <1>6 DEF LoginInv, PendingInv, Untouched
  <1>8. Ranked' /\ LinkLives' /\ PageIsTrue'
    BY <1>1, <1>2 DEF observed, LoginInv, Ranked, LinkLives, PageIsTrue, Untouched
  <1>. QED
    BY <1>4, <1>5, <1>7, <1>8 DEF LoginInv

(* A step of the callback that goes on tells nobody and binds nothing.     *)
LEMMA WorkKeeps ==
  ASSUME LoginInv, UNCHANGED <<flow, asked, pending, bound, page, current, observed>>, TypeOK', ClaimInv'
  PROVE  LoginInv'
  BY TablesKeep

LEMMA CallbackStepKeeps ==
  ASSUME LoginInv, NEW i \in DOMAIN pending, NEW code \in BOOLEAN, Callback(i, code)
  PROVE  LoginInv'
  <1>. USE ExternalLoginAssumption
  <1>. DEFINE f == pending[i]
  <1>1. pending \in Seq(Flows) /\ i \in 1..Len(pending) /\ f \in Flows
    BY DEF LoginInv, TypeOK
  <1>2. flow[f] = "started" /\ Untouched(f)
    BY <1>1 DEF LoginInv, PendingInv
  <1>3. /\ pending' \in Seq(Flows) /\ Len(pending') = Len(pending) - 1
        /\ \A k \in 1..(Len(pending) - 1) : pending'[k] = IF k < i THEN pending[k] ELSE pending[k + 1]
    <2>1. pending' = RemoveAt(pending, i)
      BY DEF Callback
    <2>2. /\ RemoveAt(pending, i) \in Seq(Flows) /\ Len(RemoveAt(pending, i)) = Len(pending) - 1
          /\ \A k \in 1..(Len(pending) - 1) :
               RemoveAt(pending, i)[k] = IF k < i THEN pending[k] ELSE pending[k + 1]
      BY <1>1, RemoveAtProperties
    <2>. QED
      BY <2>1, <2>2
  <1>4. \A k \in 1..Len(pending') : /\ pending'[k] \in Flows \ {f} /\ flow[pending'[k]] = "started"
                                   /\ page[pending'[k]] = "none" /\ bound[pending'[k]] = None
    <2>1. \A k \in 1..Len(pending') : \E m \in 1..Len(pending) \ {i} : pending'[k] = pending[m]
      <3>. TAKE k \in 1..Len(pending')
      <3>1. CASE k < i
        <4>1. k \in 1..Len(pending) \ {i} /\ pending'[k] = pending[k]
          BY <1>1, <1>3, <3>1
        <4>. QED
          BY <4>1
      <3>2. CASE ~(k < i)
        <4>1. k + 1 \in 1..Len(pending) \ {i} /\ pending'[k] = pending[k + 1]
          BY <1>1, <1>3, <3>2
        <4>. QED
          BY <4>1
      <3>. QED
        BY <3>1, <3>2
    <2>2. ASSUME NEW k \in 1..Len(pending')
          PROVE  /\ pending'[k] \in Flows \ {f} /\ flow[pending'[k]] = "started"
                 /\ page[pending'[k]] = "none" /\ bound[pending'[k]] = None
      <3>1. PICK m \in 1..Len(pending) \ {i} : pending'[k] = pending[m]
        BY <2>1
      <3>2. pending[m] # f /\ flow[pending[m]] = "started" /\ Untouched(pending[m])
        BY <1>1 DEF LoginInv, PendingInv
      <3>3. pending[m] \in Flows
        BY <1>1
      <3>. HIDE DEF f
      <3>. QED
        BY <3>1, <3>2, <3>3 DEF Untouched
    <2>. HIDE DEF f
    <2>. QED
      BY <2>2
  <1>5. ASSUME NEW k \in 1..Len(pending'), NEW m \in 1..Len(pending'), pending'[k] = pending'[m]
        PROVE  k = m
    <2>1. \A a, b \in 1..Len(pending) : pending[a] = pending[b] => a = b
      BY DEF LoginInv, PendingInv
    <2>2. \A n \in 1..Len(pending') : /\ n \in Int /\ n \in 1..Len(pending) /\ n + 1 \in 1..Len(pending)
                                     /\ pending'[n] = IF n < i THEN pending[n] ELSE pending[n + 1]
      BY <1>1, <1>3
    <2>. DEFINE before(n) == IF n < i THEN n ELSE n + 1
    <2>3. /\ before(k) \in 1..Len(pending) /\ pending'[k] = pending[before(k)]
          /\ before(m) \in 1..Len(pending) /\ pending'[m] = pending[before(m)]
      BY <2>2
    <2>4. before(k) = before(m)
      <3>. HIDE DEF before
      <3>. QED
        BY <1>5, <2>1, <2>3
    <2>. QED
      BY <1>1, <2>2, <2>4
  <1>6. UNCHANGED <<flow, asked, cache, provider, doc, shared, forced, token, claim, bound, faults, troubled,
                    observed>>
    BY DEF Callback
  <1>7. pc = "idle" /\ current = None
    BY DEF Callback, LoginInv, TypeOK
  <1>10. Ranked'
    <2>1. ASSUME NEW k \in 1..Len(pending')
          PROVE  later[pending'[k]] >= Len(pending') - k
      <3>1. CASE k < i
        <4>1. k \in 1..Len(pending) /\ pending'[k] = pending[k] /\ later[pending[k]] \in Nat
          BY <1>1, <1>3, <3>1 DEF LoginInv, TypeOK
        <4>2. later[pending[k]] >= Len(pending) - k
          BY <4>1 DEF LoginInv, Ranked
        <4>. QED
          BY <1>1, <1>3, <4>1, <4>2
      <3>2. CASE ~(k < i)
        <4>1. k + 1 \in 1..Len(pending) /\ pending'[k] = pending[k + 1] /\ later[pending[k + 1]] \in Nat
          BY <1>1, <1>3, <3>2 DEF LoginInv, TypeOK
        <4>2. later[pending[k + 1]] >= Len(pending) - (k + 1)
          BY <4>1 DEF LoginInv, Ranked
        <4>. QED
          BY <1>1, <1>3, <4>1, <4>2
      <3>. QED
        BY <3>1, <3>2
    <2>. QED
      BY <1>6, <2>1 DEF observed, Ranked
  <1>11. \A g \in Flows \ {f} : flow[g] = "started" /\ page[g] = "none" =>
           \/ \E k \in DOMAIN pending' : pending'[k] = g
           \/ g \in expired \/ later[g] >= MaxPending
    <2>. SUFFICES ASSUME NEW g \in Flows \ {f}, flow[g] = "started", page[g] = "none",
                         g \notin expired, ~(later[g] >= MaxPending)
                  PROVE  \E k \in DOMAIN pending' : pending'[k] = g
      OBVIOUS
    <2>1. DOMAIN pending' = 1..Len(pending') /\ DOMAIN pending = 1..Len(pending)
      BY <1>1, <1>3
    <2>2. PICK m \in 1..Len(pending) : pending[m] = g
      BY <1>7, <2>1, ExternalLoginAssumption DEF LoginInv, LinkLives
    <2>3. CASE m < i
      <3>1. m \in 1..Len(pending') /\ pending'[m] = g
        BY <1>1, <1>3, <2>2, <2>3
      <3>. QED
        BY <2>1, <3>1
    <2>4. CASE m > i
      <3>1. m - 1 \in 1..Len(pending') /\ pending'[m - 1] = g
        BY <1>1, <1>3, <2>2, <2>4
      <3>. QED
        BY <2>1, <3>1
    <2>5. m # i
      BY <2>2
    <2>. QED
      BY <1>1, <2>3, <2>4, <2>5
  <1>8. CASE code
    <2>1. pc' = "metadata" /\ current' = f /\ UNCHANGED page
      BY <1>8 DEF Callback
    <2>2. TypeOK'
      BY <1>1, <1>3, <1>6, <2>1 DEF provider, observed, LoginInv, TypeOK
    <2>3. ClaimInv'
      BY <2>1 DEF ClaimInv
    <2>4. PendingInv'
      BY <1>2, <1>4, <1>5, <1>6, <2>1 DEF LoginInv, PendingInv, Untouched
    <2>5. PageIsTrue'
      BY <1>6, <2>1 DEF LoginInv, PageIsTrue
    <2>6. LinkLives'
      BY <1>6, <1>11, <2>1 DEF observed, LinkLives
    <2>. QED
      BY <1>10, <2>2, <2>3, <2>4, <2>5, <2>6 DEF LoginInv
  <1>9. CASE ~code
    <2>1. /\ page' \in [Flows -> {"none", "ok", "failed", "rejected", "error"}]
          /\ page'[f] = "rejected" /\ \A g \in Flows \ {f} : page'[g] = page[g]
          /\ UNCHANGED <<pc, current>>
      BY <1>1, <1>9 DEF Callback, LoginInv, TypeOK
    <2>2. TypeOK'
      BY <1>1, <1>3, <1>6, <2>1 DEF provider, observed, LoginInv, TypeOK
    <2>3. ClaimInv'
      BY <1>6, <1>7, <2>1 DEF LoginInv, ClaimInv
    <2>4. PendingInv'
      BY <1>2, <1>4, <1>5, <1>6, <1>7, <2>1 DEF LoginInv, PendingInv, Untouched
    <2>5. PageIsTrue'
      BY <1>2, <1>6, <2>1 DEF LoginInv, PageIsTrue, Untouched
    <2>6. LinkLives'
      BY <1>6, <1>11, <2>1 DEF observed, LinkLives
    <2>. QED
      BY <1>10, <2>2, <2>3, <2>4, <2>5, <2>6 DEF LoginInv
  <1>. QED
    BY <1>8, <1>9

LEMMA MetadataKeeps ==
  ASSUME LoginInv, Metadata
  PROVE  LoginInv'
  <1>1. /\ pc = "metadata" /\ pc' \in {"read", "fetch"} /\ current \in Flows
        /\ UNCHANGED <<flow, asked, pending, cache, provider, doc, shared, forced, token, claim, bound, faults,
                      troubled, observed, current, page>>
    BY WorksOn DEF Metadata, Goto
  <1>2. TypeOK'
    BY <1>1, ExternalLoginAssumption DEF provider, observed, LoginInv, TypeOK
  <1>3. ClaimInv'
    BY <1>1 DEF ClaimInv
  <1>. QED
    BY <1>1, <1>2, <1>3, WorkKeeps

LEMMA ReadMetadataKeeps ==
  ASSUME LoginInv, ReadMetadata
  PROVE  LoginInv'
  <1>1. /\ pc = "read" /\ current \in Flows
        /\ UNCHANGED <<flow, asked, pending, cache, provider, bound, faults, troubled, observed>>
    BY WorksOn DEF ReadMetadata
  <1>2. CASE Respond("failed")
    BY <1>1, <1>2, FailureKeeps DEF LoginInv, TypeOK
  <1>3. CASE /\ cache # None /\ doc' = cache /\ shared' = TRUE
             /\ Goto("token") /\ UNCHANGED <<forced, token, claim>>
    <2>1. UNCHANGED <<page, current>> /\ pc' = "token" /\ doc' \subseteq Keys
      BY <1>3 DEF Goto, LoginInv, TypeOK
    <2>2. TypeOK'
      BY <1>1, <1>3, <2>1, ExternalLoginAssumption DEF provider, observed, LoginInv, TypeOK
    <2>3. ClaimInv'
      BY <2>1 DEF ClaimInv
    <2>. QED
      BY <1>1, <2>1, <2>2, <2>3, WorkKeeps
  <1>. QED
    BY <1>2, <1>3 DEF ReadMetadata

LEMMA FetchMetadataKeeps ==
  ASSUME LoginInv, FetchMetadata
  PROVE  LoginInv'
  <1>1. pc = "fetch" /\ current \in Flows /\ UNCHANGED <<flow, asked, pending, provider, bound, observed>>
    BY WorksOn DEF FetchMetadata
  <1>2. cache' = None \/ cache' \subseteq Keys
    BY DEF FetchMetadata, NoKeys, LoginInv, TypeOK
  <1>3. faults' \in 0..MaxFaults /\ troubled' \subseteq Flows
    BY <1>1, FaultTypes DEF FetchMetadata, LoginInv
  <1>4. CASE Respond("failed")
    BY <1>1, <1>2, <1>3, <1>4, FailureKeeps
  <1>5. CASE doc' = NoKeys /\ shared' = TRUE /\ Goto("token") /\ UNCHANGED <<forced, token, claim>>
    <2>1. UNCHANGED <<page, current>> /\ pc' = "token" /\ doc' \subseteq Keys
      BY <1>5 DEF Goto, NoKeys
    <2>2. TypeOK'
      BY <1>1, <1>2, <1>3, <1>5, <2>1, ExternalLoginAssumption DEF provider, observed, LoginInv, TypeOK
    <2>3. ClaimInv'
      BY <2>1 DEF ClaimInv
    <2>. QED
      BY <1>1, <2>1, <2>2, <2>3, WorkKeeps
  <1>. QED
    BY <1>4, <1>5 DEF FetchMetadata

LEMMA FetchTokenKeeps ==
  ASSUME LoginInv, NEW k \in Keys \cup {None}, NEW i \in Texts \cup {None}, NEW u \in Texts \cup {None},
         FetchToken(k, i, u)
  PROVE  LoginInv'
  <1>1. pc = "token" /\ current \in Flows /\ UNCHANGED <<flow, asked, pending, cache, provider, bound, observed>>
    BY WorksOn DEF FetchToken
  <1>2. faults' \in 0..MaxFaults /\ troubled' \subseteq Flows /\ (cache' = None \/ cache' \subseteq Keys)
    BY <1>1, FaultTypes DEF FetchToken, LoginInv, TypeOK
  <1>3. CASE Respond("failed")
    BY <1>1, <1>2, <1>3, FailureKeeps
  <1>4. CASE /\ i \in Claims(current) /\ u \in Claims(current)
             /\ token' = [key |-> k, idToken |-> i, userinfo |-> u]
             /\ Goto(IF Source = "userinfo" \/ k = None THEN "claim" ELSE "key")
             /\ UNCHANGED <<doc, shared, forced, claim>>
    <2>1. UNCHANGED <<page, current>> /\ pc' \in {"claim", "key"}
      BY <1>4 DEF Goto
    <2>2. token' \in [key : Keys \cup {None}, idToken : Texts \cup {None}, userinfo : Texts \cup {None}]
      BY <1>4
    <2>3. TypeOK'
      BY <1>1, <1>2, <1>4, <2>1, <2>2, ExternalLoginAssumption DEF provider, observed, LoginInv, TypeOK
    <2>4. ClaimInv'
      BY <1>4, <2>1 DEF ClaimInv, Claims
    <2>. QED
      BY <1>1, <2>1, <2>3, <2>4, WorkKeeps
  <1>. QED
    BY <1>3, <1>4 DEF FetchToken

LEMMA FetchJwkSetKeeps ==
  ASSUME LoginInv, FetchJwkSet
  PROVE  LoginInv'
  <1>1. pc = "key" /\ current \in Flows /\ UNCHANGED <<flow, asked, pending, provider, bound, observed>>
    BY WorksOn DEF FetchJwkSet
  <1>2. faults' \in 0..MaxFaults /\ troubled' \subseteq Flows
    BY <1>1, FaultTypes DEF FetchJwkSet, LoginInv
  <1>3. CASE Respond("failed") /\ UNCHANGED cache
    BY <1>1, <1>2, <1>3, FailureKeeps DEF LoginInv, TypeOK
  <1>4. CASE /\ doc' = published
             /\ cache' = IF shared THEN published ELSE cache
             /\ forced' = (doc # NoKeys)
             /\ UNCHANGED <<pc, current, page, shared, token, claim>>
    <2>1. forced' \in BOOLEAN
      BY <1>4
    <2>2. TypeOK'
      BY <1>1, <1>2, <1>4, <2>1 DEF provider, observed, LoginInv, TypeOK
    <2>3. ClaimInv'
      BY <1>4 DEF LoginInv, ClaimInv
    <2>. QED
      BY <1>1, <1>4, <2>2, <2>3, WorkKeeps
  <1>. QED
    BY <1>3, <1>4 DEF FetchJwkSet

LEMMA ParseIdTokenKeeps ==
  ASSUME LoginInv, ParseIdToken
  PROVE  LoginInv'
  <1>1. /\ pc = "key" /\ current \in Flows
        /\ UNCHANGED <<flow, asked, pending, cache, provider, bound, faults, troubled, observed>>
    BY WorksOn DEF ParseIdToken
  <1>2. CASE Respond("failed")
    BY <1>1, <1>2, FailureKeeps DEF LoginInv, TypeOK
  <1>3. CASE Goto("claim") /\ UNCHANGED <<doc, shared, forced, token, claim>>
    <2>1. TypeOK'
      BY <1>1, <1>3, ExternalLoginAssumption DEF Goto, provider, observed, LoginInv, TypeOK
    <2>2. ClaimInv'
      BY <1>1, <1>3 DEF Goto, LoginInv, ClaimInv
    <2>. QED
      BY <1>1, <1>3, <2>1, <2>2, WorkKeeps DEF Goto
  <1>. QED
    BY <1>2, <1>3 DEF ParseIdToken

LEMMA ExtractAsnClaimKeeps ==
  ASSUME LoginInv, ExtractAsnClaim
  PROVE  LoginInv'
  <1>1. pc = "claim" /\ current \in Flows /\ UNCHANGED <<flow, asked, pending, cache, provider, bound, observed>>
    BY WorksOn DEF ExtractAsnClaim
  <1>2. faults' \in 0..MaxFaults /\ troubled' \subseteq Flows /\ (cache' = None \/ cache' \subseteq Keys)
    BY <1>1, FaultTypes DEF ExtractAsnClaim, Found, FetchUserinfo, LoginInv, TypeOK
  <1>3. CASE Respond("failed")
    BY <1>1, <1>2, <1>3, FailureKeeps
  <1>4. ASSUME NEW c \in Texts, claim' = c, Goto("compare"),
               UNCHANGED <<doc, shared, forced, token>>
        PROVE  LoginInv'
    <2>2. TypeOK'
      BY <1>1, <1>2, <1>4, ExternalLoginAssumption DEF Goto, provider, observed, LoginInv, TypeOK
    <2>3. ClaimInv'
      BY <1>4, ExternalLoginAssumption DEF Goto, ClaimInv
    <2>. QED
      BY <1>1, <1>4, <2>2, <2>3, WorkKeeps DEF Goto
  <1>5. {token.idToken, token.userinfo} \subseteq Texts \cup {None}
    BY DEF LoginInv, TypeOK
  <1>6. ASSUME NEW c \in {token.idToken, token.userinfo, None}, Found(c)
        PROVE  LoginInv'
    BY <1>3, <1>4, <1>5, <1>6 DEF Found
  <1>. QED
    BY <1>3, <1>6 DEF ExtractAsnClaim, FetchUserinfo

(* The one step that binds an ASN.                                         *)
LEMMA CompareKeeps ==
  ASSUME LoginInv, Compare
  PROVE  LoginInv'
  <1>. USE ExternalLoginAssumption
  <1>. DEFINE asn == NormalizeClaimAsn(claim)
  <1>1. pc = "compare" /\ current \in Flows /\ UNCHANGED <<flow, asked, pending, cache, provider, observed>>
    BY WorksOn DEF Compare
  <1>2. faults' \in 0..MaxFaults /\ troubled' \subseteq Flows /\ (cache' = None \/ cache' \subseteq Keys)
    BY <1>1, FaultTypes DEF Compare, LoginInv, TypeOK
  <1>3. asn \in ASNs \cup {None}
    BY <1>1 DEF LoginInv, TypeOK, ClaimInv, NormalizeClaimAsn
  <1>4. CASE Respond("failed") /\ UNCHANGED bound
    BY <1>1, <1>2, <1>4, FailureKeeps
  <1>5. ASSUME NEW p \in {"ok", "error"}, asn # None, asked[current] \in {None, asn},
               bound' = [bound EXCEPT ![current] = asn], Respond(p)
        PROVE  LoginInv'
    <2>1. /\ bound' \in [Flows -> ASNs \cup {None}] /\ bound'[current] = asn
          /\ \A f \in Flows \ {current} : bound'[f] = bound[f]
      BY <1>1, <1>3, <1>5 DEF LoginInv, TypeOK
    <2>2. /\ page' \in [Flows -> {"none", "ok", "failed", "rejected", "error"}]
          /\ page'[current] = p /\ \A f \in Flows \ {current} : page'[f] = page[f]
      BY <1>1, <1>5 DEF Respond, LoginInv, TypeOK
    <2>3. /\ pc' = "idle" /\ current' = None /\ current' \notin Flows /\ doc' \subseteq Keys /\ shared' = FALSE
          /\ forced' = FALSE /\ claim' = None /\ token'.key = None
          /\ token' \in [key : Keys \cup {None}, idToken : Texts \cup {None}, userinfo : Texts \cup {None}]
      BY <1>5 DEF Respond, NoKeys, NoToken
    <2>4. TypeOK'
      BY <1>1, <1>2, <2>1, <2>2, <2>3 DEF provider, observed, LoginInv, TypeOK
    <2>5. ClaimInv'
      BY <2>3 DEF ClaimInv
    <2>6. \A i \in 1..Len(pending) : pending[i] \in Flows \ {current}
      BY DEF LoginInv, TypeOK, PendingInv
    <2>7. flow[current] = "started"
      BY <1>1, WorksOn
    <2>. HIDE DEF asn
    <2>8. PendingInv'
      BY <1>1, <2>1, <2>2, <2>3, <2>6, <2>7 DEF LoginInv, PendingInv, Untouched
    <2>9. Ranked' /\ LinkLives' /\ PageIsTrue'
      BY <1>1, <1>3, <1>5, <2>1, <2>2 DEF observed, LoginInv, Ranked, LinkLives, PageIsTrue
    <2>. QED
      BY <2>4, <2>5, <2>8, <2>9 DEF LoginInv
  <1>. QED
    BY <1>4, <1>5 DEF Compare

-----------------------------------------------------------------------------
(* The rest of the world.                                                  *)

LEMMA ExpireMetadataKeeps ==
  ASSUME LoginInv, ExpireMetadata
  PROVE  LoginInv'
  <1>1. /\ cache' = None /\ shared' = FALSE
        /\ UNCHANGED <<flow, asked, pending, provider, pc, current, doc, forced, token, claim, bound, page,
                      faults, troubled, observed>>
    BY DEF ExpireMetadata
  <1>2. TypeOK'
    BY <1>1 DEF provider, observed, LoginInv, TypeOK
  <1>3. ClaimInv'
    BY <1>1 DEF LoginInv, ClaimInv
  <1>. QED
    BY <1>1, <1>2, <1>3, WorkKeeps

LEMMA ExpirePendingKeeps ==
  ASSUME LoginInv, ExpirePending
  PROVE  LoginInv'
  <1>1. pending \in Seq(Flows) /\ pending # <<>> /\ Len(pending) <= MaxPending
    BY DEF ExpirePending, LoginInv, TypeOK
  <1>2. /\ pending' \in Seq(Flows) /\ Len(pending') = Len(pending) - 1
        /\ \A k \in 1..(Len(pending) - 1) : pending'[k] = pending[k + 1]
    BY <1>1, TailRemains DEF ExpirePending
  <1>3. UNCHANGED <<callback, provider, flow, asked, cache, bound, page, faults, troubled, later>>
    BY DEF ExpirePending
  <1>8. Head(pending) = pending[1] /\ 1 \in 1..Len(pending) /\ expired' = expired \cup {pending[1]}
    BY <1>1 DEF ExpirePending
  <1>4. TypeOK'
    BY <1>1, <1>2, <1>3, <1>8, ExternalLoginAssumption DEF callback, provider, LoginInv, TypeOK
  <1>5. ClaimInv' /\ PageIsTrue'
    BY <1>3 DEF callback, LoginInv, ClaimInv, PageIsTrue
  <1>6. \A k \in 1..Len(pending') : k + 1 \in 1..Len(pending) /\ pending'[k] = pending[k + 1]
    BY <1>1, <1>2
  <1>7. PendingInv'
    <2>1. ASSUME NEW i \in 1..Len(pending'), NEW k \in 1..Len(pending'), pending'[i] = pending'[k]
          PROVE  i = k
      <3>1. pending[i + 1] = pending[k + 1]
        BY <1>6, <2>1
      <3>2. i + 1 = k + 1
        BY <1>6, <3>1 DEF LoginInv, PendingInv
      <3>. QED
        BY <1>1, <1>2, <3>2
    <2>. QED
      BY <1>3, <1>6, <2>1 DEF callback, LoginInv, PendingInv, Untouched
  <1>9. Ranked'
    <2>1. ASSUME NEW k \in 1..Len(pending')
          PROVE  later[pending'[k]] >= Len(pending') - k
      <3>1. later[pending[k + 1]] >= Len(pending) - (k + 1) /\ later[pending[k + 1]] \in Nat
        BY <1>1, <1>6 DEF LoginInv, Ranked, TypeOK
      <3>. QED
        BY <1>1, <1>2, <1>6, <3>1
    <2>. QED
      BY <1>3, <2>1 DEF Ranked
  <1>10. LinkLives'
    <2>. SUFFICES ASSUME NEW g \in Flows, flow'[g] = "started", page'[g] = "none", g # current',
                         g \notin expired', ~(later'[g] >= MaxPending)
                  PROVE  \E i \in DOMAIN pending' : pending'[i] = g
      BY DEF LinkLives
    <2>1. DOMAIN pending' = 1..Len(pending') /\ DOMAIN pending = 1..Len(pending)
      BY <1>1, <1>2
    <2>2. PICK m \in 1..Len(pending) : pending[m] = g
      BY <1>3, <1>8, <2>1 DEF callback, LoginInv, LinkLives
    <2>3. m # 1
      BY <1>8, <2>2
    <2>4. m - 1 \in 1..Len(pending') /\ pending'[m - 1] = g
      BY <1>1, <1>2, <2>2, <2>3
    <2>. QED
      BY <2>1, <2>4
  <1>. QED
    BY <1>4, <1>5, <1>7, <1>9, <1>10 DEF LoginInv

LEMMA RotateKeeps ==
  ASSUME LoginInv, NEW k \in Keys, NEW old \in SUBSET Keys, Rotate(k, old)
  PROVE  LoginInv'
  <1>1. UNCHANGED <<callback, flow, asked, pending, cache, bound, page, faults, observed>>
    BY DEF Rotate
  <1>2. rotations' \in 0..MaxRotations
    BY ExternalLoginAssumption DEF Rotate, LoginInv, TypeOK
  <1>3. signing' \in published' /\ published' \subseteq Keys
    BY DEF Rotate
  <1>4. token.key # None => current \in Flows
    <2>1. CASE pc = "idle"
      BY <2>1 DEF LoginInv, ClaimInv
    <2>2. CASE pc # "idle"
      BY <2>2, WorksOn
    <2>. QED
      BY <2>1, <2>2
  <1>5. troubled' \subseteq Flows
    BY <1>4 DEF Rotate, LoginInv, TypeOK
  <1>6. TypeOK'
    BY <1>1, <1>2, <1>3, <1>5 DEF callback, observed, LoginInv, TypeOK
  <1>7. ClaimInv'
    BY <1>1 DEF callback, LoginInv, ClaimInv
  <1>. QED
    BY <1>1, <1>6, <1>7, WorkKeeps DEF callback

-----------------------------------------------------------------------------
LEMMA StepKeeps == LoginInv /\ [Next]_vars => LoginInv'
  <1>. SUFFICES ASSUME LoginInv, [Next]_vars PROVE LoginInv'
    OBVIOUS
  <1>1. CASE UNCHANGED vars
    BY <1>1 DEF vars, LoginInv, TypeOK, ClaimInv, PendingInv, Untouched, Ranked, LinkLives, PageIsTrue
  <1>2. CASE Next
    BY <1>2, DiscoverKeeps, ReadDocumentKeeps, FetchDocumentKeeps, StoreKeeps, CallbackStepKeeps,
       MetadataKeeps, ReadMetadataKeeps, FetchMetadataKeeps, FetchTokenKeeps, FetchJwkSetKeeps, ParseIdTokenKeeps,
       ExtractAsnClaimKeeps, CompareKeeps, ExpireMetadataKeeps, ExpirePendingKeeps, RotateKeeps DEF Next
  <1>. QED
    BY <1>1, <1>2

(* A login that is over, or has not begun, is not touched by any step.     *)
LEMMA StepTouchesOnce == LoginInv /\ [Next]_vars => \A f \in Flows : Once(f)
  <1>. SUFFICES ASSUME LoginInv, [Next]_vars, NEW f \in Flows, page[f] # "none" \/ flow[f] # "started"
                PROVE  page'[f] = page[f] /\ bound'[f] = bound[f]
    BY DEF Once
  <1>1. f # current
    BY DEF LoginInv, PendingInv, Untouched
  <1>2. \A i \in 1..Len(pending) : pending[i] # f
    BY DEF LoginInv, PendingInv, Untouched
  <1>3. page \in [Flows -> {"none", "ok", "failed", "rejected", "error"}] /\ bound \in [Flows -> ASNs \cup {None}]
    BY DEF LoginInv, TypeOK
  <1>4. ASSUME NEW p, Respond(p) PROVE page'[f] = page[f]
    BY <1>1, <1>3, <1>4 DEF Respond
  <1>5. ASSUME NEW i \in DOMAIN pending, NEW code \in BOOLEAN, Callback(i, code)
        PROVE  page'[f] = page[f] /\ bound'[f] = bound[f]
    <2>1. i \in 1..Len(pending)
      BY DEF LoginInv, TypeOK
    <2>. QED
      BY <1>2, <1>3, <1>5, <2>1 DEF Callback
  <1>6. CASE Compare
    BY <1>1, <1>3, <1>4, <1>6 DEF Compare
  <1>7. CASE Metadata \/ ReadMetadata \/ FetchMetadata \/ FetchJwkSet \/ ParseIdToken
    BY <1>4, <1>7 DEF Metadata, ReadMetadata, FetchMetadata, FetchJwkSet, ParseIdToken, Goto
  <1>8. CASE ExtractAsnClaim
    BY <1>4, <1>8 DEF ExtractAsnClaim, FetchUserinfo, Found, Goto
  <1>9. ASSUME NEW k, NEW i, NEW u, FetchToken(k, i, u)
        PROVE  page'[f] = page[f] /\ bound'[f] = bound[f]
    BY <1>4, <1>9 DEF FetchToken, Goto
  <1>10. CASE \/ ExpireMetadata \/ ExpirePending \/ UNCHANGED vars
              \/ \E k \in Keys, old \in SUBSET Keys : Rotate(k, old)
              \/ \E g \in Flows : \/ ReadDocument(g) \/ FetchDocument(g) \/ Store(g)
                                  \/ \E asn \in ASNs \cup {None} : Discover(g, asn)
    BY <1>10 DEF ExpireMetadata, ExpirePending, Rotate, ReadDocument, FetchDocument, Store, Discover, vars
  <1>. QED
    BY <1>5, <1>6, <1>7, <1>8, <1>9, <1>10 DEF Next

(* LoginInv is an invariant; it is inductive.                              *)
THEOREM ExternalLoginInvariant == Spec => []LoginInv
  BY InitInv, StepKeeps, PTL DEF Spec

(* Type correctness of a login through an external account.                *)
THEOREM ExternalTypesHold == Spec => []TypeOK
  <1>1. LoginInv => TypeOK
    BY DEF LoginInv
  <1>. QED
    BY <1>1, ExternalLoginInvariant, PTL

(* A login whose link was sent can be finished until its time is up or as  *)
(* many logins as the table holds have come after it: the table is read    *)
(* and written by several threads, and no other login's callback, expiry or*)
(* failure takes it out.                                                   *)
THEOREM LinksLive == Spec => []LinkLives
  <1>1. LoginInv => LinkLives
    BY DEF LoginInv
  <1>. QED
    BY <1>1, ExternalLoginInvariant, PTL

(* The page of the callback says what became of the login.                 *)
THEOREM PageIsAlwaysTrue == Spec => []PageIsTrue
  <1>1. LoginInv => PageIsTrue
    BY DEF LoginInv
  <1>. QED
    BY <1>1, ExternalLoginInvariant, PTL

(* A callback that comes again, late or after its login was dropped does   *)
(* nothing.                                                                *)
THEOREM LoginFinishesOnce == Spec => FinishedOnce
  <1>1. LoginInv /\ [Next]_vars =>
          [\A f \in Flows : page[f] # "none" \/ flow[f] # "started" =>
             page'[f] = page[f] /\ bound'[f] = bound[f]]_vars
    BY StepTouchesOnce DEF Once
  <1>. QED
    BY <1>1, ExternalLoginInvariant, PTL DEF Spec, FinishedOnce

-----------------------------------------------------------------------------
(* FailsForAReason: the key the provider signed with is one it still       *)
(* publishes, unless the login is troubled, so a key set fetched for the   *)
(* second time has it; and what is compared is what the source says.       *)
ReasonInv ==
  /\ pc \in {"idle", "metadata", "read", "fetch", "token"} => ~forced
  /\ pc = "key" => token.key # None
  /\ pc = "key" /\ current \notin troubled =>
       token.key \in published /\ (forced => token.key \in doc)
  /\ pc = "compare" => claim = Said(token)

(* A step of the callback that does not fail keeps the reasons for it to.  *)
LEMMA ReasonStep == LoginInv /\ ReasonInv /\ [Next]_vars => ReasonInv'
  <1>. SUFFICES ASSUME LoginInv, ReasonInv, [Next]_vars
                PROVE  ReasonInv'
    OBVIOUS
  <1>1. ASSUME NEW p, Respond(p) PROVE ReasonInv'
    BY <1>1 DEF Respond, ReasonInv
  <1>2. CASE \E f \in Flows : \/ ReadDocument(f) \/ FetchDocument(f) \/ Store(f)
                              \/ \E asn \in ASNs \cup {None} : Discover(f, asn)
    <2>1. /\ UNCHANGED <<pc, current, doc, forced, token, claim, provider>>
          /\ (current \in Flows => troubled \subseteq troubled')
      BY <1>2 DEF ReadDocument, FetchDocument, Store, Discover, callback, NoFault, Fault
    <2>. QED
      BY <2>1, WorksOn DEF provider, ReasonInv, Said, LoginInv, TypeOK
  <1>3. CASE \E i \in DOMAIN pending, code \in BOOLEAN : Callback(i, code)
    BY <1>3 DEF Callback, ReasonInv
  <1>4. CASE Metadata
    BY <1>4 DEF Metadata, Goto, ReasonInv
  <1>14. CASE ReadMetadata \/ FetchMetadata
    BY <1>1, <1>14 DEF ReadMetadata, FetchMetadata, Goto, ReasonInv
  <1>5. CASE \E k \in Keys \cup {None}, i, u \in Texts \cup {None} : FetchToken(k, i, u)
    <2>1. PICK k \in Keys \cup {None}, i \in Texts \cup {None}, u \in Texts \cup {None} : FetchToken(k, i, u)
      BY <1>5
    <2>2. CASE Respond("failed")
      BY <1>1, <2>2
    <2>3. CASE /\ k \in {signing, None}
               /\ token' = [key |-> k, idToken |-> i, userinfo |-> u]
               /\ Goto(IF Source = "userinfo" \/ k = None THEN "claim" ELSE "key")
               /\ UNCHANGED <<doc, shared, forced, claim>>
      <3>1. token'.key = k /\ published' = published /\ ~forced' /\ pc' \in {"claim", "key"}
            /\ (pc' = "key" => k # None)
        BY <2>1, <2>3 DEF FetchToken, Goto, provider, ReasonInv
      <3>2. signing \in published
        BY DEF LoginInv, TypeOK
      <3>. QED
        BY <2>3, <3>1, <3>2 DEF ReasonInv
    <2>. QED
      BY <2>1, <2>2, <2>3 DEF FetchToken
  <1>6. CASE FetchJwkSet
    <2>1. CASE Respond("failed")
      BY <1>1, <2>1
    <2>2. CASE /\ doc' = published /\ NoFault
               /\ UNCHANGED <<pc, current, page, shared, token, claim>>
      BY <1>6, <2>2 DEF FetchJwkSet, NoFault, provider, ReasonInv
    <2>. QED
      BY <1>6, <2>1, <2>2 DEF FetchJwkSet
  <1>7. CASE ParseIdToken
    BY <1>1, <1>7 DEF ParseIdToken, Goto, ReasonInv
  <1>8. CASE ExtractAsnClaim
    <2>1. CASE Respond("failed")
      BY <1>1, <2>1
    <2>2. ASSUME NEW c, Found(c), c = Said(token)
          PROVE  ReasonInv'
      <3>1. CASE claim' = c /\ Goto("compare") /\ UNCHANGED <<doc, shared, forced, token>>
        BY <2>2, <3>1 DEF Goto, ReasonInv, Said
      <3>. QED
        BY <1>1, <2>2, <3>1 DEF Found
    <2>. QED
      BY <1>8, <2>1, <2>2 DEF ExtractAsnClaim, FetchUserinfo, Said
  <1>9. CASE Compare
    BY <1>1, <1>9 DEF Compare
  <1>10. CASE ExpireMetadata
    BY <1>10 DEF ExpireMetadata, provider, ReasonInv, Said
  <1>11. CASE ExpirePending
    BY <1>11 DEF ExpirePending, callback, provider, ReasonInv, Said
  <1>12. CASE \E k \in Keys, old \in SUBSET Keys : Rotate(k, old)
    <2>1. UNCHANGED callback /\ troubled \subseteq troubled'
          /\ (token.key # None /\ token.key \notin published' => current \in troubled')
      BY <1>12 DEF Rotate
    <2>. QED
      BY <2>1 DEF callback, ReasonInv, Said
  <1>13. CASE UNCHANGED vars
    BY <1>13 DEF vars, ReasonInv, Said
  <1>. QED
    BY <1>2, <1>3, <1>4, <1>5, <1>6, <1>7, <1>8, <1>9, <1>10, <1>11, <1>12, <1>13, <1>14
    DEF Next

(* Only the callback in work is answered, and a failure that is not the    *)
(* provider's is one of the four.                                          *)
LEMMA FailureHasReason ==
  ASSUME LoginInv, ReasonInv, Next, NEW f \in Flows, page[f] = "none", page'[f] = "failed",
         f \notin troubled'
  PROVE  \/ pc = "claim" /\ Said(token) = None
         \/ pc = "compare" /\ (\/ Reads[Said(token)] = None
                              \/ asked[f] \notin {None, Reads[Said(token)]})
         \/ pc = "read" /\ cache = None
  <1>1. page \in [Flows -> {"none", "ok", "failed", "rejected", "error"}]
    BY DEF LoginInv, TypeOK
  <1>2. ASSUME Respond("failed") PROVE f = current
    BY <1>1, <1>2 DEF Respond
  <1>3. ~(Respond("failed") /\ Fault(current))
    BY <1>2 DEF Fault
  <1>4. CASE ParseIdToken
    <2>1. Respond("failed") /\ pc = "key" /\ token.key \notin doc /\ forced /\ troubled' = troubled
      BY <1>4 DEF ParseIdToken, NeedsFetch, Goto
    <2>. QED
      BY <1>2, <2>1 DEF ReasonInv
  <1>5. CASE ExtractAsnClaim
    <2>1. ASSUME NEW c, Found(c) PROVE c = None
      BY <2>1 DEF Found, Goto
    <2>. QED
      BY <1>3, <1>5, <2>1 DEF ExtractAsnClaim, FetchUserinfo, Said
  <1>6. CASE Compare
    <2>1. pc = "compare" /\ claim = Said(token)
      BY <1>6 DEF Compare, ReasonInv
    <2>2. ~Respond("ok") /\ ~Respond("error")
      BY <1>1 DEF Respond
    <2>3. Respond("failed")
      BY <1>6, <2>2 DEF Compare
    <2>4. Reads[claim] = None \/ asked[current] \notin {None, Reads[claim]}
      BY <1>6, <2>2 DEF Compare, NormalizeClaimAsn
    <2>. QED
      BY <1>2, <2>1, <2>3, <2>4
  <1>7. ~(\E g \in Flows : \/ ReadDocument(g) \/ FetchDocument(g) \/ Store(g)
                           \/ \E asn \in ASNs \cup {None} : Discover(g, asn))
    BY DEF ReadDocument, FetchDocument, Store, Discover
  <1>8. ~(\E i \in DOMAIN pending, code \in BOOLEAN : Callback(i, code))
    BY <1>1 DEF Callback
  <1>9. ~Metadata /\ ~FetchMetadata /\ ~FetchJwkSet
    BY <1>3 DEF Metadata, FetchMetadata, FetchJwkSet, Goto
  <1>12. CASE ReadMetadata
    BY <1>12 DEF ReadMetadata, Goto
  <1>10. ~(\E k \in Keys \cup {None}, i, u \in Texts \cup {None} : FetchToken(k, i, u))
    BY <1>3 DEF FetchToken, Goto
  <1>11. ~ExpireMetadata /\ ~ExpirePending /\ ~(\E k \in Keys, old \in SUBSET Keys : Rotate(k, old))
    BY DEF ExpireMetadata, ExpirePending, Rotate
  <1>. QED
    BY <1>4, <1>5, <1>6, <1>7, <1>8, <1>9, <1>10, <1>11, <1>12 DEF Next

(* A callback fails because of what the provider says or does, or because  *)
(* its document expires between the two looks at the cache; never because  *)
(* a cache held keys of before a rotation (load_key) or was emptied or     *)
(* replaced at any other moment.                                           *)
THEOREM FailuresHaveReasons == Spec => FailsForAReason
  <1>1. Init => ReasonInv
    BY DEF Init, ReasonInv
  <1>2. LoginInv /\ ReasonInv /\ [Next]_vars =>
          [\A f \in Flows : page[f] = "none" /\ page'[f] = "failed" /\ f \notin troubled' =>
             \/ pc = "claim" /\ Said(token) = None
             \/ pc = "compare" /\ (\/ Reads[Said(token)] = None
                                  \/ asked[f] \notin {None, Reads[Said(token)]})
             \/ pc = "read" /\ cache = None]_vars
    BY FailureHasReason
  <1>. QED
    BY <1>1, <1>2, ReasonStep, ExternalLoginInvariant, PTL DEF Spec, FailsForAReason
=============================================================================
