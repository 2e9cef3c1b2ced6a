--------------------------- MODULE ExternalLogin ---------------------------
(***************************************************************************)
(* The external login by OIDC (server/auth/oidc.py).  start_login, in a    *)
(* worker thread, and finish_login, in the event loop of the web server,   *)
(* share three caches: the pending logins, the discovery documents and,    *)
(* inside these, the providers' key sets.  UserLogin models what a login   *)
(* does to the user table; here it is one action.                          *)
(*                                                                         *)
(* One provider is modelled.  It rotates its signing keys, and its servers *)
(* may fail.  A claim is a text; which ASN it stands for is a constant.    *)
(***************************************************************************)
EXTENDS Naturals, Sequences, FiniteSets, SequencesExt

CONSTANTS
  Flows,         \* bound of the model: the logins of a behaviour
  ASNs, Texts,
  Reads,         \* [Texts -> ASNs \cup {None}], the registered ASN a text stands for
  Account,       \* [Flows -> ASNs], the ASN of whoever logs in at the provider
  Source,        \* asn_claim_source
  HasUserinfo,   \* the provider has a userinfo endpoint
  MaxPending,    \* max_len of the pending logins
  Keys,
  MaxRotations, MaxFaults,   \* bounds of the model
  None

ASSUME ExternalLoginAssumption ==
  /\ None \notin ASNs \cup Texts \cup Flows \cup Keys
  /\ Reads \in [Texts -> ASNs \cup {None}]
  /\ Account \in [Flows -> ASNs]
  /\ Source \in {"id_token", "userinfo", "auto"} /\ HasUserinfo \in BOOLEAN
  /\ MaxPending \in Nat \ {0} /\ MaxRotations \in Nat /\ MaxFaults \in Nat

VARIABLES
  flow,       \* [Flows -> where start_login is: "free" before it, "started" or "refused" after it]
  asked,      \* [Flows -> the ASN the user entered before, or None]
  pending,    \* _PENDING_LOGINS, the oldest first
  cache,      \* the provider's entry in _DISCOVERY_CACHE: its jwks, NoKeys or None
  signing, published,   \* the provider's keys
  pc,         \* where finish_login is, or "idle"
  current,    \* the flow it works on
  doc,        \* the jwks in its metadata
  shared,     \* its metadata is the object in the cache
  forced,     \* load_key has fetched the key set again
  token,      \* what fetch_token returned
  claim,      \* what _extract_asn_claim found
  bound,      \* [Flows -> the ASN finish_external_oidc_login persisted, or None]
  page,       \* [Flows -> the page the browser got]
  rotations, faults,
  troubled,   \* (observed) flows whose callback met a failure of the provider or of Telegram
  expired,    \* (observed) flows whose pending login got too old
  later       \* (observed) [Flows -> how many logins have been stored after it]

callback == <<pc, current, doc, shared, forced, token, claim>>
provider == <<signing, published, rotations>>
observed == <<expired, later>>
vars == <<flow, asked, pending, cache, signing, published, pc, current, doc, shared, forced, token,
          claim, bound, page, rotations, faults, troubled, expired, later>>

NoKeys == {}
NoToken == [key |-> None, idToken |-> None, userinfo |-> None]

(* An answer of the provider that is missing, an error or late.            *)
Fault(f) ==
  /\ faults < MaxFaults
  /\ faults' = faults + 1
  /\ troubled' = troubled \cup {f}

NoFault == UNCHANGED <<faults, troubled>>

-----------------------------------------------------------------------------
(* start_login.  _get_provider_metadata asks whether the document is in the*)
(* cache and then takes it from there, in two operations, or fetches a     *)
(* fresh one, which comes without keys and replaces what is in the cache   *)
(* by then.                                                                *)

Discover(f, asn) ==
  /\ flow[f] = "free"
  /\ asked' = [asked EXCEPT ![f] = asn]
  /\ flow' = [flow EXCEPT ![f] = IF cache = None THEN "fetching" ELSE "reading"]
  /\ UNCHANGED <<callback, provider, pending, cache, bound, page, faults, troubled, observed>>

(* The KeyError of a document that has expired in between ends the thread. *)
ReadDocument(f) ==
  /\ flow[f] = "reading"
  /\ flow' = [flow EXCEPT ![f] = IF cache = None THEN "refused" ELSE "starting"]
  /\ UNCHANGED <<callback, provider, asked, pending, cache, bound, page, faults, troubled, observed>>

FetchDocument(f) ==
  /\ flow[f] = "fetching"
  /\ \/ /\ flow' = [flow EXCEPT ![f] = "starting"]
        /\ cache' = NoKeys
        /\ shared' = FALSE
        /\ NoFault
     \/ /\ Fault(f)
        /\ flow' = [flow EXCEPT ![f] = "refused"]
        /\ UNCHANGED <<cache, shared>>
  /\ UNCHANGED <<pc, current, doc, forced, token, claim, provider, asked, pending, bound, page, observed>>

StoreAll(f) ==   \* mutation: a table without a limit
  /\ flow[f] = "starting"
  /\ flow' = [flow EXCEPT ![f] = "started"]
  /\ pending' = Append(pending, f)
  /\ later' = [g \in Flows |-> IF flow[g] = "started" THEN later[g] + 1 ELSE later[g]]
  /\ UNCHANGED <<callback, provider, asked, cache, bound, page, faults, troubled, expired>>

StoreUnlessFull(f) ==   \* mutation: a full table takes no login, and the link is sent
  /\ flow[f] = "starting"
  /\ flow' = [flow EXCEPT ![f] = "started"]
  /\ pending' = IF Len(pending) = MaxPending THEN pending ELSE Append(pending, f)
  /\ later' = [g \in Flows |-> IF flow[g] = "started" THEN later[g] + 1 ELSE later[g]]
  /\ UNCHANGED <<callback, provider, asked, cache, bound, page, faults, troubled, expired>>

(* _store_pending_login: the ExpiringDict drops its oldest entry when it is*)
(* full.                                                                   *)
Store(f) ==
  /\ flow[f] = "starting"
  /\ flow' = [flow EXCEPT ![f] = "started"]
  /\ pending' = Append(IF Len(pending) = MaxPending THEN Tail(pending) ELSE pending, f)
  /\ later' = [g \in Flows |-> IF flow[g] = "started" THEN later[g] + 1 ELSE later[g]]
  /\ UNCHANGED <<callback, provider, asked, cache, bound, page, faults, troubled, expired>>

-----------------------------------------------------------------------------
(* finish_login.                                                           *)

(* The callback is over; whoever is known to have begun is told as well.   *)
Respond(p) ==
  /\ page' = [page EXCEPT ![current] = p]
  /\ pc' = "idle"
  /\ current' = None
  /\ doc' = NoKeys /\ shared' = FALSE /\ forced' = FALSE /\ token' = NoToken /\ claim' = None

Goto(place) == pc' = place /\ UNCHANGED <<current, page>>

CallbackKeeps(i, code) ==   \* mutation: the login is looked up and not taken
  /\ pc = "idle"
  /\ i \in DOMAIN pending
  /\ IF code
     THEN pc' = "metadata" /\ current' = pending[i] /\ UNCHANGED page
     ELSE page' = [page EXCEPT ![pending[i]] = "rejected"] /\ UNCHANGED <<pc, current>>
  /\ UNCHANGED <<flow, asked, pending, cache, provider, doc, shared, forced, token, claim, bound, faults,
                 troubled, observed>>

(* _pop_pending_login takes the login, whatever becomes of it.  A callback *)
(* with an error or without a code ends here, one of a login that is not   *)
(* pending changes nothing.                                                *)
Callback(i, code) ==
  /\ pc = "idle"
  /\ i \in DOMAIN pending
  /\ pending' = RemoveAt(pending, i)
  /\ IF code
     THEN pc' = "metadata" /\ current' = pending[i] /\ UNCHANGED page
     ELSE page' = [page EXCEPT ![pending[i]] = "rejected"] /\ UNCHANGED <<pc, current>>
  /\ UNCHANGED <<flow, asked, cache, provider, doc, shared, forced, token, claim, bound, faults,
                 troubled, observed>>

Metadata ==
  /\ pc = "metadata"
  /\ Goto(IF cache = None THEN "fetch" ELSE "read")
  /\ UNCHANGED <<flow, asked, pending, cache, provider, doc, shared, forced, token, claim, bound, faults,
                 troubled, observed>>

(* The object of the cache is used, not a copy.  A KeyError is an          *)
(* "unexpected error" of the login.                                        *)
ReadMetadata ==
  /\ pc = "read"
  /\ IF cache = None
     THEN Respond("failed")
     ELSE doc' = cache /\ shared' = TRUE /\ Goto("token") /\ UNCHANGED <<forced, token, claim>>
  /\ UNCHANGED <<flow, asked, pending, cache, provider, bound, faults, troubled, observed>>

FetchMetadata ==
  /\ pc = "fetch"
  /\ \/ /\ cache' = NoKeys
        /\ doc' = NoKeys
        /\ shared' = TRUE
        /\ Goto("token") /\ NoFault /\ UNCHANGED <<forced, token, claim>>
     \/ Fault(current) /\ Respond("failed") /\ UNCHANGED cache
  /\ UNCHANGED <<flow, asked, pending, provider, bound, observed>>

(* Texts that stand for the account, and texts that are no ASN.            *)
Claims(f) == {t \in Texts : Reads[t] \in {Account[f], None}} \cup {None}

(* The provider signs with the key of this moment, unless it sends no ID   *)
(* token.  It may put the claim into the ID token, into the answer of      *)
(* userinfo, into both or neither.                                         *)
FetchToken(key, idToken, userinfo) ==
  /\ pc = "token"
  /\ \/ /\ idToken \in Claims(current) /\ userinfo \in Claims(current)
        /\ key \in {signing, None} /\ (key = None => idToken = None)
        /\ token' = [key |-> key, idToken |-> idToken, userinfo |-> userinfo]
        /\ Goto(IF Source = "userinfo" \/ key = None THEN "claim" ELSE "key")
        /\ NoFault /\ UNCHANGED <<doc, shared, forced, claim>>
     \/ Fault(current) /\ Respond("failed")
  /\ UNCHANGED <<flow, asked, pending, cache, provider, bound, observed>>

NeedsFirstFetch == doc = NoKeys   \* mutation: a key set is never fetched again

(* load_key of _create_jwk_load_key: a key set without the key is fetched  *)
(* once more.                                                              *)
NeedsFetch == doc = NoKeys \/ (token.key \notin doc /\ ~forced)

FetchJwkSet ==
  /\ pc = "key" /\ NeedsFetch
  /\ \/ /\ doc' = published
        /\ cache' = IF shared THEN published ELSE cache
        /\ forced' = (doc # NoKeys)
        /\ NoFault /\ UNCHANGED <<pc, current, page, shared, token, claim>>
     \/ Fault(current) /\ Respond("failed") /\ UNCHANGED cache
  /\ UNCHANGED <<flow, asked, pending, provider, bound, observed>>

ParseIdToken ==
  /\ pc = "key" /\ ~NeedsFetch
  /\ IF token.key \in doc
     THEN Goto("claim") /\ UNCHANGED <<doc, shared, forced, token, claim>>
     ELSE Respond("failed")
  /\ UNCHANGED <<flow, asked, pending, cache, provider, bound, faults, troubled, observed>>

(* _lookup_claim found c, or nothing.                                      *)
Found(c) ==
  /\ NoFault
  /\ IF c = None
     THEN Respond("failed")
     ELSE claim' = c /\ Goto("compare") /\ UNCHANGED <<doc, shared, forced, token>>

(* _fetch_userinfo; a provider without the endpoint says nothing.          *)
FetchUserinfo ==
  \/ Found(IF HasUserinfo THEN token.userinfo ELSE None)
  \/ HasUserinfo /\ Fault(current) /\ Respond("failed")

ExtractAsnClaim ==
  /\ pc = "claim"
  /\ IF Source = "id_token" \/ (Source = "auto" /\ token.idToken # None)
     THEN Found(token.idToken)
     ELSE FetchUserinfo
  /\ UNCHANGED <<flow, asked, pending, cache, provider, bound, observed>>

(* _normalize_claim_asn: the registered ASN that a text or a number, or the*)
(* "asn" inside an object, stands for.                                     *)
NormalizeClaimAsn(c) == Reads[c]

CompareFails ==   \* mutation: an exception of the last step is a failed login
  /\ pc = "compare"
  /\ LET asn == NormalizeClaimAsn(claim) IN
     IF asn = None \/ asked[current] \notin {None, asn}
     THEN Respond("failed") /\ NoFault /\ UNCHANGED bound
     ELSE /\ bound' = [bound EXCEPT ![current] = asn]
          /\ \/ Respond("ok") /\ NoFault
             \/ Fault(current) /\ Respond("failed")
  /\ UNCHANGED <<flow, asked, pending, cache, provider, observed>>

(* The comparison with the ASN entered before, and                         *)
(* finish_external_oidc_login, whose message to the chat may fail after the*)
(* login has been persisted.                                               *)
Compare ==
  /\ pc = "compare"
  /\ LET asn == NormalizeClaimAsn(claim) IN
     IF asn = None \/ asked[current] \notin {None, asn}
     THEN Respond("failed") /\ NoFault /\ UNCHANGED bound
     ELSE /\ bound' = [bound EXCEPT ![current] = asn]
          /\ \/ Respond("ok") /\ NoFault
             \/ Fault(current) /\ Respond("error")
  /\ UNCHANGED <<flow, asked, pending, cache, provider, observed>>

-----------------------------------------------------------------------------
(* The rest of the world.                                                  *)

(* The entry of the cache is an hour old.                                  *)
ExpireMetadata ==
  /\ cache # None
  /\ cache' = None
  /\ shared' = FALSE
  /\ UNCHANGED <<flow, asked, pending, provider, pc, current, doc, forced, token, claim, bound, page,
                 faults, troubled, observed>>

(* A pending login is older than pending_ttl.                              *)
ExpirePending ==
  /\ pending # <<>>
  /\ pending' = Tail(pending)
  /\ expired' = expired \cup {Head(pending)}
  /\ UNCHANGED <<callback, provider, flow, asked, cache, bound, page, faults, troubled, later>>

(* The provider signs with a new key from now on and may withdraw old ones.*)
Rotate(k, old) ==
  /\ rotations < MaxRotations
  /\ rotations' = rotations + 1
  /\ k \notin published /\ old \subseteq published
  /\ signing' = k
  /\ published' = old \cup {k}
  /\ troubled' = IF token.key # None /\ token.key \notin published' THEN troubled \cup {current}
                 ELSE troubled
  /\ UNCHANGED <<callback, flow, asked, pending, cache, bound, page, faults, observed>>

Init ==
  /\ flow = [f \in Flows |-> "free"]
  /\ asked = [f \in Flows |-> None]
  /\ pending = <<>>
  /\ cache = None
  /\ signing \in Keys /\ published = {signing}
  /\ pc = "idle" /\ current = None
  /\ doc = NoKeys /\ shared = FALSE /\ forced = FALSE /\ token = NoToken /\ claim = None
  /\ bound = [f \in Flows |-> None]
  /\ page = [f \in Flows |-> "none"]
  /\ rotations = 0 /\ faults = 0
  /\ troubled = {} /\ expired = {} /\ later = [f \in Flows |-> 0]

Next ==
  \/ \E f \in Flows : \/ ReadDocument(f) \/ FetchDocument(f) \/ Store(f)
                      \/ \E asn \in ASNs \cup {None} : Discover(f, asn)
  \/ \E i \in DOMAIN pending, code \in BOOLEAN : Callback(i, code)
  \/ Metadata \/ ReadMetadata \/ FetchMetadata \/ FetchJwkSet \/ ParseIdToken \/ ExtractAsnClaim \/ Compare
  \/ \E k \in Keys \cup {None}, i, u \in Texts \cup {None} : FetchToken(k, i, u)
  \/ ExpireMetadata \/ ExpirePending
  \/ \E k \in Keys, old \in SUBSET Keys : Rotate(k, old)

Spec == Init /\ [][Next]_vars

-----------------------------------------------------------------------------
(* Properties.                                                             *)

(* Types.                                                                  *)
TypeOK ==
  /\ flow \in [Flows -> {"free", "reading", "fetching", "starting", "started", "refused"}]
  /\ asked \in [Flows -> ASNs \cup {None}]
  /\ pending \in Seq(Flows) /\ Len(pending) <= MaxPending
  /\ cache = None \/ cache \subseteq Keys
  /\ signing \in published /\ published \subseteq Keys
  /\ pc \in {"idle", "metadata", "read", "fetch", "token", "key", "claim", "compare"}
  /\ current \in Flows \cup {None} /\ (pc = "idle" <=> current = None)
  /\ doc \subseteq Keys /\ shared \in BOOLEAN /\ forced \in BOOLEAN
  /\ token \in [key : Keys \cup {None}, idToken : Texts \cup {None}, userinfo : Texts \cup {None}]
  /\ claim \in Texts \cup {None}
  /\ bound \in [Flows -> ASNs \cup {None}]
  /\ page \in [Flows -> {"none", "ok", "failed", "rejected", "error"}]
  /\ rotations \in 0..MaxRotations /\ faults \in 0..MaxFaults
  /\ troubled \subseteq Flows /\ expired \subseteq Flows /\ later \in [Flows -> Nat]

(* "This link expires in ..." (login.py): a login whose link was sent can  *)
(* be finished until its time is up, whatever becomes of the others -      *)
(* unless as many logins as the table holds have come after it.            *)
LinkLives ==
  \A f \in Flows : flow[f] = "started" /\ page[f] = "none" =>
    \/ f = current \/ \E i \in DOMAIN pending : pending[i] = f
    \/ f \in expired \/ later[f] >= MaxPending

(* The page is true: successful when the login has been persisted, failed  *)
(* or rejected when it has not.                                            *)
PageIsTrue ==
  \A f \in Flows : /\ page[f] = "ok" => bound[f] # None
                   /\ page[f] \in {"failed", "rejected"} => bound[f] = None

(* What the configured source says of the account.                         *)
Said(t) ==
  CASE Source = "id_token" -> t.idToken
    [] Source = "auto" /\ t.idToken # None -> t.idToken
    [] OTHER -> IF HasUserinfo THEN t.userinfo ELSE None

(* A callback fails for a reason: the claim is missing, is no ASN or is not*)
(* the one entered, the provider failed, or the discovery document expired *)
(* just between the two looks that _get_provider_metadata takes at its     *)
(* cache.  Caches are no other reason: not a key set from before a         *)
(* rotation, a document replaced by another login's, one that expires      *)
(* before or after those two looks.                                        *)
FailsForAReason ==
  [][\A f \in Flows : page[f] = "none" /\ page'[f] = "failed" /\ f \notin troubled' =>
       \/ pc = "claim" /\ Said(token) = None
       \/ pc = "compare" /\ (\/ Reads[Said(token)] = None
                            \/ asked[f] \notin {None, Reads[Said(token)]})
       \/ pc = "read" /\ cache = None]_vars

(* A login is finished once: what its callback did is never undone or done *)
(* again, and only a login that was pending is finished.                   *)
FinishedOnce ==
  [][\A f \in Flows : page[f] # "none" \/ flow[f] # "started" =>
       page'[f] = page[f] /\ bound'[f] = bound[f]]_vars

=============================================================================
