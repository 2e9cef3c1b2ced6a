----------------------------- MODULE UserLogin -----------------------------
(***************************************************************************)
(* Who a chat is: /login with its four ways of proof, /logout, /whoami     *)
(* (server/commands/user_manage), the callback of an external login        *)
(* (server/auth/oidc.py, main.oidc_callback) and the user table db with    *)
(* db_privilege and its file data/user_db.pkl (server/base.py).            *)
(*                                                                         *)
(* telebot runs each message in a worker thread, the callback runs in the  *)
(* event loop of the web server (where it holds up the delivery of         *)
(* messages), and nothing is locked: the steps on the shared table and on  *)
(* the file are actions of their own.  A job is one command and the dialog *)
(* it begins.  Of signatures, codes and claims only matters whether they   *)
(* are the ones asked for and whether the person behind the chat has that  *)
(* ASN.                                                                    *)
(***************************************************************************)
EXTENDS Naturals, FiniteSets

CONSTANTS
  Chats, ASNs,
  Owns,            \* [Chats -> SUBSET ASNs], the ASNs the person can prove
  KnowsCode,       \* chats whose person knows config.PRIVILEGE_CODE
  SinglePrivilege, \* config.SINGLE_PRIVILEGE
  ManyProviders,   \* more than one OIDC provider is available
  Jobs,            \* bound of the model: commands of a behaviour
  Web,             \* the event loop of the web server
  MaxRestarts,     \* bound of the model
  None

ASSUME LoginAssumption ==
  /\ Owns \in [Chats -> SUBSET ASNs]
  /\ KnowsCode \subseteq Chats
  /\ SinglePrivilege \in BOOLEAN /\ ManyProviders \in BOOLEAN
  /\ MaxRestarts \in Nat
  /\ Web \notin Jobs /\ None \notin Chats \cup ASNs \cup Jobs

VARIABLES
  db, priv,  \* base.db and base.db_privilege
  disk,      \* data/user_db.pkl
  job,       \* [Jobs -> record]
  link,      \* [Jobs -> state of the OIDC login the job started]
  web,       \* the job whose callback the event loop is working on, or None
  save,      \* [Jobs \cup {Web} -> what the thread is doing to the table]
  restarts,  \* counter for the bound
  clashed,   \* (observed) two saves overlapped
  raced      \* (observed) chats whose logout met a login or a save half-way

vars == <<db, priv, disk, job, link, web, save, restarts, clashed, raced>>
table == <<db, priv, disk, save, clashed, raced>>
oidc == <<link, web>>

Threads == Jobs \cup {Web}
Commands == {"login", "logout", "whoami"}
Questions == {"asn", "method", "provider", "sigtype", "gpgkey", "sshkey", "gpg", "upload",
              "pubkey", "ssh", "email", "code"}

(* Texts a user sends that a question understands: an ASN, a choice, or the*)
(* code or signature some job asked for, which is written as that job.     *)
Answers(q) ==
  CASE q = "asn"      -> ASNs \cup {"oidc"}
    [] q = "method"   -> {"email", "signature", "oidc", "privilege"}
    [] q = "sigtype"  -> {"gpg", "ssh"}
    [] q = "email"    -> {"address", "privilege"}
    [] q \in {"gpgkey", "sshkey", "pubkey"} -> {"key"}
    [] q \in {"provider", "upload"}         -> {q}
    [] OTHER          -> Jobs

Messages == (UNION {Answers(q) : q \in Questions}) \cup {"/cancel", "other"}

NoJob == [phase |-> "free", busy |-> FALSE, chat |-> None, msg |-> "other", asn |-> None]
EmptyDb == [c \in Chats |-> None]
EmptySnap == <<EmptyDb, {}>>
NoSave == [phase |-> "none", chat |-> None, asn |-> None, admin |-> FALSE, snap |-> EmptySnap]

Busy(j) == job[j].busy
Waits(j) == job[j].phase \in Questions /\ ~job[j].busy

(* The job asks the next question, or it is over.                          *)
Ask(j, q, a) == job' = [job EXCEPT ![j] = [@ EXCEPT !.phase = q, !.busy = FALSE, !.asn = a]]
End(j) == job' = [job EXCEPT ![j] = [NoJob EXCEPT !.phase = "ended"]]

AskAgain(j) == Ask(j, job[j].phase, job[j].asn)

-----------------------------------------------------------------------------
(* Messages.  They are delivered by the event loop, so not while it works  *)
(* on a callback.                                                          *)

(* A command, when no dialog of the chat waits for a message.              *)
Command(j, c, k, a) ==
  /\ web = None
  /\ job[j].phase = "free"
  /\ \A i \in Jobs : Waits(i) => job[i].chat # c
  /\ k = "whoami" => a # None
  /\ k = "logout" => a = None
  /\ job' = [job EXCEPT ![j] = [phase |-> k, busy |-> TRUE, chat |-> c, msg |-> "other", asn |-> a]]
  /\ UNCHANGED <<table, oidc, restarts>>

(* Otherwise all dialogs that wait get it.                                 *)
Tell(c, m) ==
  /\ web = None
  /\ \E i \in Jobs : /\ Waits(i) /\ job[i].chat = c
                     /\ m \in Answers(job[i].phase) \cup {"/cancel", "other"}
  /\ job' = [i \in Jobs |-> IF Waits(i) /\ job[i].chat = c
                            THEN [job[i] EXCEPT !.busy = TRUE, !.msg = m] ELSE job[i]]
  /\ UNCHANGED <<table, oidc, restarts>>

-----------------------------------------------------------------------------
(* The table: persist_login_binding and its copies in login.py, logout.py  *)
(* and whoami.py.                                                          *)

Bind(t, c, a, admin) ==
  save' = [save EXCEPT ![t] = [NoSave EXCEPT !.phase = "set", !.chat = c, !.asn = a, !.admin = admin]]

SetAsn(t) ==
  /\ save[t].phase = "set"
  /\ db' = [db EXCEPT ![save[t].chat] = save[t].asn]
  /\ save' = [save EXCEPT ![t].phase = IF save[t].admin THEN "grant" ELSE "open"]
  /\ UNCHANGED <<priv, disk, job, oidc, restarts, clashed, raced>>

Grant(t) ==
  /\ save[t].phase = "grant"
  /\ priv' = priv \cup {save[t].chat}
  /\ save' = [save EXCEPT ![t].phase = "open"]
  /\ UNCHANGED <<db, disk, job, oidc, restarts, clashed, raced>>

(* start_logout: pop raises KeyError when another logout was faster.       *)
Pop(t) ==
  /\ save[t].phase = "pop"
  /\ LET c == save[t].chat IN
     IF db[c] = None
     THEN save' = [save EXCEPT ![t] = NoSave] /\ UNCHANGED <<db, raced>>
     ELSE /\ db' = [db EXCEPT ![c] = None]
          /\ save' = [save EXCEPT ![t].phase = "revoke"]
          /\ raced' = IF \E u \in Threads : save[u].chat = c /\ save[u].phase = "grant"
                      THEN raced \cup {c} ELSE raced
  /\ UNCHANGED <<priv, disk, job, oidc, restarts, clashed>>

RevokeUnsaved(t) ==   \* mutation: a logout is not written to the file
  /\ save[t].phase = "revoke"
  /\ priv' = priv \ {save[t].chat}
  /\ save' = [save EXCEPT ![t] = NoSave]
  /\ UNCHANGED <<db, disk, job, oidc, restarts, clashed, raced>>

RevokeNothing(t) ==   \* mutation: a logout leaves the privilege
  /\ save[t].phase = "revoke"
  /\ save' = [save EXCEPT ![t].phase = "open"]
  /\ UNCHANGED <<db, priv, disk, job, oidc, restarts, clashed, raced>>

Revoke(t) ==
  /\ save[t].phase = "revoke"
  /\ priv' = priv \ {save[t].chat}
  /\ save' = [save EXCEPT ![t].phase = "open"]
  /\ UNCHANGED <<db, disk, job, oidc, restarts, clashed, raced>>

(* open(..., "wb") empties the file, pickle.dump takes the tables as they  *)
(* are, and what it made is written when the file is closed.               *)
OpenFile(t) ==
  /\ save[t].phase = "open"
  /\ disk' = [disk EXCEPT !.torn = TRUE]
  /\ clashed' = (clashed \/ \E u \in Threads : save[u].phase \in {"dump", "write"})
  /\ save' = [save EXCEPT ![t].phase = "dump"]
  /\ UNCHANGED <<db, priv, job, oidc, restarts, raced>>

Dump(t) ==
  /\ save[t].phase = "dump"
  /\ save' = [save EXCEPT ![t].phase = "write", ![t].snap = <<db, priv>>]
  /\ raced' = raced \cup {save[u].chat : u \in {v \in Threads : save[v].phase = "revoke"}}
  /\ UNCHANGED <<db, priv, disk, job, oidc, restarts, clashed>>

Write(t) ==
  /\ save[t].phase = "write"
  /\ disk' = [torn |-> FALSE, snap |-> save[t].snap]
  /\ save' = [save EXCEPT ![t] = NoSave]
  /\ UNCHANGED <<db, priv, job, oidc, restarts, clashed, raced>>

SaveStep(t) ==
  SetAsn(t) \/ Grant(t) \/ Pop(t) \/ Revoke(t) \/ OpenFile(t) \/ Dump(t) \/ Write(t)

-----------------------------------------------------------------------------
(* Handlers of the dialog.  A handler that waits for nobody is one step;   *)
(* what the registry (whois), the mail server and gpg answer is open.      *)

Handles(j, q) == job[j].busy /\ job[j].phase = q

Says(j, m) == job[j].msg = m
Stays == UNCHANGED <<table, oidc, restarts>>

ProvesAny(j) == job[j].msg \in Jobs /\ Owns[job[j].chat] # {}   \* mutation: any dialogue's code

(* The answer is the code that was sent, or a signature of the challenge,  *)
(* of this dialog and not of another one.  It is assumed that only who has *)
(* the ASN can read its mail, and that nobody sends a signature that is not*)
(* his own: how gpg and ssh-keygen tell is not modelled.                   *)
Proves(j) == Says(j, j) /\ job[j].asn \in Owns[job[j].chat]

(* _do_gpg_login_success and the same lines elsewhere: persist_login_binding*)
(* runs in the handler's thread, which then is over.                       *)
Success(j, admin) == Bind(j, job[j].chat, job[j].asn, admin) /\ End(j) /\ UNCHANGED <<db, priv, disk, clashed, raced>>

(* start_login, with or without an ASN behind the command.                 *)
StartLogin(j) ==
  /\ Handles(j, "login")
  /\ IF db[job[j].chat] # None THEN End(j)
     ELSE IF job[j].asn = None THEN Ask(j, "asn", None)
     ELSE Ask(j, "method", job[j].asn)
  /\ Stays

(* login_start_external_oidc_provider: the state of the login is kept in   *)
(* memory, the dialog is over.                                             *)
StartProvider(j, a) ==
  /\ job' = [job EXCEPT ![j] = [NoJob EXCEPT !.phase = "ended", !.chat = job[j].chat, !.asn = a]]
  /\ link' \in {link, [link EXCEPT ![j] = "pending"]}
  /\ UNCHANGED <<table, web, restarts>>

(* login_start_external_oidc: a single provider is not asked for.          *)
StartOidc(j, a) ==
  IF ManyProviders THEN Ask(j, "provider", a) /\ Stays ELSE StartProvider(j, a)

InputAsn(j) ==
  /\ Handles(j, "asn")
  /\ CASE Says(j, "/cancel")    -> End(j) /\ Stays
       [] Says(j, "oidc")       -> StartOidc(j, None)
       [] job[j].msg \in ASNs   -> Ask(j, "method", job[j].msg) /\ Stays
       [] OTHER                 -> AskAgain(j) /\ Stays

(* login_start_gpg_challenge and login_start_ssh_challenge: the user is    *)
(* asked which key to use when there are several.                          *)
StartGpg(j) == \E q \in {"gpgkey", "gpg"} : Ask(j, q, job[j].asn)
StartSsh(j) == \E q \in {"sshkey", "ssh"} : Ask(j, q, job[j].asn)

(* The privilege code makes the chat an administrator's.                   *)
CodeAccepted(j) ==
  /\ Says(j, "privilege")
  /\ job[j].chat \in KnowsCode
  /\ ~(SinglePrivilege /\ priv # {})

(* login_signature_challenge looks for the code in the choice that led to  *)
(* it: a code that holds the word Signature.  Otherwise the registry names *)
(* keys of both kinds, of one kind, or none.                               *)
SignatureChallenge(j) ==
  IF CodeAccepted(j) THEN Success(j, TRUE) /\ UNCHANGED <<oidc, restarts>>
  ELSE /\ Ask(j, "sigtype", job[j].asn) \/ StartGpg(j) \/ StartSsh(j) \/ End(j)
       /\ Stays

ChooseAuthMethod(j) ==
  /\ Handles(j, "method")
  /\ CASE Says(j, "/cancel")    -> End(j) /\ Stays
       [] Says(j, "email")      -> Ask(j, "email", job[j].asn) /\ Stays
       [] Says(j, "oidc")       -> StartOidc(j, job[j].asn)
       [] Says(j, "signature") \/ Says(j, "privilege") -> SignatureChallenge(j)
       [] OTHER                 -> AskAgain(j) /\ Stays

ChooseProvider(j) ==
  /\ Handles(j, "provider")
  /\ CASE Says(j, "/cancel")  -> End(j) /\ Stays
       [] Says(j, "provider") -> StartProvider(j, job[j].asn)
       [] OTHER               -> AskAgain(j) /\ Stays

ChooseSignatureType(j) ==
  /\ Handles(j, "sigtype")
  /\ CASE Says(j, "/cancel") -> End(j)
       [] Says(j, "gpg")     -> StartGpg(j)
       [] Says(j, "ssh")     -> StartSsh(j)
       [] OTHER              -> AskAgain(j)
  /\ Stays

ChooseGpgKey(j) ==
  /\ Handles(j, "gpgkey")
  /\ CASE Says(j, "/cancel") -> End(j)
       [] Says(j, "key")     -> Ask(j, "gpg", job[j].asn)
       [] OTHER              -> AskAgain(j)
  /\ Stays

ChooseSshKey(j) ==
  /\ Handles(j, "sshkey")
  /\ CASE Says(j, "/cancel") -> End(j)
       [] Says(j, "key")     -> Ask(j, "ssh", job[j].asn)
       [] OTHER              -> AskAgain(j)
  /\ Stays

(* login_signature_verify_gpg: a text that does not hold the challenge ends*)
(* the dialog.  A signature nobody has the key of, not even the two key    *)
(* servers, makes the bot ask for the key.                                 *)
VerifyGpg(j) ==
  /\ Handles(j, "gpg")
  /\ \/ End(j) /\ Stays
     \/ Says(j, j) /\ Ask(j, "upload", job[j].asn) /\ Stays
     \/ Proves(j) /\ Success(j, FALSE) /\ UNCHANGED <<oidc, restarts>>

AskManualUpload(j) ==
  /\ Handles(j, "upload")
  /\ CASE Says(j, "/cancel") -> End(j)
       [] Says(j, "upload")  -> Ask(j, "pubkey", job[j].asn)
       [] OTHER              -> AskAgain(j)
  /\ Stays

(* A key that cannot be imported is asked for again, one with another      *)
(* fingerprint ends the dialog; the signature is then verified once more.  *)
ReceivePublicKey(j) ==
  /\ Handles(j, "pubkey")
  /\ \/ Says(j, "/cancel") /\ End(j) /\ Stays
     \/ ~Says(j, "/cancel") /\ AskAgain(j) /\ Stays
     \/ Says(j, "key") /\ End(j) /\ Stays
     \/ /\ Says(j, "key") /\ job[j].asn \in Owns[job[j].chat]
        /\ Success(j, FALSE) /\ UNCHANGED <<oidc, restarts>>

VerifySsh(j) ==
  /\ Handles(j, "ssh")
  /\ \/ End(j) /\ Stays
     \/ Proves(j) /\ Success(j, FALSE) /\ UNCHANGED <<oidc, restarts>>

(* login_choose_email: the code instead of an address.  The mail may fail. *)
ChooseEmail(j) ==
  /\ Handles(j, "email")
  /\ IF CodeAccepted(j) THEN Success(j, TRUE) /\ UNCHANGED <<oidc, restarts>>
     ELSE /\ \/ End(j)
             \/ Says(j, "address") /\ Ask(j, "code", job[j].asn)
          /\ Stays

VerifyCode(j) ==
  /\ Handles(j, "code")
  /\ IF Proves(j) THEN Success(j, FALSE) /\ UNCHANGED <<oidc, restarts>> ELSE End(j) /\ Stays

StartLogout(j) ==
  /\ Handles(j, "logout")
  /\ LET c == job[j].chat IN
     IF db[c] = None THEN UNCHANGED save
     ELSE save' = [save EXCEPT ![j] = [NoSave EXCEPT !.phase = "pop", !.chat = c]]
  /\ End(j)
  /\ UNCHANGED <<db, priv, disk, clashed, raced, oidc, restarts>>

(* whoami: an administrator takes on any ASN.                              *)
Whoami(j) ==
  /\ Handles(j, "whoami")
  /\ IF job[j].chat \in priv /\ db[job[j].chat] # None
     THEN Success(j, FALSE) /\ UNCHANGED <<oidc, restarts>>
     ELSE End(j) /\ Stays

Handler(j) ==
  \/ StartLogin(j) \/ InputAsn(j) \/ ChooseAuthMethod(j) \/ ChooseProvider(j)
  \/ ChooseSignatureType(j) \/ ChooseGpgKey(j) \/ ChooseSshKey(j)
  \/ VerifyGpg(j) \/ AskManualUpload(j) \/ ReceivePublicKey(j) \/ VerifySsh(j)
  \/ ChooseEmail(j) \/ VerifyCode(j) \/ StartLogout(j) \/ Whoami(j)

-----------------------------------------------------------------------------
(* The external login.                                                     *)

CallbackAgain(j) ==   \* mutation: the state stays among the pending ones
  /\ web = None
  /\ link[j] \in {"pending", "used"}
  /\ link' = [link EXCEPT ![j] = "taken"]
  /\ web' = j
  /\ UNCHANGED <<table, job, restarts>>

(* finish_login begins by taking the state out of the pending ones; a state*)
(* that is not there is answered with a page.                              *)
Callback(j) ==
  /\ web = None
  /\ link[j] = "pending"
  /\ link' = [link EXCEPT ![j] = "taken"]
  /\ web' = j
  /\ UNCHANGED <<table, job, restarts>>

FinishUnchecked(a) ==   \* mutation: a token without an ASN is not turned down
  /\ web # None
  /\ save[Web].phase = "none"
  /\ link[web] = "taken"
  /\ LET c == job[web].chat IN
     /\ a # None => a \in Owns[c]
     /\ IF a # None /\ job[web].asn \notin {None, a}
        THEN link' = [link EXCEPT ![web] = "failed"] /\ UNCHANGED save
        ELSE link' = [link EXCEPT ![web] = "used"] /\ Bind(Web, c, a, FALSE)
  /\ UNCHANGED <<db, priv, disk, clashed, raced, job, web, restarts>>

(* The token is fetched and checked.  Its claim must be the ASN the user   *)
(* entered, if one was.                                                    *)
FinishLogin(a) ==
  /\ web # None
  /\ save[Web].phase = "none"
  /\ link[web] = "taken"
  /\ LET c == job[web].chat IN
     /\ a # None => a \in Owns[c]
     /\ IF a = None \/ job[web].asn \notin {None, a}
        THEN link' = [link EXCEPT ![web] = "failed"] /\ UNCHANGED save
        ELSE link' = [link EXCEPT ![web] = "used"] /\ Bind(Web, c, a, FALSE)
  /\ UNCHANGED <<db, priv, disk, clashed, raced, job, web, restarts>>

Respond ==
  /\ web # None
  /\ save[Web].phase = "none"
  /\ link[web] # "taken"
  /\ web' = None
  /\ UNCHANGED <<table, job, link, restarts>>

(* pending_ttl has passed.                                                 *)
Expire(j) ==
  /\ link[j] = "pending"
  /\ link' = [link EXCEPT ![j] = "failed"]
  /\ UNCHANGED <<table, job, web, restarts>>

(* base.py reads the file, and there are no users when it cannot.          *)
Loaded == IF disk.torn THEN EmptySnap ELSE disk.snap

(* The bot restarts.  What waits may have been saved or not, pending states*)
(* are lost.                                                               *)
Restart(S) ==
  /\ restarts < MaxRestarts
  /\ restarts' = restarts + 1
  /\ S \subseteq {j \in Jobs : Waits(j)}
  /\ job' = [j \in Jobs |-> IF job[j].phase = "free" \/ j \in S THEN job[j]
                            ELSE [NoJob EXCEPT !.phase = "ended"]]
  /\ link' = [j \in Jobs |-> IF link[j] \in {"pending", "taken"} THEN "failed" ELSE link[j]]
  /\ web' = None
  /\ save' = [t \in Threads |-> NoSave]
  /\ db' = Loaded[1] /\ priv' = Loaded[2]
  /\ UNCHANGED <<disk, clashed, raced>>

Init ==
  /\ db = EmptyDb /\ priv = {}
  /\ disk = [torn |-> FALSE, snap |-> EmptySnap]
  /\ job = [j \in Jobs |-> NoJob]
  /\ link = [j \in Jobs |-> "none"]
  /\ web = None
  /\ save = [t \in Threads |-> NoSave]
  /\ restarts = 0
  /\ clashed = FALSE /\ raced = {}

Next ==
  \/ \E j \in Jobs : Handler(j) \/ Callback(j) \/ Expire(j)
  \/ \E j \in Jobs, c \in Chats, k \in Commands, a \in ASNs \cup {None} : Command(j, c, k, a)
  \/ \E c \in Chats, m \in Messages : Tell(c, m)
  \/ \E t \in Threads : SaveStep(t)
  \/ \E a \in ASNs \cup {None} : FinishLogin(a)
  \/ Respond
  \/ \E S \in SUBSET Jobs : Restart(S)

Spec == Init /\ [][Next]_vars

-----------------------------------------------------------------------------
(* Properties.                                                             *)

(* Types.                                                                  *)
TypeOK ==
  /\ db \in [Chats -> ASNs \cup {None}]
  /\ priv \subseteq Chats
  /\ disk.torn \in BOOLEAN
  /\ disk.snap[1] \in [Chats -> ASNs \cup {None}] /\ disk.snap[2] \subseteq Chats
  /\ job \in [Jobs -> [phase : {"free", "ended"} \cup Commands \cup Questions, busy : BOOLEAN,
                       chat : Chats \cup {None}, msg : Messages, asn : ASNs \cup {None}]]
  /\ link \in [Jobs -> {"none", "pending", "taken", "used", "failed"}]
  /\ web \in Jobs \cup {None}
  /\ \A t \in Threads :
       /\ save[t].phase \in {"none", "set", "grant", "pop", "revoke", "open", "dump", "write"}
       /\ save[t].phase # "none" => save[t].chat \in Chats
       /\ save[t].phase \in {"set", "grant"} => save[t].asn \in ASNs

Quiet(c) == \A t \in Threads : save[t].chat # c

(* Whoever is logged in proved that ASN, or is a person who knows the      *)
(* privilege code: whatever dialogs were begun side by side, cancelled,    *)
(* answered with each other's codes, and whichever callbacks came late.    *)
LoggedInOwns ==
  \A c \in Chats : db[c] # None => db[c] \in Owns[c] \/ c \in KnowsCode

(* An administrator is logged in (main.py:101 reads db of every privileged *)
(* chat), unless a logout came between the two steps of becoming one, or a *)
(* save between the two of a logout.                                       *)
PrivilegedIsLoggedIn ==
  \A c \in priv : Quiet(c) /\ c \notin raced => db[c] # None

(* When nobody is writing, the file is the table: a restart changes        *)
(* nothing - unless two saves overlapped, for then an older table may be   *)
(* written over a newer one.                                               *)
SavedWhenQuiet ==
  (\A t \in Threads : save[t].phase = "none") /\ ~clashed => Loaded = <<db, priv>>

(* One external login logs in once, however often the browser calls back,  *)
(* and never after it has failed or expired.                               *)
LinkUsedOnce ==
  [][\A j \in Jobs : link[j] \in {"used", "failed"} => link'[j] = link[j]]_vars

=============================================================================
