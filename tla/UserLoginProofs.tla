-------------------------- MODULE UserLoginProofs --------------------------
(***************************************************************************)
(* Theorems about UserLogin, for any numbers of chats, ASNs, commands and  *)
(* restarts: the types, that whoever is logged in proved the ASN, that an  *)
(* administrator is logged in, that the file is the table and that a link  *)
(* works once.                                                             *)
(***************************************************************************)
EXTENDS UserLogin, TLAPS

Tables == [Chats -> ASNs \cup {None}]

JobType ==
  [phase : {"free", "ended"} \cup Commands \cup Questions, busy : BOOLEAN,
   chat : Chats \cup {None}, msg : Messages, asn : ASNs \cup {None}]

SaveType ==
  [phase : {"none", "set", "grant", "pop", "revoke", "open", "dump", "write"},
   chat : Chats \cup {None}, asn : ASNs \cup {None}, admin : BOOLEAN, snap : Tables \X SUBSET Chats]

(* Questions that are asked when the ASN is known, and the command that    *)
(* names one.                                                              *)
KnowsAsn == (Questions \ {"asn", "provider"}) \cup {"whoami"}

JobInv ==
  \A j \in Jobs : /\ job[j].phase \notin {"free", "ended"} => job[j].chat \in Chats
                  /\ job[j].phase \in KnowsAsn => job[j].asn \in ASNs
                  /\ link[j] \in {"pending", "taken"} => job[j].chat \in Chats /\ job[j].phase = "ended"

Types ==
  /\ db \in Tables
  /\ priv \subseteq Chats
  /\ disk \in [torn : BOOLEAN, snap : Tables \X SUBSET Chats]
  /\ job \in [Jobs -> JobType]
  /\ link \in [Jobs -> {"none", "pending", "taken", "used", "failed"}]
  /\ web \in Jobs \cup {None}
  /\ save \in [Threads -> SaveType]

Entitled(c, a) == a \in Owns[c] \/ c \in KnowsCode

(* A table and a set of administrators in which nobody is who he is not.   *)
Rightful(snap) ==
  /\ \A c \in Chats : snap[1][c] # None => Entitled(c, snap[1][c])
  /\ snap[2] \subseteq KnowsCode

SaveInv ==
  \A t \in Threads :
    /\ save[t].phase # "none" => save[t].chat \in Chats
    /\ save[t].phase \in {"set", "grant"} => save[t].asn \in ASNs
    /\ save[t].phase = "set" => Entitled(save[t].chat, save[t].asn)
    /\ save[t].phase = "set" /\ save[t].admin => save[t].chat \in KnowsCode
    /\ save[t].phase = "grant" => save[t].chat \in KnowsCode
    /\ Rightful(save[t].snap)

(* LoggedInOwns with what it rests on: the administrators, the file and    *)
(* what each thread is about to do to them are rightful as well.           *)
LoginInv ==
  /\ Types
  /\ JobInv
  /\ SaveInv
  /\ Rightful(<<db, priv>>)
  /\ Rightful(disk.snap)

-----------------------------------------------------------------------------
LEMMA EmptyIsRightful == EmptySnap \in Tables \X SUBSET Chats /\ Rightful(EmptySnap)
  <1>1. EmptyDb \in Tables
    BY DEF EmptyDb, Tables
  <1>2. \A c \in Chats : EmptyDb[c] = None
    BY DEF EmptyDb
  <1>. QED
    BY <1>1, <1>2 DEF EmptySnap, Rightful

LEMMA NoSaveType == NoSave \in SaveType
  BY EmptyIsRightful DEF NoSave, SaveType

LEMMA NoJobType == NoJob \in JobType /\ [NoJob EXCEPT !.phase = "ended"] \in JobType
  <1>1. "other" \in Messages
    BY DEF Messages
  <1>. QED
    BY <1>1 DEF NoJob, JobType

(* The first state.                                                        *)
LEMMA InitInv == Init => LoginInv
  <1>. SUFFICES ASSUME Init PROVE LoginInv
    OBVIOUS
  <1>. USE LoginAssumption
  <1>1. Types
    <2>1. db \in Tables /\ priv \subseteq Chats
      BY EmptyIsRightful DEF Init, EmptySnap
    <2>2. disk \in [torn : BOOLEAN, snap : Tables \X SUBSET Chats]
      BY EmptyIsRightful DEF Init
    <2>3. job \in [Jobs -> JobType]
      BY NoJobType DEF Init
    <2>4. link \in [Jobs -> {"none", "pending", "taken", "used", "failed"}] /\ web \in Jobs \cup {None}
      BY DEF Init
    <2>5. save \in [Threads -> SaveType]
      BY NoSaveType DEF Init
    <2>. QED
      BY <2>1, <2>2, <2>3, <2>4, <2>5 DEF Types
  <1>2. JobInv
    BY DEF Init, JobInv, NoJob, KnowsAsn, Questions
  <1>3. SaveInv
    BY EmptyIsRightful DEF Init, SaveInv, NoSave
  <1>4. Rightful(<<db, priv>>) /\ Rightful(disk.snap)
    BY EmptyIsRightful DEF Init, EmptySnap
  <1>. QED
    BY <1>1, <1>2, <1>3, <1>4 DEF LoginInv

-----------------------------------------------------------------------------
(* A handler asks a question, or is over; the tables stay.                 *)
LEMMA AskKeeps ==
  ASSUME LoginInv, NEW j \in Jobs, NEW q \in Questions, NEW a \in ASNs \cup {None},
         job[j].phase \notin {"free", "ended"}, q \in KnowsAsn => a \in ASNs,
         Ask(j, q, a), Stays
  PROVE  LoginInv'
  <1>1. job'[j] = [job[j] EXCEPT !.phase = q, !.busy = FALSE, !.asn = a]
    BY DEF Ask, LoginInv, Types
  <1>2. \A i \in Jobs \ {j} : job'[i] = job[i]
    BY DEF Ask, LoginInv, Types
  <1>3. job[j] \in JobType
    BY DEF LoginInv, Types
  <1>4. job'[j] \in JobType /\ job'[j].phase = q /\ job'[j].asn = a /\ job'[j].chat = job[j].chat
    BY <1>1, <1>3 DEF JobType
  <1>5. job' \in [Jobs -> JobType]
    BY <1>4 DEF Ask, LoginInv, Types
  <1>6. JobInv'
    BY <1>2, <1>4 DEF Stays, oidc, LoginInv, JobInv, KnowsAsn, Questions
  <1>. QED
    BY <1>5, <1>6 DEF Stays, table, oidc, LoginInv, Types, SaveInv, Rightful

LEMMA EndsJob ==
  ASSUME LoginInv, NEW j \in Jobs, job[j].phase # "ended", End(j), UNCHANGED link
  PROVE  job' \in [Jobs -> JobType] /\ JobInv'
  <1>1. job'[j] = [NoJob EXCEPT !.phase = "ended"] /\ job'[j].phase = "ended"
    BY DEF End, NoJob, LoginInv, Types
  <1>2. \A i \in Jobs \ {j} : job'[i] = job[i]
    BY DEF End, LoginInv, Types
  <1>3. job' \in [Jobs -> JobType]
    BY NoJobType DEF End, LoginInv, Types
  <1>4. JobInv'
    BY <1>1, <1>2 DEF LoginInv, JobInv, KnowsAsn, Questions, Commands
  <1>. QED
    BY <1>3, <1>4

LEMMA EndKeeps ==
  ASSUME LoginInv, NEW j \in Jobs, job[j].phase # "ended", End(j), Stays
  PROVE  LoginInv'
  <1>1. job' \in [Jobs -> JobType] /\ JobInv'
    BY EndsJob DEF Stays, oidc
  <1>. QED
    BY <1>1 DEF Stays, table, oidc, LoginInv, Types, SaveInv, Rightful

(* A thread sets out to bind an ASN that its chat is entitled to.          *)
LEMMA BindKeeps ==
  ASSUME LoginInv, NEW t \in Threads, NEW c \in Chats, NEW a \in ASNs, NEW admin \in BOOLEAN,
         Entitled(c, a), admin => c \in KnowsCode, Bind(t, c, a, admin)
  PROVE  save' \in [Threads -> SaveType] /\ SaveInv'
  <1>1. save'[t] = [NoSave EXCEPT !.phase = "set", !.chat = c, !.asn = a, !.admin = admin]
    BY DEF Bind, LoginInv, Types
  <1>2. \A u \in Threads \ {t} : save'[u] = save[u]
    BY DEF Bind, LoginInv, Types
  <1>3. /\ save'[t] \in SaveType /\ save'[t].phase = "set" /\ save'[t].chat = c
        /\ save'[t].asn = a /\ save'[t].admin = admin /\ save'[t].snap = EmptySnap
    BY <1>1, EmptyIsRightful DEF NoSave, SaveType
  <1>4. save' \in [Threads -> SaveType]
    BY <1>3 DEF Bind, LoginInv, Types
  <1>5. SaveInv'
    BY <1>2, <1>3, EmptyIsRightful DEF LoginInv, SaveInv, Entitled, Rightful
  <1>. QED
    BY <1>4, <1>5

LEMMA SuccessKeeps ==
  ASSUME LoginInv, NEW j \in Jobs, NEW admin \in BOOLEAN, job[j].phase \in KnowsAsn,
         Entitled(job[j].chat, job[j].asn), admin => job[j].chat \in KnowsCode,
         Success(j, admin), UNCHANGED <<oidc, restarts>>
  PROVE  LoginInv'
  <1>1. job[j].chat \in Chats /\ job[j].asn \in ASNs /\ job[j].phase # "ended" /\ j \in Threads
    BY DEF LoginInv, JobInv, KnowsAsn, Questions, Threads
  <1>2. job' \in [Jobs -> JobType] /\ JobInv'
    BY <1>1, EndsJob DEF Success, oidc
  <1>3. save' \in [Threads -> SaveType] /\ SaveInv'
    BY <1>1, BindKeeps DEF Success
  <1>. QED
    BY <1>2, <1>3 DEF Success, oidc, LoginInv, Types, Rightful

LEMMA StartProviderKeeps ==
  ASSUME LoginInv, NEW j \in Jobs, NEW a \in ASNs \cup {None},
         job[j].phase \notin {"free", "ended"}, StartProvider(j, a)
  PROVE  LoginInv'
  <1>1. job[j].chat \in Chats
    BY DEF LoginInv, JobInv
  <1>2. job'[j] = [NoJob EXCEPT !.phase = "ended", !.chat = job[j].chat, !.asn = a]
    BY DEF StartProvider, LoginInv, Types
  <1>3. \A i \in Jobs \ {j} : job'[i] = job[i]
    BY DEF StartProvider, LoginInv, Types
  <1>4. job'[j] \in JobType /\ job'[j].phase = "ended" /\ job'[j].chat = job[j].chat
    BY <1>1, <1>2, NoJobType DEF NoJob, JobType
  <1>5. job' \in [Jobs -> JobType]
    BY <1>4 DEF StartProvider, LoginInv, Types
  <1>6. /\ link' \in [Jobs -> {"none", "pending", "taken", "used", "failed"}]
        /\ \A i \in Jobs \ {j} : link'[i] = link[i]
    BY DEF StartProvider, LoginInv, Types
  <1>7. JobInv'
    BY <1>1, <1>3, <1>4, <1>6 DEF LoginInv, JobInv, KnowsAsn, Questions
  <1>. QED
    BY <1>5, <1>6, <1>7 DEF StartProvider, table, LoginInv, Types, SaveInv, Rightful

-----------------------------------------------------------------------------
(* The handlers.                                                           *)

(* The questions that are asked once the ASN is known.                     *)
LEMMA StartsLogin ==
  ASSUME LoginInv, NEW j \in Jobs, StartLogin(j)
  PROVE  LoginInv'
  <1>1. job[j].phase = "login" /\ job[j].asn \in ASNs \cup {None} /\ Stays
    BY DEF StartLogin, Handles, LoginInv, Types, JobType
  <1>2. CASE End(j)
    BY <1>1, <1>2, EndKeeps
  <1>3. CASE Ask(j, "asn", None)
    BY <1>1, <1>3, AskKeeps DEF Questions, KnowsAsn
  <1>4. CASE job[j].asn # None /\ Ask(j, "method", job[j].asn)
    BY <1>1, <1>4, AskKeeps DEF Questions, KnowsAsn
  <1>. QED
    BY <1>2, <1>3, <1>4 DEF StartLogin

LEMMA StartsOidc ==
  ASSUME LoginInv, NEW j \in Jobs, NEW a \in ASNs \cup {None},
         job[j].phase \in Questions, StartOidc(j, a)
  PROVE  LoginInv'
  <1>1. CASE Ask(j, "provider", a) /\ Stays
    BY <1>1, AskKeeps DEF Questions, KnowsAsn
  <1>2. CASE StartProvider(j, a)
    BY <1>2, StartProviderKeeps DEF Questions
  <1>. QED
    BY <1>1, <1>2 DEF StartOidc

LEMMA AsksAgain ==
  ASSUME LoginInv, NEW j \in Jobs, job[j].phase \in Questions, AskAgain(j), Stays
  PROVE  LoginInv'
  <1>1. job[j].asn \in ASNs \cup {None} /\ (job[j].phase \in KnowsAsn => job[j].asn \in ASNs)
    BY DEF LoginInv, Types, JobType, JobInv
  <1>. QED
    BY <1>1, AskKeeps DEF AskAgain, Questions

LEMMA InputsAsn ==
  ASSUME LoginInv, NEW j \in Jobs, InputAsn(j)
  PROVE  LoginInv'
  <1>1. job[j].phase = "asn" /\ job[j].phase \in Questions
    BY DEF InputAsn, Handles, Questions
  <1>2. CASE End(j) /\ Stays
    BY <1>1, <1>2, EndKeeps
  <1>3. CASE StartOidc(j, None)
    BY <1>1, <1>3, StartsOidc
  <1>4. CASE job[j].msg \in ASNs /\ Ask(j, "method", job[j].msg) /\ Stays
    BY <1>1, <1>4, AskKeeps DEF Questions, KnowsAsn
  <1>5. CASE AskAgain(j) /\ Stays
    BY <1>1, <1>5, AsksAgain
  <1>. QED
    BY <1>2, <1>3, <1>4, <1>5 DEF InputAsn

(* A question whose answers lead to other questions about the same ASN.    *)
LEMMA AsksOn ==
  ASSUME LoginInv, NEW j \in Jobs, job[j].phase \in KnowsAsn \cap Questions,
         NEW q \in KnowsAsn \cap Questions, Ask(j, q, job[j].asn), Stays
  PROVE  LoginInv'
  <1>1. job[j].asn \in ASNs
    BY DEF LoginInv, JobInv
  <1>. QED
    BY <1>1, AskKeeps DEF Questions

LEMMA ChoosesAuthMethod ==
  ASSUME LoginInv, NEW j \in Jobs, ChooseAuthMethod(j)
  PROVE  LoginInv'
  <1>1. job[j].phase = "method" /\ job[j].phase \in KnowsAsn \cap Questions
    BY DEF ChooseAuthMethod, Handles, Questions, KnowsAsn
  <1>2. {"email", "sigtype", "gpgkey", "gpg", "sshkey", "ssh"} \subseteq KnowsAsn \cap Questions
    BY DEF Questions, KnowsAsn
  <1>3. CASE End(j) /\ Stays
    BY <1>1, <1>3, EndKeeps
  <1>4. CASE Ask(j, "email", job[j].asn) /\ Stays
    BY <1>1, <1>2, <1>4, AsksOn
  <1>5. CASE StartOidc(j, job[j].asn)
    <2>1. job[j].asn \in ASNs
      BY <1>1 DEF LoginInv, JobInv
    <2>. QED
      BY <1>1, <1>5, <2>1, StartsOidc
  <1>6. CASE SignatureChallenge(j)
    <2>1. CASE End(j) /\ Stays
      BY <1>3, <2>1
    <2>2. ASSUME NEW q \in {"sigtype", "gpgkey", "gpg", "sshkey", "ssh"}, Ask(j, q, job[j].asn),
                 Stays
          PROVE  LoginInv'
      BY <1>1, <1>2, <2>2, AsksOn
    <2>3. CASE CodeAccepted(j) /\ Success(j, TRUE) /\ UNCHANGED <<oidc, restarts>>
      BY <1>1, <2>3, SuccessKeeps DEF CodeAccepted, Entitled
    <2>. QED
      BY <1>6, <2>1, <2>2, <2>3 DEF SignatureChallenge, StartGpg, StartSsh
  <1>7. CASE AskAgain(j) /\ Stays
    BY <1>1, <1>7, AsksAgain
  <1>. QED
    BY <1>3, <1>4, <1>5, <1>6, <1>7 DEF ChooseAuthMethod

LEMMA ChoosesProvider ==
  ASSUME LoginInv, NEW j \in Jobs, ChooseProvider(j)
  PROVE  LoginInv'
  <1>1. /\ job[j].phase = "provider" /\ job[j].phase \in Questions
        /\ job[j].asn \in ASNs \cup {None}
    BY DEF ChooseProvider, Handles, Questions, LoginInv, Types, JobType
  <1>2. CASE End(j) /\ Stays
    BY <1>1, <1>2, EndKeeps
  <1>3. CASE StartProvider(j, job[j].asn)
    BY <1>1, <1>3, StartProviderKeeps
  <1>4. CASE AskAgain(j) /\ Stays
    BY <1>1, <1>4, AsksAgain
  <1>. QED
    BY <1>2, <1>3, <1>4 DEF ChooseProvider

(* The choices of a signature, a key and an upload.                        *)
LEMMA ChoosesOn ==
  ASSUME LoginInv, NEW j \in Jobs,
         ChooseSignatureType(j) \/ ChooseGpgKey(j) \/ ChooseSshKey(j) \/ AskManualUpload(j)
  PROVE  LoginInv'
  <1>1. job[j].phase \in {"sigtype", "gpgkey", "sshkey", "upload"} /\ Stays
    BY DEF ChooseSignatureType, ChooseGpgKey, ChooseSshKey, AskManualUpload, Handles
  <1>2. job[j].phase \in KnowsAsn \cap Questions /\ job[j].phase # "ended"
    BY <1>1 DEF Questions, KnowsAsn
  <1>3. {"gpgkey", "gpg", "sshkey", "ssh", "pubkey"} \subseteq KnowsAsn \cap Questions
    BY DEF Questions, KnowsAsn
  <1>4. CASE End(j)
    BY <1>1, <1>2, <1>4, EndKeeps
  <1>5. CASE AskAgain(j)
    BY <1>1, <1>2, <1>5, AsksAgain
  <1>6. ASSUME NEW q \in {"gpgkey", "gpg", "sshkey", "ssh", "pubkey"}, Ask(j, q, job[j].asn)
        PROVE  LoginInv'
    BY <1>1, <1>2, <1>3, <1>6, AsksOn
  <1>. QED
    BY <1>4, <1>5, <1>6
    DEF ChooseSignatureType, ChooseGpgKey, ChooseSshKey, AskManualUpload, StartGpg, StartSsh

(* The three proofs by what only the holder of the ASN can send.           *)
LEMMA Verifies ==
  ASSUME LoginInv, NEW j \in Jobs,
         VerifyGpg(j) \/ VerifySsh(j) \/ VerifyCode(j) \/ ReceivePublicKey(j)
  PROVE  LoginInv'
  <1>1. job[j].phase \in {"gpg", "ssh", "code", "pubkey"}
    BY DEF VerifyGpg, VerifySsh, VerifyCode, ReceivePublicKey, Handles
  <1>2. job[j].phase \in KnowsAsn \cap Questions /\ job[j].phase # "ended"
    BY <1>1 DEF Questions, KnowsAsn
  <1>3. CASE End(j) /\ Stays
    BY <1>2, <1>3, EndKeeps
  <1>4. CASE AskAgain(j) /\ Stays
    BY <1>2, <1>4, AsksAgain
  <1>5. CASE Ask(j, "upload", job[j].asn) /\ Stays
    BY <1>2, <1>5, AsksOn DEF Questions, KnowsAsn
  <1>6. CASE job[j].asn \in Owns[job[j].chat] /\ Success(j, FALSE) /\ UNCHANGED <<oidc, restarts>>
    BY <1>2, <1>6, SuccessKeeps DEF Entitled
  <1>. QED
    BY <1>3, <1>4, <1>5, <1>6 DEF VerifyGpg, VerifySsh, VerifyCode, ReceivePublicKey, Proves

LEMMA ChoosesEmail ==
  ASSUME LoginInv, NEW j \in Jobs, ChooseEmail(j)
  PROVE  LoginInv'
  <1>1. job[j].phase = "email" /\ job[j].phase \in KnowsAsn \cap Questions
    BY DEF ChooseEmail, Handles, Questions, KnowsAsn
  <1>2. CASE CodeAccepted(j) /\ Success(j, TRUE) /\ UNCHANGED <<oidc, restarts>>
    BY <1>1, <1>2, SuccessKeeps DEF CodeAccepted, Entitled
  <1>3. CASE End(j) /\ Stays
    BY <1>1, <1>3, EndKeeps
  <1>4. CASE Ask(j, "code", job[j].asn) /\ Stays
    BY <1>1, <1>4, AsksOn DEF Questions, KnowsAsn
  <1>. QED
    BY <1>2, <1>3, <1>4 DEF ChooseEmail

LEMMA StartsLogout ==
  ASSUME LoginInv, NEW j \in Jobs, StartLogout(j)
  PROVE  LoginInv'
  <1>1. job[j].phase = "logout" /\ j \in Threads
    BY DEF StartLogout, Handles, Threads
  <1>2. job[j].chat \in Chats
    BY <1>1 DEF LoginInv, JobInv
  <1>3. job' \in [Jobs -> JobType] /\ JobInv'
    BY <1>1, EndsJob DEF StartLogout, oidc
  <1>4. save' \in [Threads -> SaveType] /\ SaveInv'
    <2>1. CASE UNCHANGED save
      BY <2>1 DEF LoginInv, Types, SaveInv, Rightful
    <2>2. CASE save' = [save EXCEPT ![j] = [NoSave EXCEPT !.phase = "pop", !.chat = job[j].chat]]
      <3>1. save'[j] = [NoSave EXCEPT !.phase = "pop", !.chat = job[j].chat]
        BY <1>1, <2>2 DEF LoginInv, Types
      <3>2. \A u \in Threads \ {j} : save'[u] = save[u]
        BY <2>2 DEF LoginInv, Types
      <3>3. /\ save'[j] \in SaveType /\ save'[j].phase = "pop"
            /\ save'[j].chat = job[j].chat /\ save'[j].snap = EmptySnap
        BY <1>2, <3>1, EmptyIsRightful DEF NoSave, SaveType
      <3>4. save' \in [Threads -> SaveType]
        BY <2>2, <3>1, <3>3 DEF LoginInv, Types
      <3>5. SaveInv'
        BY <1>2, <3>2, <3>3, EmptyIsRightful DEF LoginInv, SaveInv, Entitled, Rightful
      <3>. QED
        BY <3>4, <3>5
    <2>. QED
      BY <2>1, <2>2 DEF StartLogout
  <1>. QED
    BY <1>3, <1>4 DEF StartLogout, oidc, LoginInv, Types, Rightful

(* Only an administrator, who knows the code, takes on an ASN.             *)
LEMMA WhoamiKeeps ==
  ASSUME LoginInv, NEW j \in Jobs, Whoami(j)
  PROVE  LoginInv'
  <1>1. job[j].phase = "whoami" /\ job[j].phase \in KnowsAsn
    BY DEF Whoami, Handles, KnowsAsn
  <1>2. CASE job[j].chat \in priv /\ Success(j, FALSE) /\ UNCHANGED <<oidc, restarts>>
    <2>1. job[j].chat \in KnowsCode
      BY <1>2 DEF LoginInv, Rightful
    <2>. QED
      BY <1>1, <1>2, <2>1, SuccessKeeps DEF Entitled
  <1>3. CASE End(j) /\ Stays
    BY <1>1, <1>3, EndKeeps
  <1>. QED
    BY <1>2, <1>3 DEF Whoami

LEMMA HandlerKeeps ==
  ASSUME LoginInv, NEW j \in Jobs, Handler(j)
  PROVE  LoginInv'
  BY StartsLogin, InputsAsn, ChoosesAuthMethod, ChoosesProvider, ChoosesOn, Verifies, ChoosesEmail,
     StartsLogout, WhoamiKeeps DEF Handler

-----------------------------------------------------------------------------
(* Messages.                                                               *)

LEMMA CommandKeeps ==
  ASSUME LoginInv, NEW j \in Jobs, NEW c \in Chats, NEW k \in Commands, NEW a \in ASNs \cup {None},
         Command(j, c, k, a)
  PROVE  LoginInv'
  <1>. DEFINE new == [phase |-> k, busy |-> TRUE, chat |-> c, msg |-> "other", asn |-> a]
  <1>1. job' = [job EXCEPT ![j] = new] /\ job[j].phase = "free" /\ (k = "whoami" => a # None)
    BY DEF Command
  <1>2. new \in JobType
    BY DEF JobType, Messages
  <1>3. job' \in [Jobs -> JobType] /\ job'[j] = new /\ \A i \in Jobs \ {j} : job'[i] = job[i]
    BY <1>1, <1>2 DEF LoginInv, Types
  <1>4. link[j] \notin {"pending", "taken"}
    BY <1>1 DEF LoginInv, JobInv
  <1>5. JobInv'
    BY <1>1, <1>3, <1>4 DEF Command, oidc, LoginInv, JobInv, KnowsAsn, Questions, Commands
  <1>. QED
    BY <1>3, <1>5 DEF Command, table, oidc, LoginInv, Types, SaveInv, Rightful

LEMMA TellKeeps ==
  ASSUME LoginInv, NEW c \in Chats, NEW m \in Messages, Tell(c, m)
  PROVE  LoginInv'
  <1>1. ASSUME NEW i \in Jobs
        PROVE  /\ job'[i] \in JobType /\ job'[i].phase = job[i].phase
               /\ job'[i].chat = job[i].chat /\ job'[i].asn = job[i].asn
    <2>1. job[i] \in JobType /\ job'[i] \in {job[i], [job[i] EXCEPT !.busy = TRUE, !.msg = m]}
      BY DEF Tell, LoginInv, Types
    <2>. QED
      BY <2>1 DEF JobType
  <1>2. job' \in [Jobs -> JobType]
    BY <1>1 DEF Tell
  <1>3. JobInv'
    BY <1>1 DEF Tell, oidc, LoginInv, JobInv
  <1>. QED
    BY <1>2, <1>3 DEF Tell, table, oidc, LoginInv, Types, SaveInv, Rightful

-----------------------------------------------------------------------------
(* The table and the file.                                                 *)

(* A step of a save goes on to another phase and keeps what it has to save.*)
LEMMA SaveMoves ==
  ASSUME LoginInv, NEW t \in Threads,
         NEW ph \in {"grant", "open", "revoke", "dump"},
         save[t].phase # "none", ph = "grant" => save[t].phase = "set" /\ save[t].admin,
         save' = [save EXCEPT ![t].phase = ph]
  PROVE  save' \in [Threads -> SaveType] /\ SaveInv'
  <1>1. save[t] \in SaveType
    BY DEF LoginInv, Types
  <1>2. save'[t] = [save[t] EXCEPT !.phase = ph] /\ \A u \in Threads \ {t} : save'[u] = save[u]
    BY DEF LoginInv, Types
  <1>3. /\ save'[t] \in SaveType /\ save'[t].phase = ph /\ save'[t].chat = save[t].chat
        /\ save'[t].asn = save[t].asn /\ save'[t].admin = save[t].admin /\ save'[t].snap = save[t].snap
    BY <1>1, <1>2 DEF SaveType
  <1>4. save' \in [Threads -> SaveType]
    BY <1>2, <1>3 DEF LoginInv, Types
  <1>5. SaveInv'
    BY <1>2, <1>3 DEF LoginInv, SaveInv, Entitled, Rightful
  <1>. QED
    BY <1>4, <1>5

LEMMA SaveEnds ==
  ASSUME LoginInv, NEW t \in Threads, save' = [save EXCEPT ![t] = NoSave]
  PROVE  save' \in [Threads -> SaveType] /\ SaveInv'
  <1>1. save' \in [Threads -> SaveType]
    BY NoSaveType DEF LoginInv, Types
  <1>2. save'[t] = NoSave /\ \A u \in Threads \ {t} : save'[u] = save[u]
    BY DEF LoginInv, Types
  <1>3. NoSave.phase = "none" /\ NoSave.snap = EmptySnap
    BY DEF NoSave
  <1>. QED
    BY <1>1, <1>2, <1>3, EmptyIsRightful DEF LoginInv, SaveInv, Entitled, Rightful

LEMMA SaveStepKeeps ==
  ASSUME LoginInv, NEW t \in Threads, SaveStep(t)
  PROVE  LoginInv'
  <1>1. save[t] \in SaveType
    BY DEF LoginInv, Types
  <1>2. CASE SetAsn(t)
    <2>1. save[t].phase = "set" /\ save[t].chat \in Chats /\ save[t].asn \in ASNs
      BY <1>2 DEF SetAsn, LoginInv, SaveInv
    <2>2. save' \in [Threads -> SaveType] /\ SaveInv'
      <3>1. CASE save[t].admin
        BY <1>2, <2>1, <3>1, SaveMoves DEF SetAsn
      <3>2. CASE ~save[t].admin
        BY <1>2, <2>1, <3>2, SaveMoves DEF SetAsn
      <3>. QED
        BY <3>1, <3>2
    <2>3. db' \in Tables /\ \A c \in Chats : db'[c] = IF c = save[t].chat THEN save[t].asn ELSE db[c]
      BY <1>2, <2>1 DEF SetAsn, LoginInv, Types, Tables
    <2>4. Rightful(<<db, priv>>)'
      BY <1>2, <2>1, <2>3 DEF SetAsn, LoginInv, SaveInv, Rightful
    <2>. QED
      BY <1>2, <2>2, <2>3, <2>4 DEF SetAsn, oidc, LoginInv, Types, JobInv, Rightful
  <1>3. CASE Grant(t)
    <2>1. save[t].chat \in Chats /\ save[t].chat \in KnowsCode
      BY <1>3 DEF Grant, LoginInv, SaveInv
    <2>2. save' \in [Threads -> SaveType] /\ SaveInv'
      BY <1>3, SaveMoves DEF Grant
    <2>3. priv' \subseteq Chats /\ Rightful(<<db, priv>>)'
      BY <1>3, <2>1 DEF Grant, LoginInv, Types, Rightful
    <2>. QED
      BY <1>3, <2>2, <2>3 DEF Grant, oidc, LoginInv, Types, JobInv, Rightful
  <1>4. CASE Pop(t)
    <2>1. CASE save' = [save EXCEPT ![t] = NoSave] /\ UNCHANGED <<db, raced>>
      BY <1>4, <2>1, SaveEnds DEF Pop, oidc, LoginInv, Types, JobInv, Rightful
    <2>2. CASE db' = [db EXCEPT ![save[t].chat] = None] /\ save' = [save EXCEPT ![t].phase = "revoke"]
      <3>1. save' \in [Threads -> SaveType] /\ SaveInv'
        BY <1>4, <2>2, SaveMoves DEF Pop
      <3>2. db' \in Tables /\ \A c \in Chats : db'[c] \in {db[c], None}
        BY <2>2 DEF LoginInv, Types, Tables
      <3>3. Rightful(<<db, priv>>)'
        BY <1>4, <3>2 DEF Pop, LoginInv, Rightful
      <3>. QED
        BY <1>4, <3>1, <3>2, <3>3 DEF Pop, oidc, LoginInv, Types, JobInv, Rightful
    <2>. QED
      BY <1>4, <2>1, <2>2 DEF Pop
  <1>5. CASE Revoke(t)
    <2>1. save' \in [Threads -> SaveType] /\ SaveInv'
      BY <1>5, SaveMoves DEF Revoke
    <2>2. priv' \subseteq Chats /\ Rightful(<<db, priv>>)'
      BY <1>5 DEF Revoke, LoginInv, Types, Rightful
    <2>. QED
      BY <1>5, <2>1, <2>2 DEF Revoke, oidc, LoginInv, Types, JobInv, Rightful
  <1>6. CASE OpenFile(t)
    <2>1. save' \in [Threads -> SaveType] /\ SaveInv'
      BY <1>6, SaveMoves DEF OpenFile
    <2>2. disk' \in [torn : BOOLEAN, snap : Tables \X SUBSET Chats] /\ disk'.snap = disk.snap
      BY <1>6 DEF OpenFile, LoginInv, Types
    <2>. QED
      BY <1>6, <2>1, <2>2 DEF OpenFile, oidc, LoginInv, Types, JobInv, Rightful
  <1>7. CASE Dump(t)
    <2>1. /\ save'[t] = [save[t] EXCEPT !.phase = "write", !.snap = <<db, priv>>]
          /\ \A u \in Threads \ {t} : save'[u] = save[u]
      BY <1>7 DEF Dump, LoginInv, Types
    <2>2. <<db, priv>> \in Tables \X SUBSET Chats /\ Rightful(<<db, priv>>)
      BY DEF LoginInv, Types
    <2>3. /\ save'[t] \in SaveType /\ save'[t].phase = "write" /\ save'[t].chat = save[t].chat
          /\ save'[t].snap = <<db, priv>>
      BY <1>1, <2>1, <2>2 DEF SaveType
    <2>4. save' \in [Threads -> SaveType]
      BY <1>7, <2>1, <2>3 DEF Dump, LoginInv, Types
    <2>5. save[t].chat \in Chats
      BY <1>7 DEF Dump, LoginInv, SaveInv
    <2>6. SaveInv'
      BY <2>1, <2>2, <2>3, <2>5 DEF LoginInv, SaveInv, Entitled, Rightful
    <2>. QED
      BY <1>7, <2>4, <2>6 DEF Dump, oidc, LoginInv, Types, JobInv, Rightful
  <1>8. CASE Write(t)
    <2>1. save' \in [Threads -> SaveType] /\ SaveInv'
      BY <1>8, SaveEnds DEF Write
    <2>2. disk' \in [torn : BOOLEAN, snap : Tables \X SUBSET Chats] /\ disk'.snap = save[t].snap
      BY <1>1, <1>8 DEF Write, SaveType
    <2>3. Rightful(disk.snap)'
      BY <2>2 DEF LoginInv, SaveInv, Rightful
    <2>. QED
      BY <1>8, <2>1, <2>2, <2>3 DEF Write, oidc, LoginInv, Types, JobInv, Rightful
  <1>. QED
    BY <1>2, <1>3, <1>4, <1>5, <1>6, <1>7, <1>8 DEF SaveStep

-----------------------------------------------------------------------------
(* The external login, and a restart.                                      *)

LEMMA LinkKeeps ==
  ASSUME LoginInv, NEW j \in Jobs, Callback(j) \/ Expire(j)
  PROVE  LoginInv'
  <1>1. link[j] = "pending" /\ UNCHANGED <<table, job>>
    BY DEF Callback, Expire
  <1>2. /\ link' \in [Jobs -> {"none", "pending", "taken", "used", "failed"}]
        /\ \A i \in Jobs \ {j} : link'[i] = link[i]
        /\ web' \in Jobs \cup {None}
    BY DEF Callback, Expire, LoginInv, Types
  <1>3. JobInv'
    BY <1>1, <1>2 DEF LoginInv, JobInv
  <1>. QED
    BY <1>1, <1>2, <1>3 DEF table, LoginInv, Types, SaveInv, Rightful

(* The ASN the provider names is one the person has.                       *)
LEMMA FinishKeeps ==
  ASSUME LoginInv, NEW a \in ASNs \cup {None}, FinishLogin(a)
  PROVE  LoginInv'
  <1>1. web \in Jobs /\ link[web] = "taken"
    BY DEF FinishLogin, LoginInv, Types
  <1>2. job[web].chat \in Chats
    BY <1>1 DEF LoginInv, JobInv
  <1>3. /\ link' \in [Jobs -> {"none", "pending", "taken", "used", "failed"}]
        /\ \A i \in Jobs : link'[i] \in {"pending", "taken"} => link[i] \in {"pending", "taken"}
    BY <1>1 DEF FinishLogin, LoginInv, Types
  <1>4. save' \in [Threads -> SaveType] /\ SaveInv'
    <2>1. CASE UNCHANGED save
      BY <2>1 DEF LoginInv, Types, SaveInv, Rightful
    <2>2. CASE a # None /\ Bind(Web, job[web].chat, a, FALSE)
      BY <1>2, <2>2, BindKeeps DEF FinishLogin, Entitled, Threads
    <2>. QED
      BY <2>1, <2>2 DEF FinishLogin
  <1>5. JobInv'
    BY <1>3 DEF FinishLogin, LoginInv, JobInv
  <1>. QED
    BY <1>3, <1>4, <1>5 DEF FinishLogin, LoginInv, Types, Rightful

LEMMA RestartKeeps ==
  ASSUME LoginInv, NEW S \in SUBSET Jobs, Restart(S)
  PROVE  LoginInv'
  <1>1. job' \in [Jobs -> JobType]
    BY NoJobType DEF Restart, LoginInv, Types
  <1>2. \A i \in Jobs : job'[i] = job[i] \/ job'[i].phase = "ended"
    BY DEF Restart, NoJob
  <1>3. /\ link' \in [Jobs -> {"none", "pending", "taken", "used", "failed"}]
        /\ \A i \in Jobs : link'[i] \notin {"pending", "taken"}
    BY DEF Restart, LoginInv, Types
  <1>4. JobInv'
    BY <1>2, <1>3 DEF LoginInv, JobInv, KnowsAsn, Questions
  <1>5. save' \in [Threads -> SaveType] /\ SaveInv'
    BY NoSaveType, EmptyIsRightful DEF Restart, NoSave, SaveInv
  <1>6. Loaded \in Tables \X SUBSET Chats /\ Rightful(Loaded)
    BY EmptyIsRightful DEF Loaded, LoginInv, Types
  <1>7. db' \in Tables /\ priv' \subseteq Chats /\ Rightful(<<db, priv>>)'
    BY <1>6 DEF Restart, Rightful
  <1>. QED
    BY <1>1, <1>3, <1>4, <1>5, <1>7 DEF Restart, LoginInv, Types, Rightful

LEMMA StepKeeps == LoginInv /\ [Next]_vars => LoginInv'
  <1>. SUFFICES ASSUME LoginInv, [Next]_vars PROVE LoginInv'
    OBVIOUS
  <1>1. ASSUME NEW j \in Jobs, Handler(j) \/ Callback(j) \/ Expire(j) PROVE LoginInv'
    BY <1>1, HandlerKeeps, LinkKeeps
  <1>2. CASE Respond
    BY <1>2 DEF Respond, table, LoginInv, Types, JobInv, SaveInv, Rightful
  <1>3. CASE UNCHANGED vars
    BY <1>3 DEF vars, LoginInv, Types, JobInv, SaveInv, Rightful
  <1>. QED
    BY <1>1, <1>2, <1>3, CommandKeeps, TellKeeps, SaveStepKeeps, FinishKeeps, RestartKeeps DEF Next

-----------------------------------------------------------------------------
(* LoginInv is an invariant; it is inductive.                              *)
THEOREM LoginInvariant == Spec => []LoginInv
  BY InitInv, StepKeeps, PTL DEF Spec

(* The types of base.db, base.db_privilege, the file, dialogs and threads. *)
THEOREM LoginTypeCorrect == Spec => []TypeOK
  <1>1. LoginInv => TypeOK
    BY DEF LoginInv, Types, SaveInv, Tables, JobType, SaveType, TypeOK
  <1>. QED
    BY <1>1, LoginInvariant, PTL

(* Whoever is logged in proved that ASN to persist_login_binding's callers,*)
(* or knows the privilege code: for any number of dialogs, chats, callbacks*)
(* and restarts.                                                           *)
THEOREM OnlyOwnersLogIn == Spec => []LoggedInOwns
  <1>1. LoginInv => LoggedInOwns
    BY DEF LoginInv, Rightful, Entitled, LoggedInOwns
  <1>. QED
    BY <1>1, LoginInvariant, PTL

-----------------------------------------------------------------------------
(* Who is privileged, and what the file holds.                             *)

(* A dialog that is not over has neither begun to save nor given out a     *)
(* link: no thread begins a save before it has ended the last.             *)
JobsEnd ==
  \A j \in Jobs : job[j].phase # "ended" => save[j].phase = "none" /\ link[j] = "none"

(* In a table that is kept somewhere, an administrator is logged in.       *)
Attended(snap, c) == c \in snap[2] => snap[1][c] # None

AdminInv ==
  /\ \A c \in Chats \ raced :
       /\ c \in priv /\ db[c] = None => \E t \in Threads : save[t].phase = "revoke" /\ save[t].chat = c
       /\ Attended(disk.snap, c)
       /\ \A t \in Threads : save[t].phase = "write" => Attended(save[t].snap, c)
  /\ \A t \in Threads : save[t].phase = "grant" /\ save[t].chat \notin raced => db[save[t].chat] # None

(* Phases of a thread that has changed nothing that is not in the file.    *)
Even == {"none", "set", "pop"}

EvenBut(t) == \A u \in Threads \ {t} : save[u].phase \in Even

(* One thread has the file at a time; the last to write it writes it all.  *)
FileInv ==
  ~clashed =>
    /\ \A t, u \in Threads : save[t].phase \in {"dump", "write"} /\ save[u].phase \in {"dump", "write"} => t = u
    /\ (\A t \in Threads : save[t].phase \in Even) => Loaded = <<db, priv>>
    /\ \A t \in Threads : save[t].phase = "write" /\ EvenBut(t) => save[t].snap = <<db, priv>>

TableInv == LoginInv /\ JobsEnd /\ AdminInv /\ FileInv

(* A thread sets out to change the table.                                  *)
Begins(t) ==
  /\ save[t].phase = "none" /\ save'[t].phase \in {"set", "pop"}
  /\ \A u \in Threads \ {t} : save'[u] = save[u]
  /\ UNCHANGED <<db, priv, disk, clashed, raced>>

(* What a handler may do beside talking: begin a save or give out a link,  *)
(* and then the dialog is over.                                            *)
Turn(j) ==
  /\ job[j].phase # "ended"
  /\ \A i \in Jobs \ {j} : job'[i] = job[i] /\ link'[i] = link[i]
  /\ UNCHANGED table \/ (Begins(j) /\ job'[j].phase = "ended")
  /\ link' = link \/ job'[j].phase = "ended"

LEMMA AskTurn ==
  ASSUME LoginInv, NEW j \in Jobs, NEW q, NEW a, job[j].phase # "ended", Ask(j, q, a), Stays
  PROVE  Turn(j)
  BY DEF Ask, Stays, oidc, Turn, LoginInv, Types

LEMMA EndTurn ==
  ASSUME LoginInv, NEW j \in Jobs, job[j].phase # "ended", End(j), Stays
  PROVE  Turn(j)
  BY DEF End, Stays, oidc, Turn, LoginInv, Types

LEMMA EndedBy ==
  ASSUME LoginInv, NEW j \in Jobs, End(j)
  PROVE  job'[j].phase = "ended" /\ \A i \in Jobs \ {j} : job'[i] = job[i]
  BY DEF End, NoJob, LoginInv, Types

LEMMA SuccessTurn ==
  ASSUME LoginInv, JobsEnd, NEW j \in Jobs, NEW admin, job[j].phase # "ended", Success(j, admin),
         UNCHANGED <<oidc, restarts>>
  PROVE  Turn(j)
  <1>1. job'[j].phase = "ended" /\ \A i \in Jobs \ {j} : job'[i] = job[i]
    BY EndedBy DEF Success
  <1>2. save[j].phase = "none" /\ j \in Threads
    BY DEF JobsEnd, Threads
  <1>3. save'[j].phase = "set" /\ \A u \in Threads \ {j} : save'[u] = save[u]
    BY <1>2 DEF Success, Bind, NoSave, LoginInv, Types
  <1>4. Begins(j)
    BY <1>2, <1>3 DEF Begins, Success
  <1>. QED
    BY <1>1, <1>4 DEF Turn, oidc

LEMMA ProviderTurn ==
  ASSUME LoginInv, NEW j \in Jobs, NEW a, job[j].phase # "ended", StartProvider(j, a)
  PROVE  Turn(j)
  <1>1. job'[j].phase = "ended" /\ \A i \in Jobs \ {j} : job'[i] = job[i]
    BY DEF StartProvider, NoJob, LoginInv, Types
  <1>2. \A i \in Jobs \ {j} : link'[i] = link[i]
    BY DEF StartProvider, LoginInv, Types
  <1>. QED
    BY <1>1, <1>2 DEF StartProvider, Turn

LEMMA HandlerTurn ==
  ASSUME LoginInv, JobsEnd, NEW j \in Jobs, Handler(j)
  PROVE  Turn(j)
  <1>1. job[j].phase # "ended"
    BY DEF Handler, StartLogin, InputAsn, ChooseAuthMethod, ChooseProvider, ChooseSignatureType, ChooseGpgKey,
           ChooseSshKey, VerifyGpg, AskManualUpload, ReceivePublicKey, VerifySsh, ChooseEmail, VerifyCode,
           StartLogout, Whoami, Handles
  <1>2. CASE StartLogout(j)
    <2>1. job'[j].phase = "ended" /\ \A i \in Jobs \ {j} : job'[i] = job[i]
      BY <1>2, EndedBy DEF StartLogout
    <2>2. save[j].phase = "none" /\ j \in Threads
      BY <1>1 DEF JobsEnd, Threads
    <2>3. UNCHANGED table \/ Begins(j)
      <3>1. CASE UNCHANGED save
        BY <1>2, <3>1 DEF StartLogout, table
      <3>2. CASE save' = [save EXCEPT ![j] = [NoSave EXCEPT !.phase = "pop", !.chat = job[j].chat]]
        BY <1>2, <2>2, <3>2 DEF StartLogout, Begins, NoSave, LoginInv, Types
      <3>. QED
        BY <1>2, <3>1, <3>2 DEF StartLogout
    <2>. QED
      BY <1>1, <1>2, <2>1, <2>3 DEF StartLogout, Turn, oidc
  <1>3. ASSUME NEW q, NEW a, Ask(j, q, a), Stays PROVE Turn(j)
    BY <1>1, <1>3, AskTurn
  <1>4. CASE End(j) /\ Stays
    BY <1>1, <1>4, EndTurn
  <1>5. ASSUME NEW admin, Success(j, admin), UNCHANGED <<oidc, restarts>> PROVE Turn(j)
    BY <1>1, <1>5, SuccessTurn
  <1>6. ASSUME NEW a, StartOidc(j, a) PROVE Turn(j)
    BY <1>1, <1>3, <1>6, ProviderTurn DEF StartOidc
  <1>7. CASE SignatureChallenge(j)
    BY <1>3, <1>4, <1>5, <1>7 DEF SignatureChallenge, StartGpg, StartSsh
  <1>8. CASE StartLogin(j) \/ InputAsn(j) \/ ChooseAuthMethod(j)
    BY <1>3, <1>4, <1>6, <1>7, <1>8 DEF StartLogin, InputAsn, ChooseAuthMethod, AskAgain
  <1>9. CASE ChooseProvider(j)
    BY <1>1, <1>3, <1>4, <1>9, ProviderTurn DEF ChooseProvider, AskAgain
  <1>10. CASE ChooseSignatureType(j) \/ ChooseGpgKey(j) \/ ChooseSshKey(j) \/ AskManualUpload(j)
    BY <1>3, <1>4, <1>10
    DEF ChooseSignatureType, ChooseGpgKey, ChooseSshKey, AskManualUpload, StartGpg, StartSsh, AskAgain
  <1>11. CASE VerifyGpg(j) \/ VerifySsh(j) \/ VerifyCode(j) \/ ReceivePublicKey(j)
    BY <1>3, <1>4, <1>5, <1>11 DEF VerifyGpg, VerifySsh, VerifyCode, ReceivePublicKey, AskAgain
  <1>12. CASE ChooseEmail(j) \/ Whoami(j)
    BY <1>3, <1>4, <1>5, <1>12 DEF ChooseEmail, Whoami
  <1>. QED
    BY <1>2, <1>8, <1>9, <1>10, <1>11, <1>12 DEF Handler

LEMMA SaveStepIsLocal ==
  ASSUME LoginInv, NEW t \in Threads, SaveStep(t)
  PROVE  /\ save[t].phase # "none" /\ \A u \in Threads \ {t} : save'[u] = save[u]
         /\ UNCHANGED <<job, oidc>>
  BY DEF SaveStep, SetAsn, Grant, Pop, Revoke, OpenFile, Dump, Write, LoginInv, Types

(* The kinds of steps there are, as the tables and the file see them.      *)
LEMMA StepKinds ==
  ASSUME LoginInv, JobsEnd, [Next]_vars
  PROVE  \/ \E j \in Jobs : Turn(j)
         \/ UNCHANGED <<table, link>> /\ \A j \in Jobs : job[j].phase = "ended" => job'[j].phase = "ended"
         \/ \E j \in Jobs : (Callback(j) \/ Expire(j)) /\ job[j].phase = "ended"
         \/ \E a \in ASNs \cup {None} : FinishLogin(a)
         \/ \E t \in Threads : SaveStep(t)
         \/ \E S \in SUBSET Jobs : Restart(S)
  <1>1. ASSUME NEW j \in Jobs, Handler(j) PROVE Turn(j)
    BY <1>1, HandlerTurn
  <1>2. ASSUME NEW j \in Jobs, Callback(j) \/ Expire(j) PROVE job[j].phase = "ended"
    BY <1>2 DEF Callback, Expire, LoginInv, JobInv
  <1>3. ASSUME NEW j \in Jobs, NEW c \in Chats, NEW k \in Commands, NEW a \in ASNs \cup {None}, Command(j, c, k, a)
        PROVE  UNCHANGED <<table, link>> /\ \A i \in Jobs : job[i].phase = "ended" => job'[i].phase = "ended"
    BY <1>3 DEF Command, oidc, LoginInv, Types
  <1>4. ASSUME NEW c \in Chats, NEW m \in Messages, Tell(c, m)
        PROVE  UNCHANGED <<table, link>> /\ \A i \in Jobs : job[i].phase = "ended" => job'[i].phase = "ended"
    BY <1>4 DEF Tell, Waits, Questions, oidc, LoginInv, Types
  <1>5. CASE Respond
    BY <1>5 DEF Respond
  <1>6. CASE UNCHANGED vars
    BY <1>6 DEF vars, table
  <1>. QED
    BY <1>1, <1>2, <1>3, <1>4, <1>5, <1>6 DEF Next

LEMMA FinishBegins ==
  ASSUME LoginInv, NEW a \in ASNs \cup {None}, FinishLogin(a)
  PROVE  /\ UNCHANGED table \/ Begins(Web)
         /\ job' = job /\ web \in Jobs /\ link[web] = "taken"
         /\ \A j \in Jobs \ {web} : link'[j] = link[j]
  <1>1. web \in Jobs /\ link[web] = "taken" /\ save[Web].phase = "none" /\ UNCHANGED <<job, db, priv, disk, clashed, raced>>
    BY DEF FinishLogin, LoginInv, Types
  <1>2. \A j \in Jobs \ {web} : link'[j] = link[j]
    BY <1>1 DEF FinishLogin, LoginInv, Types
  <1>3. CASE UNCHANGED save
    BY <1>1, <1>2, <1>3 DEF table
  <1>4. CASE Bind(Web, job[web].chat, a, FALSE)
    <2>1. save'[Web].phase = "set" /\ \A u \in Threads \ {Web} : save'[u] = save[u]
      BY <1>4 DEF Bind, NoSave, Threads, LoginInv, Types
    <2>. QED
      BY <1>1, <1>2, <2>1 DEF Begins
  <1>. QED
    BY <1>3, <1>4 DEF FinishLogin

LEMMA JobsEndKeeps ==
  ASSUME LoginInv, JobsEnd, [Next]_vars
  PROVE  JobsEnd'
  <1>1. ASSUME NEW i \in Jobs, Turn(i) PROVE JobsEnd'
    <2>1. ASSUME NEW j \in Jobs, job'[j].phase # "ended" PROVE save'[j].phase = "none" /\ link'[j] = "none"
      <3>1. job[j].phase # "ended" /\ link'[j] = link[j]
        BY <1>1, <2>1 DEF Turn
      <3>2. save'[j] = save[j]
        BY <1>1, <2>1 DEF Turn, Begins, table, Threads
      <3>. QED
        BY <3>1, <3>2 DEF JobsEnd
    <2>. QED
      BY <2>1 DEF JobsEnd
  <1>2. CASE UNCHANGED <<table, link>> /\ \A j \in Jobs : job[j].phase = "ended" => job'[j].phase = "ended"
    BY <1>2 DEF JobsEnd, table
  <1>3. ASSUME NEW i \in Jobs, Callback(i) \/ Expire(i), job[i].phase = "ended" PROVE JobsEnd'
    BY <1>3 DEF Callback, Expire, JobsEnd, table, LoginInv, Types
  <1>4. ASSUME NEW a \in ASNs \cup {None}, FinishLogin(a) PROVE JobsEnd'
    <2>1. \A j \in Jobs : job[j].phase # "ended" => save'[j] = save[j] /\ link'[j] = link[j]
      BY <1>4, FinishBegins, LoginAssumption DEF Begins, table, JobsEnd, Threads
    <2>. QED
      BY <1>4, <2>1, FinishBegins DEF JobsEnd
  <1>5. ASSUME NEW t \in Threads, SaveStep(t) PROVE JobsEnd'
    BY <1>5, SaveStepIsLocal DEF JobsEnd, Threads, oidc
  <1>6. ASSUME NEW S \in SUBSET Jobs, Restart(S) PROVE JobsEnd'
    <2>1. \A j \in Jobs : save'[j].phase = "none"
      BY <1>6 DEF Restart, Threads, NoSave
    <2>2. \A j \in Jobs : job'[j].phase # "ended" => job[j].phase # "ended"
      BY <1>6 DEF Restart, NoJob, Waits, Questions
    <2>3. \A j \in Jobs : link[j] = "none" => link'[j] = "none"
      BY <1>6 DEF Restart
    <2>. QED
      BY <2>1, <2>2, <2>3 DEF JobsEnd
  <1>. QED
    BY <1>1, <1>2, <1>3, <1>4, <1>5, <1>6, StepKinds

(* A link that was used or has failed stays so.                            *)
LEMMA LinkStays ==
  ASSUME LoginInv, JobsEnd, [Next]_vars, NEW j \in Jobs, link[j] \in {"used", "failed"}
  PROVE  link'[j] = link[j]
  <1>1. ASSUME NEW i \in Jobs, Turn(i) PROVE link'[j] = link[j]
    BY <1>1 DEF Turn, JobsEnd
  <1>2. ASSUME NEW i \in Jobs, Callback(i) \/ Expire(i) PROVE link'[j] = link[j]
    BY <1>2 DEF Callback, Expire, LoginInv, Types
  <1>3. ASSUME NEW a \in ASNs \cup {None}, FinishLogin(a) PROVE link'[j] = link[j]
    BY <1>3, FinishBegins
  <1>4. ASSUME NEW t \in Threads, SaveStep(t) PROVE link'[j] = link[j]
    BY <1>4, SaveStepIsLocal DEF oidc
  <1>5. ASSUME NEW S \in SUBSET Jobs, Restart(S) PROVE link'[j] = link[j]
    BY <1>5 DEF Restart
  <1>. QED
    BY <1>1, <1>2, <1>3, <1>4, <1>5, StepKinds

LEMMA TableSteps ==
  ASSUME LoginInv, JobsEnd, [Next]_vars
  PROVE  \/ UNCHANGED table
         \/ \E t \in Threads : Begins(t) \/ SaveStep(t)
         \/ \E S \in SUBSET Jobs : Restart(S)
  <1>1. ASSUME NEW j \in Jobs, Turn(j) PROVE UNCHANGED table \/ \E t \in Threads : Begins(t)
    BY <1>1 DEF Turn, Threads
  <1>2. ASSUME NEW j \in Jobs, Callback(j) \/ Expire(j) PROVE UNCHANGED table
    BY <1>2 DEF Callback, Expire
  <1>3. ASSUME NEW a \in ASNs \cup {None}, FinishLogin(a)
        PROVE  UNCHANGED table \/ \E t \in Threads : Begins(t)
    BY <1>3, FinishBegins DEF Threads
  <1>4. UNCHANGED <<table, link>> => UNCHANGED table
    BY DEF table
  <1>. QED
    BY <1>1, <1>2, <1>3, <1>4, StepKinds

(* A phase that a thread has entered or left alone changes no other.       *)
LEMMA PhaseSet ==
  ASSUME LoginInv, NEW t \in Threads, NEW ph, save' = [save EXCEPT ![t].phase = ph]
  PROVE  /\ save'[t].phase = ph /\ save'[t].chat = save[t].chat /\ save'[t].snap = save[t].snap
         /\ \A u \in Threads \ {t} : save'[u] = save[u]
  <1>1. save[t] \in SaveType
    BY DEF LoginInv, Types
  <1>2. save'[t] = [save[t] EXCEPT !.phase = ph] /\ \A u \in Threads \ {t} : save'[u] = save[u]
    BY DEF LoginInv, Types
  <1>. QED
    BY <1>1, <1>2 DEF SaveType

LEMMA SaveOver ==
  ASSUME LoginInv, NEW t \in Threads, save' = [save EXCEPT ![t] = NoSave]
  PROVE  save'[t].phase = "none" /\ \A u \in Threads \ {t} : save'[u] = save[u]
  BY DEF NoSave, LoginInv, Types

-----------------------------------------------------------------------------
(* The administrators.                                                     *)

LEMMA AdminBegins ==
  ASSUME LoginInv, AdminInv, NEW t \in Threads, Begins(t)
  PROVE  AdminInv'
  BY DEF Begins, AdminInv, Attended

LEMMA AdminSetAsn ==
  ASSUME LoginInv, AdminInv, NEW t \in Threads, SetAsn(t)
  PROVE  AdminInv'
  <1>1. /\ save[t].phase = "set" /\ save[t].asn # None /\ save[t].chat \in Chats
        /\ UNCHANGED <<priv, disk, raced>>
    BY LoginAssumption DEF SetAsn, LoginInv, SaveInv
  <1>2. PICK ph \in {"grant", "open"} : save' = [save EXCEPT ![t].phase = ph]
    BY DEF SetAsn
  <1>3. /\ save'[t].phase = ph /\ save'[t].chat = save[t].chat
        /\ \A u \in Threads \ {t} : save'[u] = save[u]
    BY <1>2, PhaseSet
  <1>4. \A c \in Chats : db'[c] = IF c = save[t].chat THEN save[t].asn ELSE db[c]
    BY <1>1 DEF SetAsn, LoginInv, Types, Tables
  <1>5. \A u \in Threads : save[u].phase = "grant" => save[u].chat \in Chats
    BY DEF LoginInv, SaveInv
  <1>. QED
    BY <1>1, <1>3, <1>4, <1>5 DEF AdminInv, Attended

LEMMA AdminGrant ==
  ASSUME LoginInv, AdminInv, NEW t \in Threads, Grant(t)
  PROVE  AdminInv'
  <1>1. save[t].phase = "grant" /\ priv' = priv \cup {save[t].chat} /\ UNCHANGED <<db, disk, raced>>
    BY DEF Grant
  <1>2. save'[t].phase = "open" /\ \A u \in Threads \ {t} : save'[u] = save[u]
    BY PhaseSet DEF Grant
  <1>. QED
    BY <1>1, <1>2 DEF AdminInv, Attended

(* A logout that meets a login between its two steps is noted.             *)
LEMMA AdminPop ==
  ASSUME LoginInv, AdminInv, NEW t \in Threads, Pop(t)
  PROVE  AdminInv'
  <1>1. save[t].phase = "pop" /\ save[t].chat \in Chats /\ UNCHANGED <<priv, disk>>
    BY DEF Pop, LoginInv, SaveInv
  <1>2. CASE save' = [save EXCEPT ![t] = NoSave] /\ UNCHANGED <<db, raced>>
    <2>1. save'[t].phase = "none" /\ \A u \in Threads \ {t} : save'[u] = save[u]
      BY <1>2, SaveOver
    <2>. QED
      BY <1>1, <1>2, <2>1 DEF AdminInv, Attended
  <1>3. CASE /\ db' = [db EXCEPT ![save[t].chat] = None] /\ save' = [save EXCEPT ![t].phase = "revoke"]
             /\ raced' = IF \E u \in Threads : save[u].chat = save[t].chat /\ save[u].phase = "grant"
                         THEN raced \cup {save[t].chat} ELSE raced
    <2>1. /\ save'[t].phase = "revoke" /\ save'[t].chat = save[t].chat
          /\ \A u \in Threads \ {t} : save'[u] = save[u]
      BY <1>3, PhaseSet
    <2>2. \A c \in Chats : db'[c] = IF c = save[t].chat THEN None ELSE db[c]
      BY <1>1, <1>3 DEF LoginInv, Types, Tables
    <2>3. \A u \in Threads : save[u].phase = "grant" => save[u].chat \in Chats
      BY DEF LoginInv, SaveInv
    <2>4. raced \subseteq raced'
      BY <1>3
    <2>5. \A u \in Threads : save'[u].phase = "grant" /\ save'[u].chat \notin raced' =>
            save[u].phase = "grant" /\ save'[u] = save[u] /\ save[u].chat # save[t].chat
      BY <1>3, <2>1
    <2>6. \A u \in Threads : save'[u].phase = "grant" /\ save'[u].chat \notin raced' => db'[save'[u].chat] # None
      BY <2>2, <2>3, <2>4, <2>5 DEF AdminInv
    <2>7. ASSUME NEW c \in Chats \ raced'
          PROVE  /\ c \in priv' /\ db'[c] = None => \E u \in Threads : save'[u].phase = "revoke" /\ save'[u].chat = c
                 /\ Attended(disk.snap, c)'
                 /\ \A u \in Threads : save'[u].phase = "write" => Attended(save[u].snap, c)'
      BY <1>1, <2>1, <2>2, <2>4, <2>7 DEF AdminInv, Attended
    <2>. QED
      BY <2>6, <2>7 DEF AdminInv
  <1>. QED
    BY <1>2, <1>3 DEF Pop

LEMMA AdminRevoke ==
  ASSUME LoginInv, AdminInv, NEW t \in Threads, Revoke(t)
  PROVE  AdminInv'
  <1>1. save[t].phase = "revoke" /\ priv' = priv \ {save[t].chat} /\ UNCHANGED <<db, disk, raced>>
    BY DEF Revoke
  <1>2. save'[t].phase = "open" /\ \A u \in Threads \ {t} : save'[u] = save[u]
    BY PhaseSet DEF Revoke
  <1>. QED
    BY <1>1, <1>2 DEF AdminInv, Attended

(* What is written down while a logout is between its steps is noted.      *)
LEMMA AdminSaves ==
  ASSUME LoginInv, AdminInv, NEW t \in Threads, OpenFile(t) \/ Dump(t) \/ Write(t)
  PROVE  AdminInv'
  <1>1. CASE OpenFile(t)
    <2>1. save'[t].phase = "dump" /\ save[t].phase = "open" /\ \A u \in Threads \ {t} : save'[u] = save[u]
      BY <1>1, PhaseSet DEF OpenFile
    <2>2. disk'.snap = disk.snap /\ UNCHANGED <<db, priv, raced>>
      BY <1>1 DEF OpenFile, LoginInv, Types
    <2>. QED
      BY <2>1, <2>2 DEF AdminInv, Attended
  <1>2. CASE Dump(t)
    <2>1. save[t].phase = "dump" /\ UNCHANGED <<db, priv, disk>> /\ raced \subseteq raced'
          /\ \A u \in Threads : save[u].phase = "revoke" => save[u].chat \in raced'
      BY <1>2 DEF Dump
    <2>2. /\ save'[t].phase = "write" /\ save'[t].snap = <<db, priv>>
          /\ \A u \in Threads \ {t} : save'[u] = save[u]
      <3>1. save[t] \in SaveType
        BY DEF LoginInv, Types
      <3>2. /\ save'[t] = [save[t] EXCEPT !.phase = "write", !.snap = <<db, priv>>]
            /\ \A u \in Threads \ {t} : save'[u] = save[u]
        BY <1>2 DEF Dump, LoginInv, Types
      <3>. QED
        BY <3>1, <3>2 DEF SaveType
    <2>3. \A c \in Chats \ raced' : Attended(<<db, priv>>, c)
      BY <2>1 DEF AdminInv, Attended
    <2>. QED
      BY <2>1, <2>2, <2>3 DEF AdminInv, Attended
  <1>3. CASE Write(t)
    <2>1. save[t].phase = "write" /\ disk'.snap = save[t].snap /\ UNCHANGED <<db, priv, raced>>
      BY <1>3 DEF Write
    <2>2. save'[t].phase = "none" /\ \A u \in Threads \ {t} : save'[u] = save[u]
      BY <1>3, SaveOver DEF Write
    <2>. QED
      BY <2>1, <2>2 DEF AdminInv, Attended
  <1>. QED
    BY <1>1, <1>2, <1>3

LEMMA AdminRestart ==
  ASSUME LoginInv, AdminInv, NEW S \in SUBSET Jobs, Restart(S)
  PROVE  AdminInv'
  <1>1. /\ db' = Loaded[1] /\ priv' = Loaded[2] /\ UNCHANGED <<disk, raced>>
        /\ \A t \in Threads : save'[t].phase = "none"
    BY DEF Restart, NoSave
  <1>2. \A c \in Chats \ raced : Attended(Loaded, c)
    BY DEF Loaded, EmptySnap, AdminInv, Attended
  <1>. QED
    BY <1>1, <1>2 DEF AdminInv, Attended

-----------------------------------------------------------------------------
(* The file.                                                               *)

LEMMA FileBegins ==
  ASSUME LoginInv, FileInv, NEW t \in Threads, Begins(t)
  PROVE  FileInv'
  <1>1. \A u \in Threads : save[u].phase \in Even <=> save'[u].phase \in Even
    BY DEF Begins, Even
  <1>2. \A u \in Threads : save'[u].phase \in {"dump", "write"} => save'[u] = save[u]
    BY DEF Begins
  <1>3. UNCHANGED <<db, priv, disk, clashed>>
    BY DEF Begins
  <1>. QED
    BY <1>1, <1>2, <1>3 DEF FileInv, EvenBut, Loaded

(* While a thread has still to open the file nothing is said about it.     *)
LEMMA FileChanges ==
  ASSUME LoginInv, FileInv, NEW t \in Threads, SetAsn(t) \/ Grant(t) \/ Pop(t) \/ Revoke(t)
  PROVE  FileInv'
  <1>1. CASE save' = [save EXCEPT ![t] = NoSave] /\ save[t].phase = "pop" /\ UNCHANGED <<db, priv, disk, clashed>>
    <2>1. save'[t].phase = "none" /\ \A u \in Threads \ {t} : save'[u] = save[u]
      BY <1>1, SaveOver
    <2>2. \A u \in Threads : save[u].phase \in Even <=> save'[u].phase \in Even
      BY <1>1, <2>1 DEF Even
    <2>3. \A u \in Threads : save'[u].phase \in {"dump", "write"} => save'[u] = save[u]
      BY <2>1
    <2>. QED
      BY <1>1, <2>2, <2>3 DEF FileInv, EvenBut, Loaded
  <1>2. ASSUME NEW ph \in {"grant", "revoke", "open"}, save' = [save EXCEPT ![t].phase = ph],
               UNCHANGED <<disk, clashed>>
        PROVE  FileInv'
    <2>1. save'[t].phase = ph /\ \A u \in Threads \ {t} : save'[u] = save[u]
      BY <1>2, PhaseSet
    <2>2. save'[t].phase \notin Even /\ save'[t].phase \notin {"dump", "write"}
      BY <2>1 DEF Even
    <2>. QED
      BY <1>2, <2>1, <2>2 DEF FileInv, EvenBut
  <1>3. CASE SetAsn(t)
    BY <1>2, <1>3 DEF SetAsn
  <1>4. CASE Grant(t) \/ Revoke(t)
    BY <1>2, <1>4 DEF Grant, Revoke
  <1>5. CASE Pop(t)
    BY <1>1, <1>2, <1>5 DEF Pop
  <1>. QED
    BY <1>3, <1>4, <1>5

LEMMA FileSaves ==
  ASSUME LoginInv, FileInv, NEW t \in Threads, OpenFile(t) \/ Dump(t) \/ Write(t)
  PROVE  FileInv'
  <1>1. CASE OpenFile(t)
    <2>1. save'[t].phase = "dump" /\ \A u \in Threads \ {t} : save'[u] = save[u]
      BY <1>1, PhaseSet DEF OpenFile
    <2>2. ~clashed' => ~clashed /\ \A u \in Threads : save[u].phase \notin {"dump", "write"}
      BY <1>1 DEF OpenFile
    <2>. QED
      BY <2>1, <2>2 DEF FileInv, EvenBut, Even
  <1>2. CASE Dump(t)
    <2>1. save[t].phase = "dump" /\ UNCHANGED <<db, priv, disk, clashed>>
      BY <1>2 DEF Dump
    <2>2. /\ save'[t].phase = "write" /\ save'[t].snap = <<db, priv>>
          /\ \A u \in Threads \ {t} : save'[u] = save[u]
      <3>1. save[t] \in SaveType
        BY DEF LoginInv, Types
      <3>2. /\ save'[t] = [save[t] EXCEPT !.phase = "write", !.snap = <<db, priv>>]
            /\ \A u \in Threads \ {t} : save'[u] = save[u]
        BY <1>2 DEF Dump, LoginInv, Types
      <3>. QED
        BY <3>1, <3>2 DEF SaveType
    <2>. QED
      BY <2>1, <2>2 DEF FileInv, EvenBut, Even
  <1>3. CASE Write(t)
    <2>1. save[t].phase = "write" /\ disk' = [torn |-> FALSE, snap |-> save[t].snap] /\ UNCHANGED <<db, priv, clashed>>
      BY <1>3 DEF Write
    <2>2. save'[t].phase = "none" /\ \A u \in Threads \ {t} : save'[u] = save[u]
      BY <1>3, SaveOver DEF Write
    <2>3. Loaded' = save[t].snap
      BY <2>1 DEF Loaded
    <2>4. ~clashed => \A u \in Threads : save'[u].phase \notin {"dump", "write"}
      BY <2>1, <2>2 DEF FileInv
    <2>5. ~clashed /\ (\A u \in Threads : save'[u].phase \in Even) => save[t].snap = <<db, priv>>
      BY <2>1, <2>2 DEF FileInv, EvenBut
    <2>. QED
      BY <2>1, <2>3, <2>4, <2>5 DEF FileInv
  <1>. QED
    BY <1>1, <1>2, <1>3

LEMMA FileRestart ==
  ASSUME LoginInv, NEW S \in SUBSET Jobs, Restart(S)
  PROVE  FileInv'
  <1>1. db' = Loaded[1] /\ priv' = Loaded[2] /\ Loaded' = Loaded
    BY DEF Restart, Loaded
  <1>2. Loaded \in Tables \X SUBSET Chats
    BY EmptyIsRightful DEF Loaded, LoginInv, Types
  <1>3. \A t \in Threads : save'[t].phase = "none"
    BY DEF Restart, NoSave
  <1>4. Loaded' = <<db', priv'>>
    BY <1>1, <1>2
  <1>. QED
    BY <1>3, <1>4 DEF FileInv

-----------------------------------------------------------------------------
LEMMA TableInit == Init => TableInv
  <1>. SUFFICES ASSUME Init PROVE TableInv
    OBVIOUS
  <1>1. LoginInv
    BY InitInv
  <1>2. \A t \in Threads : save[t].phase = "none"
    BY DEF Init, NoSave
  <1>3. JobsEnd
    BY <1>2 DEF Init, JobsEnd, Threads
  <1>4. AdminInv
    BY <1>2 DEF Init, EmptySnap, AdminInv, Attended
  <1>5. FileInv
    BY <1>2 DEF Init, EmptySnap, FileInv, Loaded
  <1>. QED
    BY <1>1, <1>3, <1>4, <1>5 DEF TableInv

LEMMA TableKeeps ==
  ASSUME TableInv, [Next]_vars
  PROVE  TableInv'
  <1>1. LoginInv /\ JobsEnd /\ AdminInv /\ FileInv
    BY DEF TableInv
  <1>2. LoginInv' /\ JobsEnd'
    BY <1>1, StepKeeps, JobsEndKeeps
  <1>3. CASE UNCHANGED table
    <2>1. AdminInv'
      BY <1>1, <1>3 DEF table, AdminInv, Attended
    <2>2. FileInv'
      BY <1>1, <1>3 DEF table, FileInv, EvenBut, Loaded
    <2>. QED
      BY <1>2, <2>1, <2>2 DEF TableInv
  <1>4. ASSUME NEW t \in Threads, Begins(t) PROVE AdminInv' /\ FileInv'
    BY <1>1, <1>4, AdminBegins, FileBegins
  <1>5. ASSUME NEW t \in Threads, SaveStep(t) PROVE AdminInv' /\ FileInv'
    BY <1>1, <1>5, AdminSetAsn, AdminGrant, AdminPop, AdminRevoke, AdminSaves, FileChanges, FileSaves DEF SaveStep
  <1>6. ASSUME NEW S \in SUBSET Jobs, Restart(S) PROVE AdminInv' /\ FileInv'
    BY <1>1, <1>6, AdminRestart, FileRestart
  <1>. QED
    BY <1>1, <1>2, <1>3, <1>4, <1>5, <1>6, TableSteps DEF TableInv

(* The table, the file and the threads that write them fit together.       *)
THEOREM TableInvariant == Spec => []TableInv
  <1>1. TableInv /\ [Next]_vars => TableInv'
    BY TableKeeps
  <1>. QED
    BY <1>1, TableInit, PTL DEF Spec

(* main.py reads db of every privileged chat: it is there, but for a logout*)
(* that met the two steps of persist_login_binding or a save half-way.     *)
THEOREM AdministratorsAreLoggedIn == Spec => []PrivilegedIsLoggedIn
  <1>1. TableInv => PrivilegedIsLoggedIn
    BY DEF TableInv, LoginInv, Types, AdminInv, Quiet, PrivilegedIsLoggedIn
  <1>. QED
    BY <1>1, TableInvariant, PTL

(* user_db.pkl is the table whenever no thread is at work and saves have   *)
(* not overlapped: for any number of threads, logins, logouts and restarts.*)
THEOREM FileIsTheTable == Spec => []SavedWhenQuiet
  <1>1. TableInv => SavedWhenQuiet
    BY DEF TableInv, FileInv, Even, SavedWhenQuiet
  <1>. QED
    BY <1>1, TableInvariant, PTL

(* An external login logs in once (finish_login takes its state out), and  *)
(* not after it failed or expired.                                         *)
THEOREM LinksWorkOnce == Spec => LinkUsedOnce
  <1>1. TableInv /\ [Next]_vars =>
          [\A j \in Jobs : link[j] \in {"used", "failed"} => link'[j] = link[j]]_vars
    BY LinkStays DEF TableInv
  <1>. QED
    BY <1>1, TableInvariant, PTL DEF Spec, LinkUsedOnce

=============================================================================
