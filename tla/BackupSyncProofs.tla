--------------------------- MODULE BackupSyncProofs ---------------------------
(***************************************************************************)
(* Proofs about BackupSync: its types, that the daemons run what /etc      *)
(* says, that human edits win where the code keeps that promise, and that  *)
(* a sync which reports success has made the copies equal.                 *)
(***************************************************************************)
EXTENDS BackupSync, TLAPS

(***************************************************************************)
(* The inductive invariants.                                               *)
(***************************************************************************)
History == Seq([anc : SUBSET Nat, tree : Tree])

Requests == [pc : {"idle", "wg", "bird", "apply"}, op : {"none", "peer", "remove"},
             peer : Peer \union {"none"}, edit : Content]

(* TypeOK as it is inductive: commits is a sequence, and a request that is
   being served is for a peer. *)
TypeInv ==
    /\ TypeOK
    /\ commits \in History
    /\ handler \in Requests
    /\ handler.pc # "idle" => handler.peer \in Peer

(* The interface of p may be down although its file is there while a /remove
   has still to delete the file, a /peer that has written it has still to start
   the interface, or the restore that brought it has. *)
AboutToSettle(p) ==
    /\ handler.peer = p
    /\ \/ handler.op = "remove" /\ handler.pc = "wg"
       \/ handler.op = "peer" /\ handler.pc \in {"bird", "apply"}

ToBeStarted(p) == pc = "start_wg" /\ p \notin before

(* BIRD runs what its directory says unless a handler has still to reload. *)
DaemonInv ==
    /\ handler.pc # "idle" => handler.op \in {"peer", "remove"}
    /\ handler.op = "remove" => handler.edit = Absent
    /\ handler.pc # "apply" => \A p \in Peer : loaded[p] = etc[<<"bird", p>>]
    /\ \A p \in Peer : etc[<<"wg", p>>] # Absent =>
          p \in up \union missed \/ AboutToSettle(p) \/ ToBeStarted(p)

Anc(c)  == commits[c].anc
Tr(c)   == commits[c].tree

(* Every file of "is" is what "was" has or was made locally on top of it. *)
AllOnTop(was, is) == \A f \in File : OnTop(f, was[f], is[f])

(* The relation of ancestry. *)
GraphInv ==
    \A c \in DOMAIN commits : /\ c \in Anc(c) /\ Anc(c) \subseteq 1 .. c
                              /\ \A d \in Anc(c) : Anc(d) \subseteq Anc(c)

(* What separates the checkout from the server. *)
BranchInv ==
    /\ main = head /\ repo = "clean"
    /\ tracking \in Anc(remote)
    /\ online /\ pc \notin {"idle", "fetch"} => remote = tracking
    /\ pc # "merge" \/ ~online =>
         tracking \in Anc(head) /\ Anc(head) \intersect Anc(remote) = Anc(tracking)
    /\ pc = "pull" => ~online
    /\ \A f \in File : Tr(remote)[f] # Tr(tracking)[f] => Tr(remote)[f] # Absent

(* At the merge: b is the commit the two sides have in common. *)
Forked(b) ==
    /\ b \in DOMAIN commits
    /\ Anc(head) \intersect Anc(tracking) = Anc(b)
    /\ AllOnTop(Tr(b), Tr(head)) /\ AllOnTop(Tr(b), etc)
    /\ \A f \in File : Tr(tracking)[f] # Tr(b)[f] => Tr(tracking)[f] # Absent

Ahead(f, is) == OnTop(f, Tr(tracking)[f], is[f])
Settled(f)   == Ahead(f, etc) /\ OnTop(f, work[f], etc[f])

(* What etc, the working tree and HEAD have on top of origin/main. *)
ContentInv ==
    /\ pc \in {"idle", "fetch", "merge", "push", "pull"} =>
         work = Tr(head) /\ AllOnTop(work, etc)
    /\ pc = "merge" => \E b \in DOMAIN commits : Forked(b)
    /\ pc # "merge" => AllOnTop(Tr(tracking), work)
    /\ pc \notin {"merge", "restore_bird", "look_wg", "restore_wg"} => \A f \in File : Settled(f)
    /\ pc \in {"look_wg", "restore_wg"} => \A f \in Bird : Settled(f)
    /\ pc \in {"restore_bird", "look_wg", "restore_wg"} =>
         \A f \in WG : work[f] = Absent => Settled(f)

HumanInv == TypeInv /\ GraphInv /\ BranchInv /\ ContentInv

-----------------------------------------------------------------------------
(***************************************************************************)
(* Files, trees and commits.                                               *)
(***************************************************************************)

(* The two directories have no file in common. *)
LEMMA Directories ==
    /\ File = Bird \union WG /\ Bird \intersect WG = {}
    /\ \A p \in Peer : <<"bird", p>> \in Bird /\ <<"wg", p>> \in WG
    /\ \A f \in Bird : \E p \in Peer : f = <<"bird", p>>
    /\ \A f \in WG : \E p \in Peer : f = <<"wg", p>>
    BY DEF File, Bird, WG

(* Copying files gives the source's, and leaves the other ones alone. *)
LEMMA Copied ==
    ASSUME NEW src \in Tree, NEW dst \in Tree, NEW files
    PROVE  /\ Copy(src, dst, files) \in Tree
           /\ \A f \in File : Copy(src, dst, files)[f] = IF f \in files THEN src[f] ELSE dst[f]
    BY DEF Copy, Tree

(* A merge takes each file from one of the two sides. *)
LEMMA MergeTyped ==
    ASSUME NEW base, NEW other \in Tree, NEW preferred \in Tree
    PROVE  /\ MergeTrees(base, other, preferred) \in Tree
           /\ \A f \in File : MergeTrees(base, other, preferred)[f] =
                                IF preferred[f] = base[f] THEN other[f] ELSE preferred[f]
    BY DEF MergeTrees, Tree

(* The tree of a commit is one. *)
LEMMA TreeOfCommit ==
    ASSUME TypeInv, NEW c \in DOMAIN commits
    PROVE  Tr(c) \in Tree /\ Anc(c) \subseteq 1 .. c /\ c \in Nat /\ c <= Len(commits)
    BY DEF TypeInv, TypeOK, History, Tr, Anc

(* A new commit has the next number and leaves the others as they are. *)
LEMMA Added ==
    ASSUME TypeInv, NEW parents \in SUBSET DOMAIN commits, NEW tree \in Tree,
           AddCommit(parents, tree)
    PROVE  /\ commits' \in History
           /\ NextCommit \notin DOMAIN commits /\ NextCommit \in DOMAIN commits'
           /\ DOMAIN commits' = DOMAIN commits \union {NextCommit}
           /\ \A c \in DOMAIN commits : commits'[c] = commits[c]
           /\ commits'[NextCommit].tree = tree
           /\ commits'[NextCommit].anc =
                {NextCommit} \union UNION {commits[c].anc : c \in parents}
           /\ commits'[NextCommit].anc \subseteq 1 .. NextCommit
<1> DEFINE anc == {NextCommit} \union UNION {commits[c].anc : c \in parents}
           new == [anc |-> anc, tree |-> tree]
<1>1. Len(commits) \in Nat /\ DOMAIN commits = 1 .. Len(commits)
    BY DEF TypeInv, History
<1>2. \A c \in DOMAIN commits : commits[c].anc \subseteq 1 .. c
    BY DEF TypeInv, TypeOK
<1>3. anc \subseteq 1 .. NextCommit
    BY <1>1, <1>2 DEF NextCommit
<1>4. new \in [anc : SUBSET Nat, tree : Tree]
    <2>1. 1 .. NextCommit \subseteq Nat
        BY <1>1 DEF NextCommit
    <2> HIDE DEF anc
    <2>2. anc \in SUBSET Nat
        BY <1>3, <2>1
    <2> QED
        BY <2>2
<1>5. commits' = Append(commits, new)
    BY DEF AddCommit
<1> HIDE DEF new
<1>6. commits' \in History
    <2> DEFINE Commits == [anc : SUBSET Nat, tree : Tree]
    <2>1. commits \in Seq(Commits) /\ new \in Commits
        BY <1>4 DEF TypeInv, History
    <2> HIDE DEF Commits
    <2>2. Append(commits, new) \in Seq(Commits)
        BY ONLY <2>1
    <2> QED
        BY <1>5, <2>2 DEF Commits, History
<1>7. /\ DOMAIN commits' = 1 .. Len(commits) + 1
      /\ \A c \in DOMAIN commits : commits'[c] = commits[c]
      /\ commits'[Len(commits) + 1] = new
    BY <1>1, <1>4, <1>5 DEF TypeInv, History
<1>8. new.anc = anc /\ new.tree = tree
    BY DEF new
<1>9. /\ NextCommit \notin DOMAIN commits /\ NextCommit \in DOMAIN commits'
      /\ DOMAIN commits' = DOMAIN commits \union {NextCommit}
    BY <1>1, <1>7 DEF NextCommit
<1>10. commits'[NextCommit] = new
    BY <1>7 DEF NextCommit
<1> HIDE DEF anc
<1>11. commits'[NextCommit].anc = anc /\ commits'[NextCommit].tree = tree
    BY <1>8, <1>10
<1> QED
    BY <1>3, <1>6, <1>7, <1>9, <1>11 DEF anc

-----------------------------------------------------------------------------
(***************************************************************************)
(* The types.                                                              *)
(***************************************************************************)

(* What the conjuncts about the commits need when no commit is added. *)
CommitsTyped ==
    /\ commits \in History
    /\ \A c \in DOMAIN commits : commits[c].anc \subseteq 1 .. c /\ commits[c].tree \in Tree
    /\ {head, main, tracking, remote} \subseteq DOMAIN commits

(* Adding a commit and moving any of the four names to it keeps them typed. *)
LEMMA AddTyped ==
    ASSUME TypeInv, NEW parents \in SUBSET DOMAIN commits, NEW tree \in Tree,
           AddCommit(parents, tree),
           head' \in DOMAIN commits \union {NextCommit},
           main' \in DOMAIN commits \union {NextCommit},
           tracking' \in DOMAIN commits, remote' \in DOMAIN commits \union {NextCommit}
    PROVE  CommitsTyped'
<1> USE Added
<1>1. \A c \in DOMAIN commits : commits[c].anc \subseteq 1 .. c /\ commits[c].tree \in Tree
    BY DEF TypeInv, TypeOK
<1>2. \A c \in DOMAIN commits' : commits'[c].anc \subseteq 1 .. c /\ commits'[c].tree \in Tree
    BY <1>1
<1>3. /\ head' \in DOMAIN commits' /\ main' \in DOMAIN commits'
      /\ tracking' \in DOMAIN commits' /\ remote' \in DOMAIN commits'
    OBVIOUS
<1> QED
    BY <1>2, <1>3 DEF CommitsTyped

LEMMA TypeInit == Init => TypeInv
<1> SUFFICES ASSUME Init PROVE TypeInv
    OBVIOUS
<1>1. etc \in Tree /\ work \in Tree
    BY BoundAssumption DEF Init, Tree, Content
<1>2. commits \in History /\ DOMAIN commits = {1} /\ commits[1] = [anc |-> {1}, tree |-> etc]
    BY <1>1 DEF Init, History
<1>3. \A c \in DOMAIN commits : commits[c].anc \subseteq 1 .. c /\ commits[c].tree \in Tree
    BY <1>1, <1>2
<1>4. handler \in Requests /\ handler.pc = "idle"
    BY BoundAssumption DEF Init, NoHandler, Requests, Content
<1>5. loaded \in [Peer -> Content] /\ made \subseteq File \X Content \X Content
    BY BoundAssumption DEF Init, Content
<1>6. edits \in 0 .. MaxEdits /\ faults \in 0 .. MaxFaults /\ tries \in 0 .. 2
    BY BoundAssumption DEF Init
<1>7. {head, main, tracking, remote} \subseteq DOMAIN commits
    BY <1>2 DEF Init
<1>8. online \in BOOLEAN /\ disturbed \in BOOLEAN
    BY DEF Init
<1>9. pc \in SyncPCs /\ result \in {"none", "ok", "error"} /\ up \subseteq Peer
      /\ repo \in {"clean", "conflict", "rebasing", "locked"}
    BY DEF Init, SyncPCs
<1>10. before \subseteq Peer /\ missed \subseteq Peer
    BY DEF Init
<1>11. TypeOK
    BY <1>1, <1>3, <1>4, <1>5, <1>6, <1>7, <1>8, <1>9, <1>10 DEF TypeOK
<1> QED
    BY <1>2, <1>4, <1>11 DEF TypeInv

(* A request's edit has a number of its own. *)
LEMMA EditNumber ==
    ASSUME edits \in 0 .. MaxEdits, edits < MaxEdits
    PROVE  edits + 2 \in Content /\ edits + 2 # Absent /\ edits + 1 \in 0 .. MaxEdits
    BY BoundAssumption DEF Content, Absent

LEMMA FaultNumber ==
    ASSUME faults \in 0 .. MaxFaults, NEW fault, MayFail(fault)
    PROVE  faults + 1 \in 0 .. MaxFaults
    BY BoundAssumption DEF MayFail

(* The parts of TypeInv, by what an action disturbs. *)
FilesTyped   == etc \in Tree /\ work \in Tree
SyncTyped    == /\ repo \in {"clean", "conflict", "rebasing", "locked"}
                /\ pc \in SyncPCs /\ tries \in 0 .. 2 /\ online \in BOOLEAN
                /\ result \in {"none", "ok", "error"}
HandlerTyped == handler \in Requests /\ (handler.pc # "idle" => handler.peer \in Peer)
DaemonsTyped == /\ up \subseteq Peer /\ loaded \in [Peer -> Content]
                /\ before \subseteq Peer /\ missed \subseteq Peer
GhostsTyped  == made \subseteq File \X Content \X Content /\ disturbed \in BOOLEAN
BoundsTyped  == edits \in 0 .. MaxEdits /\ faults \in 0 .. MaxFaults

LEMMA TypeParts ==
    /\ TypeInv <=> /\ FilesTyped /\ CommitsTyped /\ SyncTyped /\ HandlerTyped
                   /\ DaemonsTyped /\ GhostsTyped /\ BoundsTyped
    /\ TypeInv' <=> /\ FilesTyped' /\ CommitsTyped' /\ SyncTyped' /\ HandlerTyped'
                    /\ DaemonsTyped' /\ GhostsTyped' /\ BoundsTyped'
<1>1. handler \in Requests => handler.pc \in {"idle", "wg", "bird", "apply"}
    BY DEF Requests
<1>2. (handler \in Requests => handler.pc \in {"idle", "wg", "bird", "apply"})'
    BY DEF Requests
<1> QED
    BY <1>1, <1>2 DEF TypeInv, TypeOK, FilesTyped, CommitsTyped, SyncTyped, HandlerTyped,
       DaemonsTyped, GhostsTyped, BoundsTyped

(* A step of the sync keeps the types. *)
LEMMA SyncKeepsTypes == TypeInv /\ SyncStep => TypeInv'
<1> SUFFICES ASSUME TypeInv, SyncStep PROVE TypeInv'
    OBVIOUS
<1>0. /\ FilesTyped /\ CommitsTyped /\ SyncTyped /\ HandlerTyped
      /\ DaemonsTyped /\ GhostsTyped /\ BoundsTyped
    BY TypeParts
<1>names. head \in DOMAIN commits /\ main \in DOMAIN commits /\ tracking \in DOMAIN commits
          /\ remote \in DOMAIN commits
    BY <1>0 DEF CommitsTyped
<1>trees. Tr(head) \in Tree /\ Tr(tracking) \in Tree /\ Tr(remote) \in Tree
    BY <1>names, TreeOfCommit
<1>handler. (UNCHANGED handler) => HandlerTyped'
    BY <1>0 DEF HandlerTyped
<1>daemons. (UNCHANGED daemons) => DaemonsTyped'
    BY <1>0 DEF DaemonsTyped, daemons
<1>ghosts. (UNCHANGED <<made, disturbed>>) => GhostsTyped'
    BY <1>0 DEF GhostsTyped
<1>files. (UNCHANGED <<etc, work>>) => FilesTyped'
    BY <1>0 DEF FilesTyped
<1>commits. /\ UNCHANGED commits
            /\ head' \in DOMAIN commits /\ main' \in DOMAIN commits
            /\ tracking' \in DOMAIN commits /\ remote' \in DOMAIN commits
            => CommitsTyped'
    BY <1>0 DEF CommitsTyped
<1>bounds. (UNCHANGED edits) /\ (UNCHANGED faults \/ \E fault : MayFail(fault) /\ faults' = faults + 1)
           => BoundsTyped'
    BY <1>0, FaultNumber DEF BoundsTyped
<1> USE <1>names, <1>trees DEF checkout, local, Finish
<1>1. CASE Begin
    <2> USE DEF Begin
    <2>1. FilesTyped' /\ HandlerTyped' /\ DaemonsTyped'
        BY <1>1, <1>files, <1>handler, <1>daemons
    <2>2. CommitsTyped'
        BY <1>1, <1>commits
    <2>3. GhostsTyped'
        BY <1>1, <1>0 DEF GhostsTyped
    <2>4. BoundsTyped'
        BY <1>1, <1>bounds
    <2>6. online' \in BOOLEAN
        BY <1>1, Zenon
    <2>5. SyncTyped'
        BY <1>1, <2>6, <1>0 DEF SyncTyped, SyncPCs
    <2> QED
        BY <2>1, <2>2, <2>3, <2>4, <2>5, TypeParts
<1>2. CASE Fetch
    <2> USE DEF Fetch
    <2>1. FilesTyped' /\ HandlerTyped' /\ DaemonsTyped' /\ GhostsTyped'
        BY <1>2, <1>files, <1>handler, <1>daemons, <1>ghosts
    <2>2. CommitsTyped'
        BY <1>2, <1>commits
    <2>3. BoundsTyped'
        BY <1>2, <1>bounds
    <2>4. SyncTyped'
        BY <1>2, <1>0 DEF SyncTyped, SyncPCs
    <2> QED
        BY <2>1, <2>2, <2>3, <2>4, TypeParts
<1>3. CASE MergeCleanly
    <2> USE DEF MergeCleanly
    <2>1. HandlerTyped' /\ DaemonsTyped' /\ GhostsTyped' /\ BoundsTyped'
        BY <1>3, <1>handler, <1>daemons, <1>ghosts, <1>bounds
    <2>2. Merged \in Tree
        BY MergeTyped DEF Merged, Tr
    <2>3. FilesTyped'
        BY <1>3, <1>0, <2>2 DEF FilesTyped, Tree
    <2>4. SyncTyped'
        BY <1>3, <1>0 DEF SyncTyped, SyncPCs
    <2>5. ASSUME AddCommit({head, tracking}, Merged), MoveHead(NextCommit) PROVE CommitsTyped'
        <3>1. {head, tracking} \in SUBSET DOMAIN commits
            OBVIOUS
        <3>2. head' = NextCommit /\ main' \in {main, NextCommit}
            BY <2>5 DEF MoveHead
        <3> QED
            BY <1>3, <2>2, <2>5, <3>1, <3>2, AddTyped
    <2>6. ASSUME UNCHANGED commits, UNCHANGED <<head, main>> \/ MoveHead(tracking)
          PROVE  CommitsTyped'
        <3>1. head' \in DOMAIN commits /\ main' \in DOMAIN commits
            BY <2>6 DEF MoveHead
        <3>2. tracking' \in DOMAIN commits /\ remote' \in DOMAIN commits
            BY <1>3
        <3> QED
            BY <2>6, <3>1, <3>2, <1>commits
    <2> QED
        BY <1>3, <2>1, <2>3, <2>4, <2>5, <2>6, TypeParts
<1>4. CASE MergeReset
    <2> USE DEF MergeReset
    <2>1. HandlerTyped' /\ DaemonsTyped' /\ GhostsTyped' /\ BoundsTyped'
        BY <1>4, <1>handler, <1>daemons, <1>ghosts, <1>bounds
    <2>2. FilesTyped'
        BY <1>4, <1>0 DEF FilesTyped, Tree, Tr
    <2>3. SyncTyped'
        BY <1>4, <1>0 DEF SyncTyped, SyncPCs
    <2>4. CommitsTyped'
        BY <1>4, <1>commits DEF MoveHead
    <2> QED
        BY <2>1, <2>2, <2>3, <2>4, TypeParts
<1>5. CASE RestoreBird
    <2> USE DEF RestoreBird
    <2>1. HandlerTyped' /\ CommitsTyped' /\ GhostsTyped' /\ BoundsTyped'
        BY <1>5, <1>handler, <1>commits, <1>ghosts, <1>bounds
    <2>2. FilesTyped'
        BY <1>5, <1>0, Copied DEF FilesTyped
    <2>3. SyncTyped'
        BY <1>5, <1>0 DEF SyncTyped, SyncPCs
    <2>4. DaemonsTyped'
        BY <1>5, <1>0, Directories DEF DaemonsTyped, FilesTyped, Tree
    <2> QED
        BY <2>1, <2>2, <2>3, <2>4, TypeParts
<1>6. CASE RestoreWG
    <2> USE DEF RestoreWG
    <2>1. HandlerTyped' /\ CommitsTyped' /\ GhostsTyped' /\ BoundsTyped'
        BY <1>6, <1>handler, <1>commits, <1>ghosts, <1>bounds
    <2>2. FilesTyped'
        BY <1>6, <1>0, Copied DEF FilesTyped
    <2>3. SyncTyped'
        BY <1>6, <1>0 DEF SyncTyped, SyncPCs
    <2>4. DaemonsTyped'
        BY <1>6, <1>0 DEF DaemonsTyped, Restored
    <2> QED
        BY <2>1, <2>2, <2>3, <2>4, TypeParts
<1>12. CASE LookAtWG \/ StartWG
    <2> USE DEF LookAtWG, StartWG
    <2>1. HandlerTyped' /\ CommitsTyped' /\ GhostsTyped' /\ BoundsTyped' /\ FilesTyped'
        BY <1>12, <1>handler, <1>commits, <1>ghosts, <1>bounds, <1>files
    <2>2. SyncTyped'
        BY <1>12, <1>0 DEF SyncTyped, SyncPCs
    <2>3. DaemonsTyped'
        BY <1>12, <1>0 DEF DaemonsTyped
    <2> QED
        BY <2>1, <2>2, <2>3, TypeParts
<1>13. CASE CopyFails
    <2> USE DEF CopyFails
    <2>1. HandlerTyped' /\ CommitsTyped' /\ GhostsTyped' /\ BoundsTyped'
        BY <1>13, <1>handler, <1>commits, <1>ghosts, <1>bounds
    <2>2. PICK copied : \/ etc' = Copy(work, etc, copied) /\ UNCHANGED work
                        \/ work' = Copy(etc, work, copied) /\ UNCHANGED etc
        BY <1>13
    <2>3. FilesTyped'
        BY <1>0, <2>2, Copied DEF FilesTyped
    <2>4. SyncTyped'
        BY <1>13, <1>0 DEF SyncTyped, SyncPCs
    <2>5. DaemonsTyped'
        BY <1>13, <1>0 DEF DaemonsTyped
    <2> QED
        BY <2>1, <2>3, <2>4, <2>5, TypeParts
<1>7. CASE SampleBird \/ SampleWG
    <2> USE DEF SampleBird, SampleWG
    <2>1. HandlerTyped' /\ DaemonsTyped' /\ CommitsTyped' /\ GhostsTyped' /\ BoundsTyped'
        BY <1>7, <1>handler, <1>daemons, <1>commits, <1>ghosts, <1>bounds
    <2>2. FilesTyped'
        BY <1>7, <1>0, Copied DEF FilesTyped
    <2>3. SyncTyped'
        BY <1>7, <1>0 DEF SyncTyped, SyncPCs
    <2> QED
        BY <2>1, <2>2, <2>3, TypeParts
<1>8. CASE Commit
    <2> USE DEF Commit
    <2>1. FilesTyped' /\ HandlerTyped' /\ DaemonsTyped' /\ GhostsTyped' /\ BoundsTyped'
        BY <1>8, <1>files, <1>handler, <1>daemons, <1>ghosts, <1>bounds
    <2>2. SyncTyped'
        BY <1>8, <1>0 DEF SyncTyped, SyncPCs
    <2>3. ASSUME AddCommit({head}, work), MoveHead(NextCommit) PROVE CommitsTyped'
        <3>1. {head} \in SUBSET DOMAIN commits
            OBVIOUS
        <3>2. head' = NextCommit /\ main' \in {main, NextCommit}
            BY <2>3 DEF MoveHead
        <3>3. work \in Tree
            BY <1>0 DEF FilesTyped
        <3> QED
            BY <1>8, <2>3, <3>1, <3>2, <3>3, AddTyped
    <2>4. ASSUME UNCHANGED <<commits, head, main>> PROVE CommitsTyped'
        BY <1>8, <2>4, <1>commits
    <2> QED
        BY <1>8, <2>1, <2>2, <2>3, <2>4, TypeParts
<1>9. CASE GitLocked
    <2> USE DEF GitLocked
    <2>1. FilesTyped' /\ HandlerTyped' /\ DaemonsTyped' /\ CommitsTyped' /\ GhostsTyped' /\ BoundsTyped'
        BY <1>9, <1>files, <1>handler, <1>daemons, <1>commits, <1>ghosts, <1>bounds
    <2>2. SyncTyped'
        BY <1>9, <1>0 DEF SyncTyped, SyncPCs
    <2> QED
        BY <2>1, <2>2, TypeParts
<1>10. CASE Push
    <2> USE DEF Push
    <2>1. FilesTyped' /\ HandlerTyped' /\ DaemonsTyped' /\ GhostsTyped'
        BY <1>10, <1>files, <1>handler, <1>daemons, <1>ghosts
    <2>2. BoundsTyped'
        BY <1>10, <1>bounds
    <2>3. SyncTyped'
        BY <1>10, <1>0 DEF SyncTyped, SyncPCs
    <2>4. CommitsTyped'
        BY <1>10, <1>commits
    <2> QED
        BY <2>1, <2>2, <2>3, <2>4, TypeParts
<1>11. CASE Pull
    <2> USE DEF Pull
    <2>1. HandlerTyped' /\ DaemonsTyped' /\ GhostsTyped' /\ BoundsTyped'
        BY <1>11, <1>handler, <1>daemons, <1>ghosts, <1>bounds
    <2> DEFINE moved == MergeTrees(commits[MergeBase(head, remote)].tree,
                                   commits[head].tree, commits[remote].tree)
    <2>2. moved \in Tree
        BY MergeTyped DEF Tr
    <2>3. \/ /\ Rebase
             /\ work' = moved
             /\ repo' \in {repo, "conflict"}
             /\ \/ UNCHANGED <<commits, main>> /\ head' = remote
                \/ UNCHANGED commits /\ head' = remote /\ main' = remote
                \/ AddCommit({remote}, moved) /\ head' = NextCommit /\ main' = NextCommit
          \/ UNCHANGED <<work, commits, head, main, repo>>
        BY <1>11 DEF Rebase
    <2> HIDE DEF moved
    <2>4. FilesTyped'
        BY <1>11, <1>0, <2>2, <2>3 DEF FilesTyped
    <2>5. SyncTyped'
        BY <1>11, <1>0, <2>3 DEF SyncTyped, SyncPCs, Attempts
    <2>6. remote' = remote /\ tracking' \in {tracking, remote}
        BY <1>11
    <2>7. ASSUME UNCHANGED commits, head' \in {head, remote}, main' \in {main, remote}
          PROVE  CommitsTyped'
        BY <2>6, <2>7, <1>commits
    <2>8. ASSUME AddCommit({remote}, moved), head' = NextCommit, main' = NextCommit
          PROVE  CommitsTyped'
        <3>1. {remote} \in SUBSET DOMAIN commits
            OBVIOUS
        <3> QED
            BY <2>6, <2>2, <2>8, <3>1, AddTyped
    <2> QED
        BY <2>1, <2>3, <2>4, <2>5, <2>7, <2>8, TypeParts
<1> QED
    BY <1>1, <1>2, <1>3, <1>4, <1>5, <1>6, <1>7, <1>8, <1>9, <1>10, <1>11,
       <1>12, <1>13 DEF SyncStep

(* So do the handlers, the humans and a crash. *)
LEMMA OthersKeepTypes ==
    ASSUME TypeInv,
           \/ HandlerStep \/ Crash
           \/ \E f \in File, kind \in HumanEdits : HumanEdit(f, kind)
           \/ \E op \in LocalOps, p \in Peer : StartRequest(op, p)
    PROVE  TypeInv'
<1>0. /\ FilesTyped /\ CommitsTyped /\ SyncTyped /\ HandlerTyped
      /\ DaemonsTyped /\ GhostsTyped /\ BoundsTyped
    BY TypeParts
<1>sync. (UNCHANGED <<repo, pc, tries, online, result>>) => SyncTyped'
    BY <1>0 DEF SyncTyped
<1>commits. (UNCHANGED <<commits, head, main, tracking, remote>>) => CommitsTyped'
    BY <1>0 DEF CommitsTyped
<1>none. NoHandler \in Requests /\ NoHandler.pc = "idle"
    BY BoundAssumption DEF NoHandler, Requests, Content
<1> USE DEF checkout, daemons
<1>1. CASE ChangeWG \/ ChangeBird
    <2> USE DEF ChangeWG, ChangeBird
    <2>1. SyncTyped' /\ CommitsTyped' /\ DaemonsTyped' /\ BoundsTyped'
        BY <1>1, <1>0, <1>sync, <1>commits DEF DaemonsTyped, BoundsTyped
    <2>2. HandlerTyped'
        BY <1>1, <1>0 DEF HandlerTyped, Requests
    <2>3. PICK f \in File : EditLocally(f)
        BY <1>1, <1>0, Directories DEF HandlerTyped
    <2>4. handler.edit \in Content /\ etc[f] \in Content
        BY <1>0, <2>3 DEF HandlerTyped, Requests, FilesTyped, Tree
    <2>5. FilesTyped'
        BY <1>1, <1>0, <2>3, <2>4 DEF FilesTyped, Tree, EditLocally
    <2>6. {<<f, m[2], handler.edit>> : m \in {n \in made : n[1] = f /\ n[3] = etc[f]}}
            \subseteq File \X Content \X Content
        BY <1>0, <2>3, <2>4 DEF GhostsTyped
    <2>7. GhostsTyped'
        BY <1>0, <2>3, <2>4, <2>6 DEF GhostsTyped, EditLocally
    <2> QED
        BY <2>1, <2>2, <2>5, <2>7, TypeParts
<1>2. CASE Apply
    <2> USE DEF Apply
    <2>1. SyncTyped' /\ CommitsTyped' /\ FilesTyped' /\ GhostsTyped' /\ BoundsTyped'
        BY <1>2, <1>0, <1>sync, <1>commits DEF FilesTyped, GhostsTyped, BoundsTyped
    <2>2. HandlerTyped'
        BY <1>2, <1>none DEF HandlerTyped
    <2>3. DaemonsTyped'
        BY <1>2, <1>0, Directories DEF DaemonsTyped, HandlerTyped, FilesTyped, Tree
    <2> QED
        BY <2>1, <2>2, <2>3, TypeParts
<1>3. CASE Crash
    <2> USE DEF Crash
    <2>1. CommitsTyped' /\ FilesTyped' /\ DaemonsTyped' /\ GhostsTyped' /\ BoundsTyped'
        BY <1>3, <1>0, <1>commits, FaultNumber
           DEF FilesTyped, DaemonsTyped, GhostsTyped, BoundsTyped
    <2>2. HandlerTyped' /\ SyncTyped'
        BY <1>3, <1>0, <1>none DEF HandlerTyped, SyncTyped, SyncPCs
    <2> QED
        BY <2>1, <2>2, TypeParts
<1>4. ASSUME NEW f \in File, NEW kind \in HumanEdits, HumanEdit(f, kind) PROVE TypeInv'
    <2> USE <1>4 DEF HumanEdit
    <2> DEFINE tree == [commits[remote].tree EXCEPT ![f] =
                            IF kind = "modify" THEN edits + 2 ELSE Absent]
    <2>1. /\ SyncTyped' /\ HandlerTyped' /\ FilesTyped' /\ DaemonsTyped'
        BY <1>0, <1>sync DEF HandlerTyped, FilesTyped, DaemonsTyped
    <2>2. edits + 2 \in Content /\ edits + 1 \in 0 .. MaxEdits
        BY <1>0, EditNumber DEF BoundsTyped
    <2>3. GhostsTyped' /\ BoundsTyped'
        BY <1>0, <2>2 DEF GhostsTyped, BoundsTyped
    <2>4. remote \in DOMAIN commits /\ head \in DOMAIN commits /\ main \in DOMAIN commits
          /\ tracking \in DOMAIN commits
        BY <1>0 DEF CommitsTyped
    <2>5. Tr(remote) \in Tree
        BY <2>4, TreeOfCommit
    <2>6. tree \in Tree
        BY <2>2, <2>5, BoundAssumption DEF Tree, Tr, Content, Absent
    <2>7. AddCommit({remote}, tree)
        OBVIOUS
    <2> HIDE DEF tree
    <2>8. CommitsTyped'
        <3>1. {remote} \in SUBSET DOMAIN commits /\ remote' = NextCommit
            BY <2>4
        <3>2. head' = head /\ main' = main /\ tracking' = tracking
            OBVIOUS
        <3> QED
            BY <3>1, <3>2, <2>4, <2>6, <2>7, AddTyped
    <2> QED
        BY <2>1, <2>3, <2>8, TypeParts
<1>5. ASSUME NEW op \in LocalOps, NEW p \in Peer, StartRequest(op, p) PROVE TypeInv'
    <2> USE <1>5 DEF StartRequest
    <2>1. SyncTyped' /\ CommitsTyped' /\ FilesTyped'
        BY <1>0, <1>sync, <1>commits DEF FilesTyped
    <2>2. edits + 2 \in Content /\ edits + 1 \in 0 .. MaxEdits /\ Absent \in Content
        BY <1>0, EditNumber, BoundAssumption DEF BoundsTyped, Content, Absent
    <2>3. GhostsTyped' /\ BoundsTyped' /\ DaemonsTyped'
        BY <1>0, <2>2 DEF GhostsTyped, BoundsTyped, DaemonsTyped
    <2>4. HandlerTyped'
        BY <2>2, EditAssumption DEF HandlerTyped, Requests
    <2> QED
        BY <2>1, <2>3, <2>4, TypeParts
<1> QED
    BY <1>1, <1>2, <1>3, <1>4, <1>5 DEF HandlerStep

LEMMA TypeStep == TypeInv /\ [Next]_vars => TypeInv'
<1> SUFFICES ASSUME TypeInv, [Next]_vars PROVE TypeInv'
    OBVIOUS
<1>1. CASE SyncStep
    BY <1>1, SyncKeepsTypes
<1>2. CASE UNCHANGED vars
    BY <1>2 DEF vars, TypeInv, TypeOK, History, Requests
<1> QED
    BY <1>1, <1>2, OthersKeepTypes DEF Next

(* The checkout, the server and the two directories always have the contents
   the code gives them: files with edits' numbers, commits whose ancestors are
   there, branches that point to commits (git and backup.go:510-660). *)
THEOREM BackupTypeCorrect == Spec => []TypeOK
<1>1. TypeInv => TypeOK
    BY DEF TypeInv
<1> QED
    BY <1>1, TypeInit, TypeStep, PTL DEF Spec

-----------------------------------------------------------------------------
(***************************************************************************)
(* The daemons.                                                            *)
(***************************************************************************)

(* Copying a directory copies its files and leaves the other directory alone. *)
LEMMA DirectoryCopied ==
    ASSUME NEW src \in Tree, NEW dst \in Tree, NEW p \in Peer
    PROVE  /\ Copy(src, dst, Bird)[<<"bird", p>>] = src[<<"bird", p>>]
           /\ Copy(src, dst, Bird)[<<"wg", p>>] = dst[<<"wg", p>>]
           /\ Copy(src, dst, WG)[<<"bird", p>>] = dst[<<"bird", p>>]
           /\ Copy(src, dst, WG)[<<"wg", p>>] = src[<<"wg", p>>]
<1>1. /\ <<"bird", p>> \in Bird /\ <<"bird", p>> \notin WG
      /\ <<"wg", p>> \in WG /\ <<"wg", p>> \notin Bird
    BY Directories
<1>2. <<"bird", p>> \in File /\ <<"wg", p>> \in File
    BY <1>1, Directories
<1> QED
    BY <1>1, <1>2, Copied

LEMMA DaemonInit == Init => DaemonInv
<1> SUFFICES ASSUME Init PROVE DaemonInv
    OBVIOUS
<1>1. handler = NoHandler /\ up = Peer
    BY DEF Init
<1>2. \A p \in Peer : loaded[p] = 1 /\ etc[<<"bird", p>>] = 1
    BY Directories DEF Init
<1> QED
    BY <1>1, <1>2 DEF DaemonInv, NoHandler

(* Neither the sync nor a handler leaves a daemon behind; only a crash or an
   error between a write and the reload does. *)
LEMMA DaemonStep ==
    ASSUME "crash" \notin Faults, "disk" \notin Faults, TypeInv, DaemonInv, [Next]_vars
    PROVE  DaemonInv'
<1>0. /\ etc \in Tree /\ work \in Tree /\ loaded \in [Peer -> Content] /\ handler \in Requests
      /\ handler.pc # "idle" => handler.peer \in Peer
    BY DEF TypeInv, TypeOK
<1>kept. ASSUME UNCHANGED <<etc, handler, daemons>>, pc # "start_wg" \/ UNCHANGED pc
         PROVE  DaemonInv'
    BY <1>kept DEF daemons, DaemonInv, AboutToSettle, ToBeStarted
<1> USE DEF checkout, daemons, local
<1>1. CASE \/ Begin \/ Fetch \/ MergeCleanly \/ MergeReset \/ SampleBird \/ SampleWG \/ Commit
           \/ GitLocked \/ Push \/ Pull
    BY <1>1, <1>kept
       DEF Begin, Fetch, MergeCleanly, MergeReset, SampleBird, SampleWG, Commit, GitLocked, Push, Pull
<1>2. CASE RestoreBird
    <2> USE <1>2 DEF RestoreBird
    <2>1. \A p \in Peer : etc'[<<"bird", p>>] = work[<<"bird", p>>] /\ etc'[<<"wg", p>>] = etc[<<"wg", p>>]
        BY <1>0, DirectoryCopied
    <2> QED
        BY <2>1, <1>0 DEF DaemonInv, AboutToSettle, ToBeStarted
<1>3. CASE RestoreWG
    <2> USE <1>3 DEF RestoreWG
    <2>1. \A p \in Peer : /\ etc'[<<"bird", p>>] = etc[<<"bird", p>>]
                          /\ etc'[<<"wg", p>>] = work[<<"wg", p>>]
        BY ONLY <1>0, <1>3, DirectoryCopied DEF RestoreWG
    <2>2. \A p \in Peer : etc'[<<"wg", p>>] # Absent => p \in up' \union missed' \/ ToBeStarted(p)'
        BY <2>1 DEF Restored, ToBeStarted
    <2> QED
        BY <2>1, <2>2 DEF DaemonInv, AboutToSettle
<1>11. CASE LookAtWG
    <2>1. /\ UNCHANGED <<etc, handler, up, loaded, missed>>
          /\ pc = "look_wg" /\ pc' \in {"restore_wg", "sample_bird"}
        BY <1>11 DEF LookAtWG
    <2> QED
        BY <2>1 DEF DaemonInv, AboutToSettle, ToBeStarted
<1>12. CASE StartWG
    <2>1. /\ UNCHANGED <<etc, handler, loaded>> /\ pc' = "sample_bird"
          /\ \A p \in Peer : p \notin before /\ etc[<<"wg", p>>] # Absent => p \in up'
          /\ up \union missed \subseteq up' \union missed'
        BY <1>12 DEF StartWG
    <2> QED
        BY <2>1 DEF DaemonInv, AboutToSettle, ToBeStarted
<1>4. CASE ChangeWG
    <2> USE <1>4 DEF ChangeWG, EditLocally
    <2>1. \A p \in Peer : /\ etc'[<<"bird", p>>] = etc[<<"bird", p>>]
                          /\ p # handler.peer => etc'[<<"wg", p>>] = etc[<<"wg", p>>]
                          /\ p = handler.peer => etc'[<<"wg", p>>] = handler.edit
        BY <1>0, Directories DEF Tree
    <2>2. /\ handler'.pc = "bird" /\ handler'.op = handler.op
          /\ handler'.peer = handler.peer /\ handler'.edit = handler.edit
        BY <1>0 DEF Requests
    <2> QED
        BY <2>1, <2>2 DEF DaemonInv, AboutToSettle, ToBeStarted
<1>5. CASE ChangeBird
    <2> USE <1>5 DEF ChangeBird, EditLocally
    <2>1. \A p \in Peer : etc'[<<"wg", p>>] = etc[<<"wg", p>>]
        BY <1>0, Directories DEF Tree
    <2>2. /\ handler'.pc = "apply" /\ handler'.op = handler.op
          /\ handler'.peer = handler.peer /\ handler'.edit = handler.edit
        BY <1>0 DEF Requests
    <2> QED
        BY <2>1, <2>2 DEF DaemonInv, AboutToSettle, ToBeStarted
<1>6. CASE Apply
    BY <1>6, <1>0 DEF Apply, DaemonInv, AboutToSettle, ToBeStarted, NoHandler
<1>7. ASSUME NEW op \in LocalOps, NEW p \in Peer, StartRequest(op, p) PROVE DaemonInv'
    BY <1>7, <1>0, EditAssumption DEF StartRequest, DaemonInv, AboutToSettle, ToBeStarted
<1>8. CASE \E f \in File, kind \in HumanEdits : HumanEdit(f, kind)
    BY <1>8, <1>kept DEF HumanEdit
<1>9. CASE UNCHANGED vars
    BY <1>9, <1>kept DEF vars
<1>10. ~Crash /\ ~CopyFails
    BY DEF Crash, CopyFails, MayFail
<1> QED
    BY <1>1, <1>2, <1>3, <1>4, <1>5, <1>6, <1>7, <1>8, <1>9, <1>10, <1>11, <1>12
       DEF Next, SyncStep, HandlerStep

(* When nothing is in progress, BIRD runs what /etc says and every configured
   interface is up but for those a /remove took down between a restore's look
   at the interfaces and its copy, however the syncs and the requests before
   were interleaved, offline or cut off (restoreDirsFromRepo and
   bringUpRestoredWG; peer.go and remove.go).  A crash or a copy that fails may
   leave the daemons behind. *)
THEOREM DaemonsAlwaysFollow ==
    Faults \intersect {"crash", "disk"} = {} => (Spec => []DaemonsFollowUnlessMissed)
<1> SUFFICES ASSUME "crash" \notin Faults, "disk" \notin Faults
             PROVE  Spec => []DaemonsFollowUnlessMissed
    OBVIOUS
<1>1. TypeInv /\ DaemonInv => DaemonsFollowUnlessMissed
    BY DEF TypeInv, TypeOK, DaemonInv, DaemonsFollowUnlessMissed, AboutToSettle, ToBeStarted
<1>2. Init => TypeInv /\ DaemonInv
    BY TypeInit, DaemonInit
<1>3. TypeInv /\ DaemonInv /\ [Next]_vars => TypeInv' /\ DaemonInv'
    BY TypeStep, DaemonStep
<1> QED
    BY <1>1, <1>2, <1>3, PTL DEF Spec

-----------------------------------------------------------------------------
(***************************************************************************)
(* Human edits win.                                                        *)
(***************************************************************************)

(* What the promise needs: humans edit between two syncs and delete nothing,
   and git fails only because the server is out of reach for a whole sync. *)
Quiet == ~Racing /\ Faults \subseteq {"offline"} /\ HumanEdits \subseteq {"modify"}

(* HumanInv speaks about these. *)
LEMMA Named ==
    ASSUME TypeInv
    PROVE  /\ head \in DOMAIN commits /\ main \in DOMAIN commits
           /\ tracking \in DOMAIN commits /\ remote \in DOMAIN commits
           /\ \A c \in DOMAIN commits : c \in Nat /\ Tr(c) \in Tree
           /\ etc \in Tree /\ work \in Tree
           /\ handler \in Requests /\ (handler.pc # "idle" => handler.peer \in Peer)
    BY TreeOfCommit DEF TypeInv, TypeOK

(* A new commit descends from its parents' ancestors and from nothing else. *)
LEMMA AddKeepsGraph ==
    ASSUME TypeInv, GraphInv, NEW parents \in SUBSET DOMAIN commits, NEW tree \in Tree,
           AddCommit(parents, tree)
    PROVE  /\ GraphInv'
           /\ NextCommit \in DOMAIN commits'
           /\ \A c \in DOMAIN commits : /\ c \in DOMAIN commits'
                                        /\ commits'[c].anc = Anc(c) /\ commits'[c].tree = Tr(c)
                                        /\ NextCommit \notin Anc(c)
           /\ commits'[NextCommit].tree = tree
           /\ commits'[NextCommit].anc = {NextCommit} \union UNION {Anc(c) : c \in parents}
<1>1. /\ DOMAIN commits' = DOMAIN commits \union {NextCommit}
      /\ \A c \in DOMAIN commits : commits'[c] = commits[c]
      /\ commits'[NextCommit].tree = tree
      /\ commits'[NextCommit].anc = {NextCommit} \union UNION {commits[c].anc : c \in parents}
      /\ commits'[NextCommit].anc \subseteq 1 .. NextCommit
    BY Added
<1>2. \A c \in DOMAIN commits : Anc(c) \subseteq DOMAIN commits /\ NextCommit \notin Anc(c)
    <2>1. DOMAIN commits = 1 .. Len(commits) /\ Len(commits) \in Nat
        BY DEF TypeInv, History
    <2> QED
        BY <2>1, TreeOfCommit DEF NextCommit
<1>3. \A c \in DOMAIN commits : commits'[c].anc = Anc(c) /\ commits'[c].tree = Tr(c)
    BY <1>1 DEF Anc, Tr
<1>4. ASSUME NEW c \in DOMAIN commits' PROVE
        /\ c \in commits'[c].anc /\ commits'[c].anc \subseteq 1 .. c
        /\ \A d \in commits'[c].anc : commits'[d].anc \subseteq commits'[c].anc
    <2>1. CASE c \in DOMAIN commits
        BY <2>1, <1>2, <1>3 DEF GraphInv
    <2>2. CASE c = NextCommit
        <3>1. ASSUME NEW d \in commits'[c].anc PROVE commits'[d].anc \subseteq commits'[c].anc
            <4>1. CASE d = NextCommit
                BY <4>1, <2>2
            <4>2. CASE d # NextCommit
                <5>1. PICK e \in parents : d \in Anc(e)
                    BY <4>2, <2>2, <1>1 DEF Anc
                <5>2. d \in DOMAIN commits /\ Anc(d) \subseteq Anc(e)
                    BY <5>1, <1>2 DEF GraphInv
                <5>3. Anc(e) \subseteq commits'[c].anc
                    BY <2>2, <1>1 DEF Anc
                <5> QED
                    BY <5>2, <5>3, <1>3
            <4> QED
                BY <4>1, <4>2
        <3> QED
            BY <3>1, <2>2, <1>1
    <2> QED
        BY <2>1, <2>2, <1>1
<1>5. GraphInv'
    BY <1>4 DEF GraphInv, Anc
<1> QED
    BY <1>1, <1>2, <1>3, <1>5 DEF Anc

(* The commit two branches have in common is their merge base. *)
LEMMA BaseIsCommon ==
    ASSUME TypeInv, GraphInv, NEW b \in DOMAIN commits,
           NEW c \in DOMAIN commits, NEW d \in DOMAIN commits,
           Anc(c) \intersect Anc(d) = Anc(b)
    PROVE  MergeBase(c, d) = b
<1> DEFINE common == commits[c].anc \intersect commits[d].anc
<1>1. common = Anc(b)
    BY DEF Anc
<1>2. b \in common /\ common \subseteq 1 .. b /\ b \in Nat
    BY <1>1, Named DEF GraphInv
<1>3. \A x \in common : x <= b
    BY <1>2
<1>4. \A x \in common : (\A other \in common : other <= x) => x = b
    BY <1>2, <1>3
<1> HIDE DEF common
<1>5. (CHOOSE x \in common : \A other \in common : other <= x) = b
    BY <1>2, <1>3, <1>4
<1> QED
    BY <1>5 DEF MergeBase, common

(* Whatever /etc was made on top of before an edit, it is after it. *)
LEMMA EditStaysOnTop ==
    ASSUME TypeInv, NEW f \in File, EditLocally(f)
    PROVE  /\ \A g \in File, x \in Content : OnTop(g, x, etc[g]) => OnTop(g, x, etc[g])'
           /\ \A g, x, y : OnTop(g, x, y) => OnTop(g, x, y)'
<1>1. \A g, x, y : OnTop(g, x, y) => OnTop(g, x, y)'
    BY DEF OnTop, EditLocally
<1>2. etc \in Tree
    BY Named
<1>3. ASSUME NEW x \in Content, OnTop(f, x, etc[f]) PROVE <<f, x, handler.edit>> \in made'
    <2>1. CASE x = etc[f]
        BY <2>1 DEF EditLocally
    <2>2. CASE <<f, x, etc[f]>> \in made
        <3> DEFINE earlier == <<f, x, etc[f]>>
        <3>1. earlier \in {n \in made : n[1] = f /\ n[3] = etc[f]} /\ earlier[2] = x
            BY <2>2
        <3> QED
            BY <3>1 DEF EditLocally
    <2> QED
        BY <1>3, <2>1, <2>2 DEF OnTop
<1>4. \A g \in File : etc'[g] = IF g = f THEN handler.edit ELSE etc[g]
    BY <1>2 DEF EditLocally, Tree
<1>5. \A g \in File, x \in Content : OnTop(g, x, etc[g]) => OnTop(g, x, etc[g])'
    BY <1>1, <1>3, <1>4 DEF OnTop
<1> QED
    BY <1>1, <1>5

LEMMA HumanInit == Init => HumanInv
<1> SUFFICES ASSUME Init PROVE HumanInv
    OBVIOUS
<1>1. /\ commits = <<[anc |-> {1}, tree |-> etc]>> /\ DOMAIN commits = {1}
      /\ commits[1].anc = {1} /\ commits[1].tree = etc
    BY DEF Init
<1>2. GraphInv
    BY <1>1 DEF GraphInv, Anc
<1>3. BranchInv
    BY <1>1 DEF Init, BranchInv, Anc, Tr
<1>4. ContentInv
    BY <1>1 DEF Init, ContentInv, AllOnTop, Settled, Ahead, OnTop, Tr
<1> QED
    BY <1>2, <1>3, <1>4, TypeInit DEF HumanInv

(* Up to the merge (fetch, and the choice whether to merge). *)
LEMMA FetchKeepsEdits ==
    ASSUME Quiet, HumanInv, Begin \/ Fetch
    PROVE  GraphInv' /\ BranchInv' /\ ContentInv'
<1> USE DEF Anc, Tr, checkout, local
<1>0. TypeInv /\ GraphInv /\ BranchInv /\ ContentInv
    BY DEF HumanInv
<1>1. /\ head \in DOMAIN commits /\ tracking \in DOMAIN commits /\ remote \in DOMAIN commits
    BY <1>0, Named
<1>2. GraphInv'
    BY <1>0 DEF GraphInv, Begin, Fetch
<1>3. CASE Begin
    <2> USE <1>3 DEF Begin
    <2>1. BranchInv'
        BY <1>0 DEF BranchInv
    <2>2. ContentInv'
        BY <1>0 DEF ContentInv, AllOnTop, Settled, Ahead, OnTop
    <2> QED
        BY <1>2, <2>1, <2>2
<1>4. CASE Fetch /\ ~online
    <2> USE <1>4 DEF Fetch
    <2>1. BranchInv'
        BY <1>0 DEF BranchInv
    <2>2. tracking' = tracking /\ pc = "fetch" /\ UNCHANGED <<commits, head, work, etc, made>>
        OBVIOUS
    <2>3. pc' = "merge" => Forked(tracking)'
        BY <1>0, <1>1, <2>2 DEF BranchInv, ContentInv, Forked, AllOnTop, Settled, Ahead, OnTop
    <2>4. pc' # "merge" => pc' = "sample_bird" /\ head = tracking
        BY <2>2
    <2>5. ContentInv'
        BY <1>0, <1>1, <2>2, <2>3, <2>4 DEF ContentInv, AllOnTop, Settled, Ahead, OnTop
    <2> QED
        BY <1>2, <2>1, <2>5
<1>5. CASE Fetch /\ online
    <2> USE <1>5 DEF Fetch
    <2>1. /\ tracking' = remote /\ pc = "fetch"
          /\ UNCHANGED <<commits, head, main, repo, remote, work, etc, made, online>>
          /\ pc' = IF head = remote THEN "sample_bird" ELSE "merge"
        BY DEF Quiet, MayFail
    <2>2. BranchInv'
        BY <1>0, <1>1, <2>1 DEF BranchInv, GraphInv
    <2>3. pc' = "merge" => \E b \in DOMAIN commits' : Forked(b)'
        <3>1. ASSUME NEW b \in DOMAIN commits, b = tracking PROVE Forked(b)'
            BY <1>0, <1>1, <2>1, <3>1
               DEF BranchInv, ContentInv, Forked, AllOnTop, Settled, Ahead, OnTop
        <3> QED
            BY <1>1, <2>1, <3>1
    <2>4. ContentInv'
        BY <1>0, <1>1, <2>1, <2>3 DEF ContentInv, AllOnTop, Settled, Ahead, OnTop
    <2> QED
        BY <1>2, <2>2, <2>4
<1> QED
    BY <1>3, <1>4, <1>5

(* After the merge and the reset the working tree has what humans made of a
   file, and else what /etc was made on top of. *)
LEMMA MergeKeepsEdits ==
    ASSUME Quiet, HumanInv, MergeCleanly \/ MergeReset
    PROVE  GraphInv' /\ BranchInv' /\ ContentInv'
<1> USE DEF Anc, Tr
<1>0. TypeInv /\ GraphInv /\ BranchInv /\ ContentInv
    BY DEF HumanInv
<1>1. /\ head \in DOMAIN commits /\ tracking \in DOMAIN commits /\ remote \in DOMAIN commits
      /\ Tr(head) \in Tree /\ Tr(tracking) \in Tree /\ work \in Tree
    BY <1>0, Named
<1>2. /\ pc = "merge" /\ pc' = "restore_bird" /\ work = Tr(head) /\ repo = "clean"
      /\ UNCHANGED <<etc, made, tracking, remote, online, repo>>
    BY <1>0 DEF MergeCleanly, MergeReset, ContentInv, BranchInv, local
<1>3. PICK b \in DOMAIN commits : Forked(b)
    BY <1>0, <1>2 DEF ContentInv
<1>4. MergeBase(head, tracking) = b
    BY <1>0, <1>1, <1>3, BaseIsCommon DEF Forked
<1>5. /\ Merged \in Tree
      /\ \A f \in File : Merged[f] = IF Tr(tracking)[f] = Tr(b)[f] THEN Tr(head)[f]
                                     ELSE Tr(tracking)[f]
    <2>1. Merged = MergeTrees(Tr(b), Tr(head), Tr(tracking))
        BY <1>4 DEF Merged
    <2>2. Tr(head) \in Tree /\ Tr(tracking) \in Tree
        BY <1>1
    <2> HIDE DEF Tr
    <2> QED
        BY ONLY <2>1, <2>2, MergeTyped
<1>6. \A f \in File : work'[f] \in {Merged[f], Tr(tracking)[f]}
    <2>1. CASE MergeCleanly
        BY <2>1, <1>1, <1>2, <1>5 DEF MergeCleanly
    <2>2. CASE MergeReset
        BY <2>2, <1>1, <1>2 DEF MergeReset
    <2> QED
        BY <2>1, <2>2
<1>7. /\ GraphInv' /\ tracking \in commits'[head'].anc
      /\ commits'[tracking] = commits[tracking] /\ commits'[remote] = commits[remote]
      /\ commits'[head'].anc \intersect Anc(remote) = Anc(tracking)
      /\ main' = head'
    <2>0. tracking \in Anc(remote) /\ tracking \in Anc(tracking) /\ main = head
          /\ Anc(tracking) \subseteq Anc(remote)
        BY <1>0, <1>1 DEF BranchInv, GraphInv
    <2>1. CASE IsAncestor(tracking, head) /\ UNCHANGED <<commits, head, main>>
        <3>1. Anc(tracking) \subseteq Anc(head) /\ tracking \in Anc(head)
            BY <2>1, <1>0, <1>1 DEF GraphInv, IsAncestor
        <3>2. Anc(head) \intersect Anc(remote) = Anc(tracking)
            BY <1>0, <1>2, <2>0, <3>1 DEF BranchInv
        <3> QED
            BY <2>0, <2>1, <3>1, <3>2, <1>0 DEF GraphInv
    <2>2. CASE MoveHead(tracking) /\ UNCHANGED commits
        <3>1. head' = tracking /\ main' = tracking
            BY <2>2, <1>2 DEF MoveHead
        <3> QED
            BY <2>0, <2>2, <3>1, <1>0 DEF GraphInv
    <2>3. CASE ~IsAncestor(tracking, head) /\ AddCommit({head, tracking}, Merged) /\ MoveHead(NextCommit)
        <3>1. head' = NextCommit /\ main' = NextCommit
            BY <2>3, <1>2 DEF MoveHead
        <3>2. {head, tracking} \in SUBSET DOMAIN commits
            BY <1>1
        <3>3. /\ GraphInv'
              /\ \A c \in DOMAIN commits : commits'[c].anc = Anc(c) /\ NextCommit \notin Anc(c)
              /\ commits'[NextCommit].anc = {NextCommit} \union UNION {Anc(c) : c \in {head, tracking}}
            BY <1>0, <2>3, <3>2, <1>5, AddKeepsGraph
        <3>4. commits'[tracking] = commits[tracking] /\ commits'[remote] = commits[remote]
            BY <1>0, <1>1, <2>3, <3>2, <1>5, Added
        <3>5. remote = tracking
            BY <1>0, <1>2, <2>3 DEF BranchInv, IsAncestor
        <3>6. /\ Anc(tracking) \subseteq commits'[NextCommit].anc
              /\ tracking \in commits'[NextCommit].anc
            BY <3>3, <2>0
        <3>7. commits'[NextCommit].anc \intersect Anc(remote) = Anc(tracking)
            BY <3>5, <3>6
        <3> QED
            BY <3>1, <3>3, <3>4, <3>6, <3>7
    <2> QED
        BY <2>1, <2>2, <2>3 DEF MergeCleanly, MergeReset
<1>8. BranchInv'
    <2>1. tracking' \in Anc(remote)' /\ (online' => remote' = tracking')
        BY <1>0, <1>2, <1>7 DEF BranchInv
    <2>2. tracking' \in Anc(head)' /\ Anc(head)' \intersect Anc(remote)' = Anc(tracking)'
        BY <1>2, <1>7
    <2>3. \A f \in File : Tr(remote)'[f] # Tr(tracking)'[f] => Tr(remote)'[f] # Absent
        BY <1>0, <1>2, <1>7 DEF BranchInv
    <2> QED
        BY <2>1, <2>2, <2>3, <1>2, <1>7 DEF BranchInv
<1>9. ContentInv'
    <2>1. ASSUME NEW f \in File PROVE /\ OnTop(f, Tr(tracking)[f], work'[f])
                                      /\ work'[f] = Absent => /\ OnTop(f, Tr(tracking)[f], etc[f])
                                                              /\ OnTop(f, work'[f], etc[f])
        <3>1. CASE Tr(tracking)[f] # Tr(b)[f]
            BY <3>1, <1>3, <1>5, <1>6 DEF Forked, OnTop
        <3>2. CASE Tr(tracking)[f] = Tr(b)[f]
            <4>1. OnTop(f, Tr(b)[f], Tr(head)[f]) /\ OnTop(f, Tr(b)[f], etc[f])
                BY <1>3 DEF Forked, AllOnTop
            <4>2. OnTop(f, Tr(head)[f], etc[f])
                BY <1>0, <1>2 DEF ContentInv, AllOnTop
            <4>3. work'[f] \in {Tr(head)[f], Tr(tracking)[f]}
                BY <3>2, <1>5, <1>6
            <4> QED
                BY <3>2, <4>1, <4>2, <4>3 DEF OnTop
        <3> QED
            BY <3>1, <3>2
    <2>2. AllOnTop(Tr(tracking), work)'
        BY <2>1, <1>2, <1>7 DEF AllOnTop, OnTop
    <2>3. (\A f \in WG : work[f] = Absent => Settled(f))'
        BY <2>1, <1>2, <1>7, Directories DEF Settled, Ahead, OnTop
    <2> QED
        BY <2>2, <2>3, <1>2 DEF ContentInv
<1> QED
    BY <1>7, <1>8, <1>9

(* The restore gives /etc what the working tree has; an empty wireguard/ is
   skipped, but humans deleted none of its files. *)
LEMMA RestoreKeepsEdits ==
    ASSUME Quiet, HumanInv, RestoreBird \/ LookAtWG \/ RestoreWG \/ StartWG
    PROVE  GraphInv' /\ BranchInv' /\ ContentInv'
<1> USE DEF Anc, Tr, checkout
<1>0. TypeInv /\ GraphInv /\ BranchInv /\ ContentInv
    BY DEF HumanInv
<1>1. etc \in Tree /\ work \in Tree
    BY <1>0, Named
<1>2. /\ UNCHANGED <<work, commits, head, main, tracking, repo, remote, online, made>>
      /\ pc \in {"restore_bird", "look_wg", "restore_wg", "start_wg"}
      /\ pc' \in {"look_wg", "restore_wg", "start_wg", "sample_bird"}
    BY DEF RestoreBird, LookAtWG, RestoreWG, StartWG, local
<1>3. GraphInv' /\ BranchInv'
    BY <1>0, <1>2 DEF GraphInv, BranchInv
<1>4. \A f \in File : OnTop(f, Tr(tracking)[f], work[f])
    BY <1>0, <1>2 DEF ContentInv, AllOnTop
<1>5. ASSUME NEW f \in File, etc'[f] = work[f] PROVE Settled(f)'
    BY <1>2, <1>4, <1>5 DEF Settled, Ahead, OnTop
<1>6. ASSUME NEW f \in File, etc'[f] = etc[f], Settled(f) PROVE Settled(f)'
    BY <1>2, <1>6 DEF Settled, Ahead, OnTop
<1>7. CASE RestoreBird
    <2>1. \A f \in Bird : etc'[f] = work[f]
        BY <1>1, <1>7, Copied, Directories DEF RestoreBird
    <2>2. \A f \in WG : etc'[f] = etc[f]
        BY <1>1, <1>7, Copied, Directories DEF RestoreBird
    <2>3. \A f \in WG : (work[f] = Absent => Settled(f))'
        BY <1>0, <1>2, <1>6, <1>7, <2>2, Directories DEF ContentInv, RestoreBird
    <2>4. \A f \in Bird : Settled(f)'
        BY <1>5, <2>1, Directories
    <2>5. pc' = "look_wg"
        BY <1>7 DEF RestoreBird
    <2>6. AllOnTop(Tr(tracking), work)'
        BY <1>2, <1>4 DEF AllOnTop, OnTop
    <2> QED
        BY <1>3, <2>3, <2>4, <2>5, <2>6 DEF ContentInv
<1>8. CASE LookAtWG
    <2>1. pc = "look_wg" /\ etc' = etc
        BY <1>8 DEF LookAtWG
    <2>2. /\ \A f \in Bird : Settled(f)
          /\ \A f \in WG : work[f] = Absent => Settled(f)
        BY <1>0, <2>1 DEF ContentInv
    <2>3. CASE Present(work, WG)
        <3>1. pc' = "restore_wg"
            BY <1>8, <2>3 DEF LookAtWG
        <3> QED
            BY <1>2, <1>3, <1>4, <1>6, <2>1, <2>2, <3>1, Directories
               DEF ContentInv, AllOnTop, OnTop
    <2>4. CASE ~Present(work, WG)
        <3>1. pc' = "sample_bird"
            BY <1>8, <2>4 DEF LookAtWG
        <3>2. \A f \in File : Settled(f)'
            BY <1>6, <2>1, <2>2, <2>4, Directories DEF Present
        <3> QED
            BY <1>2, <1>3, <1>4, <3>1, <3>2 DEF ContentInv, AllOnTop, OnTop
    <2> QED
        BY <2>3, <2>4
<1>9. CASE RestoreWG
    <2>1. pc = "restore_wg" /\ pc' = "start_wg" /\ etc' = Copy(work, etc, WG)
        BY <1>9 DEF RestoreWG
    <2>2. \A f \in Bird : etc'[f] = etc[f] /\ Settled(f)
        BY <1>0, <1>1, <2>1, Copied, Directories DEF ContentInv
    <2>3. \A f \in WG : etc'[f] = work[f]
        BY <1>1, <2>1, Copied, Directories
    <2>4. \A f \in File : Settled(f)'
        BY <1>5, <1>6, <2>2, <2>3, Directories
    <2>5. AllOnTop(Tr(tracking), work)'
        BY <1>2, <1>4 DEF AllOnTop, OnTop
    <2> QED
        BY <1>3, <2>1, <2>4, <2>5 DEF ContentInv
<1>10. CASE StartWG
    <2>1. pc = "start_wg" /\ pc' = "sample_bird" /\ etc' = etc
        BY <1>10 DEF StartWG
    <2>2. \A f \in File : Settled(f)'
        BY <1>0, <1>6, <2>1 DEF ContentInv
    <2> QED
        BY <1>2, <1>3, <1>4, <2>1, <2>2 DEF ContentInv, AllOnTop, OnTop
<1> QED
    BY <1>7, <1>8, <1>9, <1>10

(* A sample takes what /etc has, which was made on top of origin/main. *)
LEMMA SampleKeepsEdits ==
    ASSUME Quiet, HumanInv, SampleBird \/ SampleWG
    PROVE  GraphInv' /\ BranchInv' /\ ContentInv'
<1> USE DEF Anc, Tr
<1>0. TypeInv /\ GraphInv /\ BranchInv /\ ContentInv
    BY DEF HumanInv
<1>1. etc \in Tree /\ work \in Tree
    BY <1>0, Named
<1>2. /\ UNCHANGED <<etc, commits, head, main, tracking, repo, remote, online, made>>
      /\ pc \in {"sample_bird", "sample_wg"} /\ pc' \in {"sample_wg", "commit"}
    BY DEF SampleBird, SampleWG, local
<1>3. GraphInv' /\ BranchInv'
    BY <1>0, <1>2 DEF GraphInv, BranchInv
<1>4. \A f \in File : work'[f] \in {work[f], etc[f]}
    BY <1>1, Copied DEF SampleBird, SampleWG
<1>5. \A f \in File : OnTop(f, Tr(tracking)[f], work[f]) /\ Settled(f)
    BY <1>0, <1>2 DEF ContentInv, AllOnTop
<1>6. AllOnTop(Tr(tracking), work)' /\ \A f \in File : Settled(f)'
    BY <1>2, <1>4, <1>5 DEF AllOnTop, Settled, Ahead, OnTop
<1> QED
    BY <1>2, <1>3, <1>6 DEF ContentInv

(* A commit brings HEAD to the working tree and further from nobody. *)
LEMMA CommitKeepsEdits ==
    ASSUME Quiet, HumanInv, Commit
    PROVE  GraphInv' /\ BranchInv' /\ ContentInv'
<1> USE DEF Anc, Tr
<1>0. TypeInv /\ GraphInv /\ BranchInv /\ ContentInv
    BY DEF HumanInv
<1>1. /\ head \in DOMAIN commits /\ tracking \in DOMAIN commits /\ remote \in DOMAIN commits
      /\ work \in Tree
    BY <1>0, Named
<1>2. /\ UNCHANGED <<etc, work, made, tracking, remote, online, repo>>
      /\ pc = "commit" /\ pc' \in {"idle", "push"} /\ repo = "clean"
    BY <1>0 DEF Commit, Finish, local, BranchInv
<1>3. /\ GraphInv' /\ main' = head' /\ Tr(head)' = work
      /\ commits'[tracking] = commits[tracking] /\ commits'[remote] = commits[remote]
      /\ tracking \in commits'[head'].anc
      /\ commits'[head'].anc \intersect Anc(remote) = Anc(tracking)
    <2>0. /\ main = head /\ tracking \in Anc(head) /\ Anc(head) \intersect Anc(remote) = Anc(tracking)
        BY <1>0, <1>2 DEF BranchInv
    <2>1. CASE work = commits[head].tree /\ UNCHANGED <<commits, head, main>>
        BY <2>0, <2>1, <1>0 DEF GraphInv
    <2>2. CASE AddCommit({head}, work) /\ MoveHead(NextCommit)
        <3>1. head' = NextCommit /\ main' = NextCommit
            BY <2>2, <1>2 DEF MoveHead
        <3>2. {head} \in SUBSET DOMAIN commits
            BY <1>1
        <3>3. /\ GraphInv' /\ NextCommit \notin Anc(remote)
              /\ commits'[NextCommit].tree = work
              /\ commits'[NextCommit].anc = {NextCommit} \union UNION {Anc(c) : c \in {head}}
            BY <1>0, <1>1, <2>2, <3>2, AddKeepsGraph
        <3>4. commits'[tracking] = commits[tracking] /\ commits'[remote] = commits[remote]
            BY <1>0, <1>1, <2>2, <3>2, Added
        <3>5. commits'[NextCommit].anc = {NextCommit} \union Anc(head)
            BY <3>3
        <3> QED
            BY <2>0, <3>1, <3>3, <3>4, <3>5
    <2> QED
        BY <2>1, <2>2 DEF Commit
<1>4. BranchInv'
    <2>1. tracking' \in Anc(remote)' /\ (online' => remote' = tracking')
        BY <1>0, <1>2, <1>3 DEF BranchInv
    <2>2. tracking' \in Anc(head)' /\ Anc(head)' \intersect Anc(remote)' = Anc(tracking)'
        BY <1>2, <1>3
    <2>3. \A f \in File : Tr(remote)'[f] # Tr(tracking)'[f] => Tr(remote)'[f] # Absent
        BY <1>0, <1>2, <1>3 DEF BranchInv
    <2> QED
        BY <2>1, <2>2, <2>3, <1>2, <1>3 DEF BranchInv
<1>5. ContentInv'
    BY <1>0, <1>2, <1>3 DEF ContentInv, AllOnTop, Settled, Ahead, OnTop
<1> QED
    BY <1>3, <1>4, <1>5

(* A sync that reaches the server has fetched what is there: its push is
   never refused, and it never rebases. *)
LEMMA PushKeepsEdits ==
    ASSUME Quiet, HumanInv, Push \/ Pull
    PROVE  GraphInv' /\ BranchInv' /\ ContentInv'
<1> USE DEF Anc, Tr
<1>0. TypeInv /\ GraphInv /\ BranchInv /\ ContentInv
    BY DEF HumanInv
<1>1. head \in DOMAIN commits /\ tracking \in DOMAIN commits /\ remote \in DOMAIN commits
    BY <1>0, Named
<1>2. /\ UNCHANGED <<etc, work, commits, head, main, repo, online, made>>
      /\ \/ pc' = "idle" /\ remote' = main /\ tracking' = main
         \/ ~online /\ pc' \in {"pull", "push", "idle"} /\ UNCHANGED <<remote, tracking>>
    <2>1. CASE Push
        <3>1. pc = "push" /\ (online => IsAncestor(remote, main))
            BY <2>1, <1>0 DEF Push, BranchInv, IsAncestor
        <3> QED
            BY <2>1, <3>1 DEF Push, Quiet, MayFail, Finish, local
    <2>2. CASE Pull
        BY <2>2, <1>0 DEF Pull, BranchInv, Finish, local
    <2> QED
        BY <2>1, <2>2
<1>3. pc \in {"push", "pull"}
    BY DEF Push, Pull
<1>4. GraphInv'
    BY <1>0, <1>2 DEF GraphInv
<1>5. BranchInv'
    BY <1>0, <1>1, <1>2, <1>3 DEF BranchInv, GraphInv
<1>6. ContentInv'
    BY <1>0, <1>1, <1>2, <1>3 DEF BranchInv, ContentInv, AllOnTop, Settled, Ahead, OnTop
<1> QED
    BY <1>4, <1>5, <1>6

(* A request changes /etc on top of what it finds there, and nothing else that
   the invariant speaks of. *)
LEMMA RequestKeepsEdits ==
    ASSUME HumanInv,
           \/ HandlerStep
           \/ \E op \in LocalOps, p \in Peer : StartRequest(op, p)
           \/ UNCHANGED vars
    PROVE  GraphInv' /\ BranchInv' /\ ContentInv'
<1> USE DEF Anc, Tr, checkout
<1>0. TypeInv /\ GraphInv /\ BranchInv /\ ContentInv
    BY DEF HumanInv
<1>1. UNCHANGED <<work, commits, head, main, tracking, repo, remote, online, pc>>
    BY DEF HandlerStep, ChangeWG, ChangeBird, Apply, StartRequest, vars
<1>2. GraphInv' /\ BranchInv'
    BY <1>0, <1>1 DEF GraphInv, BranchInv
<1>3. /\ \A g \in File, x \in Content : OnTop(g, x, etc[g]) => OnTop(g, x, etc[g])'
      /\ \A g, x, y : OnTop(g, x, y) => OnTop(g, x, y)'
    <2>1. CASE ChangeWG \/ ChangeBird
        <3>1. PICK f \in File : EditLocally(f)
            BY <2>1, <1>0, Named, Directories DEF ChangeWG, ChangeBird
        <3> QED
            BY <3>1, <1>0, EditStaysOnTop
    <2>2. CASE UNCHANGED <<etc, made>>
        BY <2>2 DEF OnTop
    <2> QED
        BY <2>1, <2>2 DEF HandlerStep, Apply, StartRequest, vars
<1>4. /\ head \in DOMAIN commits /\ tracking \in DOMAIN commits /\ work \in Tree
      /\ \A c \in DOMAIN commits : Tr(c) \in Tree
    BY <1>0, Named
<1>5. \A x \in Tree : AllOnTop(x, etc) => \A f \in File : OnTop(f, x[f], etc[f])'
    BY <1>3 DEF AllOnTop, Tree
<1>6. ASSUME NEW f \in File, Settled(f) PROVE Settled(f)'
    <2>1. Tr(tracking)[f] \in Content /\ work[f] \in Content
        BY <1>4 DEF Tree
    <2>2. Tr(tracking)[f]' = Tr(tracking)[f] /\ work[f]' = work[f]
        BY <1>1
    <2> QED
        BY <1>3, <1>6, <2>1, <2>2 DEF Settled, Ahead
<1>7. ASSUME NEW b \in DOMAIN commits, Forked(b) PROVE b \in DOMAIN commits' /\ Forked(b)'
    <2>1. AllOnTop(Tr(b), etc)'
        BY <1>1, <1>4, <1>5, <1>7 DEF Forked, AllOnTop
    <2>2. AllOnTop(Tr(b), Tr(head))'
        BY <1>1, <1>3, <1>7 DEF Forked, AllOnTop
    <2> QED
        BY <1>1, <1>7, <2>1, <2>2 DEF Forked
<1>8. AllOnTop(work, etc) => AllOnTop(work, etc)'
    BY <1>1, <1>4, <1>5 DEF AllOnTop
<1>9. AllOnTop(Tr(tracking), work) => AllOnTop(Tr(tracking), work)'
    BY <1>1, <1>3 DEF AllOnTop
<1>10. (work = Tr(head)) => (work = Tr(head))'
    BY <1>1
<1>11. ContentInv'
    <2> HIDE DEF Anc, Tr
    <2> QED
        BY <1>0, <1>1, <1>6, <1>7, <1>8, <1>9, <1>10, Directories DEF ContentInv
<1> QED
    BY <1>2, <1>11

(* A human changes one file on the server, on top of all that is there. *)
LEMMA EditKeepsEdits ==
    ASSUME Quiet, HumanInv, NEW f \in File, NEW kind \in HumanEdits, HumanEdit(f, kind)
    PROVE  GraphInv' /\ BranchInv' /\ ContentInv'
<1> USE DEF Anc, Tr
<1>0. TypeInv /\ GraphInv /\ BranchInv /\ ContentInv
    BY DEF HumanInv
<1>1. /\ head \in DOMAIN commits /\ tracking \in DOMAIN commits /\ remote \in DOMAIN commits
      /\ Tr(remote) \in Tree
    BY <1>0, Named
<1> DEFINE tree == [Tr(remote) EXCEPT ![f] = edits + 2]
<1>2. /\ kind = "modify" /\ pc = "idle" /\ edits \in 0 .. MaxEdits /\ edits < MaxEdits
      /\ UNCHANGED <<etc, work, head, main, tracking, repo, pc, online, made>>
      /\ remote' = NextCommit /\ AddCommit({remote}, tree)
    BY <1>0 DEF HumanEdit, Quiet, TypeInv, TypeOK
<1>3. tree \in Tree /\ tree[f] # Absent /\ \A g \in File : g # f => tree[g] = Tr(remote)[g]
    BY <1>1, <1>2, EditNumber DEF Tree
<1>4. {remote} \in SUBSET DOMAIN commits
    BY <1>1
<1> HIDE DEF tree
<1>5. /\ GraphInv' /\ NextCommit \notin Anc(head)
      /\ commits'[NextCommit].tree = tree
      /\ commits'[NextCommit].anc = {NextCommit} \union UNION {Anc(c) : c \in {remote}}
      /\ \A c \in DOMAIN commits : c \in DOMAIN commits' /\ commits'[c].anc = Anc(c)
                                   /\ commits'[c].tree = Tr(c)
    BY <1>0, <1>1, <1>2, <1>3, <1>4, AddKeepsGraph
<1>6. commits'[NextCommit].anc = {NextCommit} \union Anc(remote)
    BY <1>5
<1>7. BranchInv'
    <2>1. tracking' \in Anc(remote)'
        BY <1>0, <1>2, <1>6 DEF BranchInv
    <2>2. tracking' \in Anc(head)' /\ Anc(head)' \intersect Anc(remote)' = Anc(tracking)'
        BY <1>0, <1>1, <1>2, <1>5, <1>6 DEF BranchInv
    <2>3. \A g \in File : Tr(remote)'[g] # Tr(tracking)'[g] => Tr(remote)'[g] # Absent
        BY <1>0, <1>1, <1>2, <1>3, <1>5 DEF BranchInv
    <2> QED
        BY <1>0, <1>2, <2>1, <2>2, <2>3 DEF BranchInv
<1>8. ContentInv'
    BY <1>0, <1>1, <1>2, <1>5 DEF ContentInv, AllOnTop, Settled, Ahead, OnTop
<1> QED
    BY <1>5, <1>7, <1>8

LEMMA HumanStep == Quiet /\ HumanInv /\ [Next]_vars => HumanInv'
<1> SUFFICES ASSUME Quiet, HumanInv, [Next]_vars PROVE HumanInv'
    OBVIOUS
<1>1. TypeInv'
    BY TypeStep DEF HumanInv
<1>2. ~GitLocked
    BY DEF GitLocked, HumanInv, BranchInv
<1>3. ~Crash /\ ~CopyFails
    BY DEF Crash, CopyFails, MayFail, Quiet
<1>4. GraphInv' /\ BranchInv' /\ ContentInv'
    BY <1>2, <1>3, FetchKeepsEdits, MergeKeepsEdits, RestoreKeepsEdits, SampleKeepsEdits,
       CommitKeepsEdits, PushKeepsEdits, RequestKeepsEdits, EditKeepsEdits
       DEF Next, SyncStep
<1> QED
    BY <1>1, <1>4 DEF HumanInv

(* A push puts the checkout's HEAD where what it is on top of was. *)
LEMMA PushIsOnTop ==
    ASSUME Quiet, HumanInv, [Next]_vars, pc = "push", pc' = "idle", remote' # remote, NEW f \in File
    PROVE  OnTop(f, commits[remote].tree[f], commits[remote'].tree[f])
<1>1. Push
    BY DEF Next, SyncStep, HandlerStep, Begin, Fetch, MergeCleanly, MergeReset, RestoreBird,
       LookAtWG, RestoreWG, StartWG, CopyFails, SampleBird, SampleWG, Commit, GitLocked, Pull, ChangeWG, ChangeBird, Apply,
       HumanEdit, StartRequest, Crash, vars
<1>2. online /\ remote' = main
    BY <1>1 DEF Push
<1>3. remote = tracking /\ main = head
    BY <1>2 DEF HumanInv, BranchInv
<1>4. work = Tr(head) /\ AllOnTop(Tr(tracking), work)
    BY DEF HumanInv, ContentInv
<1> QED
    BY <1>2, <1>3, <1>4 DEF AllOnTop, Tr

(* config.md:155, "human edits made through the Git web UI always win", for
   any peers, requests and numbers of edits and of syncs that cannot reach the
   server: what a push replaces was there when the edit that replaces it was
   made (backup.go:510-660).  No part of Quiet can be left out. *)
THEOREM HumanEditsAlwaysWin == Quiet => (Spec => HumanEditsWin)
<1> SUFFICES ASSUME Quiet PROVE Spec => HumanEditsWin
    OBVIOUS
<1>1. HumanInv /\ [Next]_vars =>
        [pc = "push" /\ pc' = "idle" /\ remote' # remote =>
           \A f \in File : OnTop(f, commits[remote].tree[f], commits[remote'].tree[f])]_vars
    BY PushIsOnTop
<1>2. HumanInv /\ [Next]_vars => HumanInv'
    BY HumanStep
<1> QED
    BY <1>1, <1>2, HumanInit, PTL DEF Spec, HumanEditsWin

-----------------------------------------------------------------------------
(***************************************************************************)
(* A sync that reports success has made the three copies equal.  Unlike    *)
(* Quiet this lets humans edit at any time and delete, the agent crash and *)
(* git be killed; only a sync that reaches the server must reach it with   *)
(* every command.                                                          *)
(***************************************************************************)

(* A stopped rebase leaves main behind on a branch the server does not
   accept; a lock stops a sync before it pushes. *)
HeadInv ==
    /\ repo = "clean" => main = head
    /\ repo \in {"conflict", "rebasing"} => remote \notin Anc(main)
    /\ repo = "locked" => pc \notin {"push", "pull"}

(* How far a sync has come that nobody has disturbed. *)
ReachInv ==
    ~disturbed /\ online =>
        /\ pc \notin {"idle", "fetch"} => remote = tracking
        /\ pc \notin {"idle", "fetch", "merge"} => tracking \in Anc(head)
        /\ pc = "sample_wg" => \A f \in Bird : work[f] = etc[f]
        /\ pc \in {"commit", "push", "pull"} => work = etc
        /\ pc \in {"push", "pull"} => Tr(head) = etc

SyncedInv == TypeInv /\ GraphInv /\ HeadInv /\ ReachInv

LEMMA SyncedInit == Init => SyncedInv
<1> SUFFICES ASSUME Init PROVE SyncedInv
    OBVIOUS
<1>1. GraphInv
    BY HumanInit DEF HumanInv
<1>2. HeadInv /\ ReachInv
    BY DEF Init, HeadInv, ReachInv
<1> QED
    BY <1>1, <1>2, TypeInit DEF SyncedInv

(* Whatever happens, commits stay and ancestry is what it should be. *)
LEMMA HistoryGrows ==
    ASSUME TypeInv, GraphInv, [Next]_vars
    PROVE  /\ GraphInv'
           /\ \A c \in DOMAIN commits : /\ c \in DOMAIN commits'
                                        /\ commits'[c].anc = Anc(c) /\ commits'[c].tree = Tr(c)
<1> DEFINE Adds == \E parents \in SUBSET DOMAIN commits, tree \in Tree : AddCommit(parents, tree)
<1>1. /\ head \in DOMAIN commits /\ tracking \in DOMAIN commits /\ remote \in DOMAIN commits
      /\ Tr(head) \in Tree /\ Tr(tracking) \in Tree /\ Tr(remote) \in Tree /\ work \in Tree
    BY Named
<1>2. {head} \in SUBSET DOMAIN commits /\ {remote} \in SUBSET DOMAIN commits
      /\ {head, tracking} \in SUBSET DOMAIN commits
    BY <1>1
<1>3. ASSUME MergeCleanly PROVE UNCHANGED commits \/ Adds
    <2>1. Merged \in Tree
        BY <1>1, MergeTyped DEF Merged, Tr
    <2> QED
        BY <1>2, <1>3, <2>1 DEF MergeCleanly
<1>4. ASSUME Commit PROVE UNCHANGED commits \/ Adds
    BY <1>1, <1>2, <1>4 DEF Commit
<1>5. ASSUME Pull PROVE UNCHANGED commits \/ Adds
    <2>1. MergeTrees(commits[MergeBase(head, remote)].tree, commits[head].tree, commits[remote].tree)
              \in Tree
        BY <1>1, MergeTyped DEF Tr
    <2> QED
        BY <1>2, <1>5, <2>1, Zenon DEF Pull, Rebase
<1>6. ASSUME NEW f \in File, NEW kind \in HumanEdits, HumanEdit(f, kind)
      PROVE  Adds
    <2>1. [commits[remote].tree EXCEPT ![f] = IF kind = "modify" THEN edits + 2 ELSE Absent] \in Tree
        <3>1. edits \in 0 .. MaxEdits /\ edits < MaxEdits
            BY <1>6 DEF HumanEdit, TypeInv, TypeOK
        <3>2. edits + 2 \in Content /\ Absent \in Content
            BY <3>1, BoundAssumption DEF Content, Absent
        <3> QED
            BY <1>1, <3>2 DEF Tree, Tr
    <2> QED
        BY <1>2, <1>6, <2>1 DEF HumanEdit
<1>7. CASE UNCHANGED commits
    BY <1>7 DEF GraphInv, Anc, Tr
<1>8. CASE Adds
    BY <1>8, AddKeepsGraph
<1>9. ASSUME ~UNCHANGED commits
      PROVE  \/ MergeCleanly \/ Commit \/ Pull
             \/ \E f \in File, kind \in HumanEdits : HumanEdit(f, kind)
    BY <1>9 DEF Next, SyncStep, HandlerStep, Begin, Fetch, MergeReset, RestoreBird,
       LookAtWG, RestoreWG, StartWG, CopyFails, SampleBird, SampleWG, GitLocked, Push,
       ChangeWG, ChangeBird, Apply, StartRequest, Crash, vars, checkout
<1> HIDE DEF Adds
<1> QED
    BY <1>3, <1>4, <1>5, <1>6, <1>7, <1>8, <1>9

(* Fetch: an undisturbed sync that reaches the server knows what is there. *)
LEMMA FetchReaches ==
    ASSUME "flaky" \notin Faults, SyncedInv, Begin \/ Fetch
    PROVE  HeadInv' /\ ReachInv'
<1> USE DEF Anc, Tr
<1>1. TypeInv /\ GraphInv /\ HeadInv /\ ReachInv /\ head \in DOMAIN commits
    BY Named DEF SyncedInv
<1>2. UNCHANGED <<commits, head, main, repo, remote, etc, work>>
    BY DEF Begin, Fetch, checkout
<1>3. pc' \in {"fetch", "merge", "sample_bird"}
    BY DEF Begin, Fetch
<1>4. HeadInv'
    BY <1>1, <1>2, <1>3 DEF HeadInv
<1>5. CASE Begin
    <2>1. pc' = "fetch" /\ ~disturbed'
        BY <1>5 DEF Begin
    <2> QED
        BY <1>4, <2>1 DEF ReachInv
<1>6. CASE Fetch
    <2>1. online' => tracking' = remote'
        BY <1>2, <1>6 DEF Fetch, MayFail
    <2>2. pc' = "sample_bird" => tracking' = head
        BY <1>6 DEF Fetch
    <2>3. head \in commits[head].anc
        BY <1>1 DEF GraphInv
    <2>4. pc' = "sample_bird" => tracking' \in commits'[head'].anc
        BY <1>2, <2>2, <2>3
    <2>5. pc' \in {"merge", "sample_bird"}
        BY <1>6 DEF Fetch
    <2> QED
        BY <1>2, <1>4, <2>1, <2>4, <2>5 DEF ReachInv
<1> QED
    BY <1>4, <1>5, <1>6

(* The merge, and the reset where it stops, take in what was fetched; a
   stopped rebase stays stopped, and main where it is. *)
LEMMA MergeReaches ==
    ASSUME SyncedInv, GraphInv', MergeCleanly \/ MergeReset,
           \A c \in DOMAIN commits : commits'[c].anc = Anc(c) /\ commits'[c].tree = Tr(c)
    PROVE  HeadInv' /\ ReachInv'
<1> USE DEF Anc, Tr
<1>1. /\ TypeInv /\ GraphInv /\ HeadInv /\ ReachInv
      /\ head \in DOMAIN commits /\ main \in DOMAIN commits
      /\ tracking \in DOMAIN commits /\ remote \in DOMAIN commits
    BY Named DEF SyncedInv
<1>2. /\ pc = "merge" /\ pc' = "restore_bird" /\ repo # "locked"
      /\ UNCHANGED <<tracking, remote, online, disturbed>>
    BY DEF MergeCleanly, MergeReset
<1>3. \/ UNCHANGED <<repo, head, main>> \/ MoveHead(head')
    BY DEF MergeCleanly, MergeReset, MoveHead
<1>4. repo' = repo \/ (repo = "conflict" /\ repo' = "rebasing")
    BY DEF MergeCleanly, MergeReset
<1>5. HeadInv'
    <2>1. repo' = "clean" => main' = head'
        BY <1>1, <1>3, <1>4 DEF HeadInv, MoveHead
    <2>2. repo' \in {"conflict", "rebasing"} => main' = main /\ remote \notin Anc(main)
        BY <1>1, <1>3, <1>4 DEF HeadInv, MoveHead
    <2> QED
        BY <1>1, <1>2, <1>4, <2>1, <2>2 DEF HeadInv
<1>6. tracking \in commits'[head'].anc
    <2>1. CASE UNCHANGED <<commits, head>> /\ IsAncestor(tracking, head)
        BY <2>1 DEF IsAncestor
    <2>2. CASE head' = tracking
        BY <1>1, <2>2 DEF GraphInv
    <2>3. CASE AddCommit({head, tracking}, Merged) /\ head' = NextCommit
        <3>1. {head, tracking} \in SUBSET DOMAIN commits /\ Merged \in Tree
            BY <1>1, Named, MergeTyped DEF Merged
        <3>2. commits'[NextCommit].anc =
                  {NextCommit} \union UNION {commits[c].anc : c \in {head, tracking}}
            BY <1>1, <2>3, <3>1, Added
        <3>3. tracking \in commits[tracking].anc
            BY <1>1 DEF GraphInv
        <3> QED
            BY <2>3, <3>2, <3>3
    <2> QED
        BY <2>1, <2>2, <2>3 DEF MergeCleanly, MergeReset, MoveHead
<1> QED
    BY <1>1, <1>2, <1>5, <1>6 DEF ReachInv

(* Restore and sample bring working tree and /etc together. *)
LEMMA SampleReaches ==
    ASSUME SyncedInv,
           RestoreBird \/ LookAtWG \/ RestoreWG \/ StartWG \/ SampleBird \/ SampleWG
    PROVE  HeadInv' /\ ReachInv'
<1> USE DEF Anc, Tr
<1>1. TypeInv /\ GraphInv /\ HeadInv /\ ReachInv /\ etc \in Tree /\ work \in Tree
    BY Named DEF SyncedInv
<1>2. /\ UNCHANGED <<commits, head, main, tracking, repo, remote, online, disturbed>>
      /\ pc \in {"restore_bird", "look_wg", "restore_wg", "start_wg", "sample_bird", "sample_wg"}
      /\ pc' \in {"look_wg", "restore_wg", "start_wg", "sample_bird", "sample_wg", "commit"}
    BY DEF RestoreBird, LookAtWG, RestoreWG, StartWG, SampleBird, SampleWG, checkout
<1>3. HeadInv'
    BY <1>1, <1>2 DEF HeadInv
<1>4. SampleBird => \A f \in Bird : work'[f] = etc'[f]
    BY <1>1, Copied, Directories DEF SampleBird
<1>5. SampleWG /\ ~disturbed /\ online => work' = etc'
    <2> SUFFICES ASSUME SampleWG, ~disturbed, online PROVE work' = etc'
        OBVIOUS
    <2>1. \A f \in Bird : work[f] = etc[f]
        BY <1>1 DEF SampleWG, ReachInv
    <2>2. work' = Copy(etc, work, WG) /\ etc' = etc
        BY DEF SampleWG
    <2>3. work' \in Tree /\ \A f \in File : work'[f] = IF f \in WG THEN etc[f] ELSE work[f]
        BY <1>1, <2>2, Copied
    <2>4. \A f \in File : work'[f] = etc[f]
        BY <2>1, <2>3, Directories
    <2> QED
        BY <1>1, <2>2, <2>3, <2>4 DEF Tree
<1>6. pc' = "sample_wg" => SampleBird
    BY DEF RestoreBird, LookAtWG, RestoreWG, StartWG, SampleBird, SampleWG
<1>7. pc' = "commit" => SampleWG
    BY DEF RestoreBird, LookAtWG, RestoreWG, StartWG, SampleBird, SampleWG
<1> QED
    BY <1>1, <1>2, <1>3, <1>4, <1>5, <1>6, <1>7 DEF ReachInv

(* HEAD becomes what was sampled. *)
LEMMA CommitReaches ==
    ASSUME SyncedInv, GraphInv', Commit,
           \A c \in DOMAIN commits : commits'[c].anc = Anc(c) /\ commits'[c].tree = Tr(c)
    PROVE  /\ HeadInv' /\ ReachInv'
           /\ Tr(head)' = work /\ (head' = tracking => head' = head)
<1> USE DEF Anc, Tr
<1>1. /\ TypeInv /\ GraphInv /\ HeadInv /\ ReachInv /\ work \in Tree
      /\ head \in DOMAIN commits /\ main \in DOMAIN commits
      /\ tracking \in DOMAIN commits /\ remote \in DOMAIN commits
    BY Named DEF SyncedInv
<1>2. /\ pc = "commit" /\ pc' \in {"idle", "push"} /\ repo # "locked"
      /\ UNCHANGED <<etc, work, tracking, remote, online, disturbed>>
    BY DEF Commit, Finish
<1>3. repo' = IF repo = "conflict" THEN "rebasing" ELSE repo
    BY DEF Commit
<1>4. /\ Tr(head)' = work /\ (head' = tracking => head' = head)
      /\ Anc(head) \subseteq Anc(head)'
      /\ UNCHANGED <<head, main>> \/ MoveHead(head')
    <2>1. CASE work = commits[head].tree /\ UNCHANGED <<commits, head, main>>
        BY <2>1
    <2>2. CASE AddCommit({head}, work) /\ MoveHead(NextCommit)
        <3>1. head' = NextCommit
            BY <2>2 DEF MoveHead
        <3>2. {head} \in SUBSET DOMAIN commits
            BY <1>1
        <3>3. /\ NextCommit \notin DOMAIN commits /\ commits'[NextCommit].tree = work
              /\ commits'[NextCommit].anc = {NextCommit} \union UNION {commits[c].anc : c \in {head}}
            BY <1>1, <2>2, <3>2, Added
        <3> QED
            BY <1>1, <2>2, <3>1, <3>3
    <2> QED
        BY <2>1, <2>2 DEF Commit
<1>5. HeadInv'
    <2>1. repo' = "clean" => main' = head'
        BY <1>1, <1>3, <1>4 DEF HeadInv, MoveHead
    <2>2. repo' \in {"conflict", "rebasing"} => main' = main /\ remote \notin Anc(main)
        BY <1>1, <1>3, <1>4 DEF HeadInv, MoveHead
    <2> QED
        BY <1>1, <1>2, <1>3, <2>1, <2>2 DEF HeadInv
<1>6. ReachInv'
    BY <1>1, <1>2, <1>4 DEF ReachInv
<1> QED
    BY <1>4, <1>5, <1>6

(* A push that is accepted pushes HEAD; a sync that knows what the server
   has is never refused for it, and does not rebase. *)
LEMMA PushReaches ==
    ASSUME SyncedInv, GraphInv', Push \/ Pull,
           \A c \in DOMAIN commits : commits'[c].anc = Anc(c) /\ commits'[c].tree = Tr(c)
    PROVE  /\ HeadInv' /\ ReachInv'
           /\ Push /\ pc' = "idle" => remote' = head
<1> USE DEF Anc, Tr
<1>1. /\ TypeInv /\ GraphInv /\ HeadInv /\ ReachInv
      /\ head \in DOMAIN commits /\ main \in DOMAIN commits /\ remote \in DOMAIN commits
    BY Named DEF SyncedInv
<1>2. pc \in {"push", "pull"} /\ repo \in {"clean", "conflict", "rebasing"}
    BY <1>1 DEF Push, Pull, HeadInv, TypeInv, TypeOK
<1>3. CASE Push
    <2>1. /\ UNCHANGED <<etc, work, commits, head, main, repo, online, disturbed>>
          /\ \/ pc' = "idle" /\ remote' = main /\ tracking' = main /\ IsAncestor(remote, main)
             \/ pc' = "pull" /\ UNCHANGED <<remote, tracking>>
        BY <1>3 DEF Push, Finish
    <2>2. IsAncestor(remote, main) => repo = "clean" /\ main = head
        BY <1>1, <1>2 DEF HeadInv, IsAncestor
    <2> QED
        BY <1>1, <1>2, <2>1, <2>2 DEF HeadInv, ReachInv
<1>4. CASE Pull
    <2>1. /\ UNCHANGED <<etc, remote, online, disturbed>> /\ pc' \in {"idle", "push"}
          /\ online => tracking' = remote
        BY <1>4 DEF Pull, Finish
    <2>2. CASE UNCHANGED <<work, commits, head, main, repo>>
        <3>1. HeadInv'
            BY <1>1, <1>2, <2>1, <2>2 DEF HeadInv
        <3>2. ~Push
            BY <1>4 DEF Push, Pull
        <3> QED
            BY <1>1, <1>4, <2>1, <2>2, <3>1, <3>2 DEF Pull, ReachInv
    <2>3. CASE online /\ repo = "clean" /\ ~IsAncestor(remote, head) /\ Rebase
        <3>1. disturbed
            BY <1>1, <1>2, <2>3 DEF ReachInv, IsAncestor
        <3>2. \/ repo' = "conflict" /\ main' = main
              \/ repo' = "clean" /\ main' = head'
            BY <2>3, Zenon DEF Rebase
        <3>3. remote \notin Anc(main)
            BY <1>1, <2>3 DEF HeadInv, IsAncestor
        <3>4. commits'[main].anc = Anc(main)
            BY <1>1
        <3>5. ~Push
            BY <1>4 DEF Push, Pull
        <3>6. disturbed'
            BY <2>1, <3>1
        <3> QED
            BY <1>4, <2>1, <3>1, <3>2, <3>3, <3>4, <3>5, <3>6 DEF HeadInv, ReachInv
    <2> QED
        BY <1>4, <2>2, <2>3 DEF Pull
<1> QED
    BY <1>3, <1>4

(* A human's commit is on no branch of the checkout; whoever edits disturbs
   the sync; a crash ends it. *)
LEMMA OthersReach ==
    ASSUME SyncedInv, GraphInv',
           \A c \in DOMAIN commits : commits'[c].anc = Anc(c) /\ commits'[c].tree = Tr(c),
           \/ GitLocked \/ CopyFails \/ HandlerStep \/ Crash \/ UNCHANGED vars
           \/ \E f \in File, kind \in HumanEdits : HumanEdit(f, kind)
           \/ \E op \in LocalOps, p \in Peer : StartRequest(op, p)
    PROVE  HeadInv' /\ ReachInv'
<1> USE DEF Anc, Tr
<1>1. /\ TypeInv /\ GraphInv /\ HeadInv /\ ReachInv
      /\ head \in DOMAIN commits /\ main \in DOMAIN commits /\ remote \in DOMAIN commits
    BY Named DEF SyncedInv
<1>2. CASE GitLocked
    BY <1>1, <1>2 DEF GitLocked, Finish, checkout, HeadInv, ReachInv
<1>3. CASE Crash \/ CopyFails
    BY <1>1, <1>3 DEF Crash, CopyFails, Finish, HeadInv, ReachInv
<1>4. CASE UNCHANGED vars
    BY <1>1, <1>4 DEF vars, HeadInv, ReachInv
<1>5. CASE Apply
    BY <1>1, <1>5 DEF Apply, checkout, HeadInv, ReachInv
<1>6. ASSUME disturbed', UNCHANGED <<checkout, remote, pc>>
      PROVE  HeadInv' /\ ReachInv'
    BY <1>1, <1>6 DEF checkout, HeadInv, ReachInv
<1>7. CASE ChangeWG \/ ChangeBird
    BY <1>6, <1>7 DEF ChangeWG, ChangeBird, EditLocally
<1>8. ASSUME NEW op \in LocalOps, NEW p \in Peer, StartRequest(op, p)
      PROVE  HeadInv' /\ ReachInv'
    BY <1>6, <1>8 DEF StartRequest
<1>9. ASSUME NEW f \in File, NEW kind \in HumanEdits, HumanEdit(f, kind)
      PROVE  HeadInv' /\ ReachInv'
    <2>1. disturbed' /\ remote' = NextCommit /\ UNCHANGED <<head, main, repo, pc>>
        BY <1>9 DEF HumanEdit
    <2>2. NextCommit \notin Anc(main)
        <3>1. main \in Nat /\ Anc(main) \subseteq 1 .. main /\ main <= Len(commits)
              /\ Len(commits) \in Nat
            BY <1>1, TreeOfCommit DEF TypeInv, History
        <3> QED
            BY <3>1 DEF NextCommit
    <2> QED
        BY <1>1, <2>1, <2>2 DEF HeadInv, ReachInv
<1> QED
    BY <1>2, <1>3, <1>4, <1>5, <1>7, <1>8, <1>9 DEF HandlerStep

LEMMA SyncedStep == "flaky" \notin Faults /\ SyncedInv /\ [Next]_vars => SyncedInv'
<1> SUFFICES ASSUME "flaky" \notin Faults, SyncedInv, [Next]_vars PROVE SyncedInv'
    OBVIOUS
<1>1. TypeInv'
    BY TypeStep DEF SyncedInv
<1>2. /\ GraphInv'
      /\ \A c \in DOMAIN commits : commits'[c].anc = Anc(c) /\ commits'[c].tree = Tr(c)
    BY HistoryGrows DEF SyncedInv
<1>3. HeadInv' /\ ReachInv'
    BY <1>2, FetchReaches, MergeReaches, SampleReaches, CommitReaches, PushReaches, OthersReach
       DEF Next, SyncStep
<1> QED
    BY <1>1, <1>2, <1>3 DEF SyncedInv

(* Success is reported at a commit that left nothing to push, or by a push. *)
LEMMA SuccessIsEqual ==
    ASSUME SyncedInv, [Next]_vars, pc # "idle", pc' = "idle", result' = "ok", ~disturbed, online
    PROVE  commits[remote'].tree = etc' /\ work' = etc'
<1> USE DEF Anc, Tr
<1>1. TypeInv /\ GraphInv /\ HeadInv /\ ReachInv
    BY DEF SyncedInv
<1>2. /\ GraphInv'
      /\ \A c \in DOMAIN commits : commits'[c].anc = Anc(c) /\ commits'[c].tree = Tr(c)
    BY HistoryGrows DEF SyncedInv
<1>3. Commit \/ Push
    BY DEF Next, SyncStep, HandlerStep, Begin, Fetch, MergeCleanly, MergeReset, RestoreBird,
       LookAtWG, RestoreWG, StartWG, CopyFails, SampleBird, SampleWG, GitLocked, Pull, Finish, ChangeWG, ChangeBird, Apply,
       HumanEdit, StartRequest, Crash, vars
<1>4. CASE Commit
    <2>1. /\ UNCHANGED <<etc, work, tracking, remote>> /\ head' = tracking /\ pc = "commit"
        BY <1>4 DEF Commit
    <2>2. Tr(head)' = work /\ head' = head
        BY <1>2, <1>4, <2>1, CommitReaches
    <2>3. head \in DOMAIN commits
        BY <1>1, Named
    <2> QED
        BY <1>1, <1>2, <2>1, <2>2, <2>3 DEF ReachInv
<1>5. CASE Push
    <2>1. remote' = head
        BY <1>2, <1>5, PushReaches
    <2>2. UNCHANGED <<etc, work>> /\ pc = "push"
        BY <1>5 DEF Push
    <2> QED
        BY <1>1, <2>1, <2>2 DEF ReachInv
<1> QED
    BY <1>3, <1>4, <1>5

(* backup.go:609: a sync that reports success and reached the server leaves
   /etc, checkout and server equal unless somebody edited meanwhile; for any
   peers, edits and crashes before it, kills and stopped rebases included.
   That no git command failed alone cannot be left out. *)
THEOREM SyncsMakeEqual == "flaky" \notin Faults => (Spec => SyncedIsEqualIfReached)
<1> SUFFICES ASSUME "flaky" \notin Faults PROVE Spec => SyncedIsEqualIfReached
    OBVIOUS
<1>1. SyncedInv /\ [Next]_vars =>
        [pc # "idle" /\ pc' = "idle" /\ result' = "ok" /\ ~disturbed /\ online =>
           commits[remote'].tree = etc' /\ work' = etc']_vars
    BY SuccessIsEqual
<1>2. SyncedInv /\ [Next]_vars => SyncedInv'
    BY SyncedStep
<1> QED
    BY <1>1, <1>2, SyncedInit, PTL DEF Spec, SyncedIsEqualIfReached
=============================================================================
