------------------------------ MODULE BackupSync ------------------------------
(***************************************************************************)
(* The periodic backup of one agent-v2 node (BackupManager.syncLocked):    *)
(* /etc/bird and /etc/wireguard, the git checkout, the repository on the   *)
(* Git server, where humans edit through the Web UI, and the /peer and     *)
(* /remove handlers, which change /etc without taking the manager's lock.  *)
(*                                                                         *)
(* A file's content is the number of the edit that wrote it.  git is       *)
(* external: a file is one hunk, a rebase replays the local commits as     *)
(* one, renames are not detected.                                          *)
(***************************************************************************)
EXTENDS Naturals, Sequences, FiniteSets

CONSTANTS
    Peer,        \* ASNs with a pair of files
    LocalOps,    \* management requests the node receives
    HumanEdits,  \* kinds of edit made in the Web UI
    Racing,      \* TRUE: humans also edit while a sync runs
    Faults,      \* faults that may happen
    MaxEdits,    \* bound on edits, local and human
    MaxFaults    \* bound on offline syncs, failed commands and copies, crashes

ASSUME PeerAssumption  == Peer # {} /\ IsFiniteSet(Peer)
ASSUME EditAssumption  == /\ LocalOps \subseteq {"peer", "remove"}
                          /\ HumanEdits \subseteq {"modify", "remove"}
                          /\ Racing \in BOOLEAN
ASSUME FaultAssumption == Faults \subseteq {"offline", "flaky", "disk", "crash", "kill"}
ASSUME BoundAssumption == MaxEdits \in Nat /\ MaxFaults \in Nat

Bird == {"bird"} \X Peer    \* /etc/bird/dn42_peers/<asn>.conf
WG   == {"wg"} \X Peer      \* /etc/wireguard/dn42-<asn>.conf
File == Bird \union WG

Absent  == 0
Content == 0 .. MaxEdits + 1
Tree    == [File -> Content]

VARIABLES
    etc,       \* the files under /etc
    work,      \* the checkout's working tree
    commits,   \* every commit: its ancestors, itself included, and its tree
    head,      \* the checkout's HEAD
    main,      \* its branch main; HEAD is detached while a rebase is stopped
    tracking,  \* its origin/main
    repo,      \* state of the checkout: clean, conflict, rebasing or locked
    remote,    \* main on the Git server
    pc,        \* next step of the sync
    tries,     \* pushes tried by this sync
    online,    \* the server answers during this sync
    result,    \* what the last sync returned
    handler,   \* the /peer or /remove being served
    up,        \* WireGuard interfaces that are up
    loaded,    \* the peer files BIRD has loaded
    before,    \* interfaces a restore saw up before it copied
    (***********************************************************************)
    (* Observation and bounds.                                             *)
    (***********************************************************************)
    made,      \* <<file, from, to>>: to was made locally on top of from
    missed,    \* interfaces that were down by the time it copied their file
    disturbed, \* an edit happened since the sync began
    edits,     \* edits so far
    faults     \* faults so far

checkout == <<work, commits, head, main, tracking, repo>>
daemons  == <<up, loaded, before, missed>>
local    == <<handler, made, edits>>
vars == <<etc, work, commits, head, main, tracking, repo, remote, pc, tries, online,
          result, handler, up, loaded, before, missed, made, disturbed, edits, faults>>

SyncPCs == {"idle", "fetch", "merge", "restore_bird", "look_wg", "restore_wg", "start_wg",
            "sample_bird", "sample_wg", "commit", "push", "pull"}
NoHandler == [pc |-> "idle", op |-> "none", peer |-> "none", edit |-> 0]

IsAncestor(c, d) == c \in commits[d].anc
MergeBase(c, d) ==
    LET common == commits[c].anc \intersect commits[d].anc
    IN  CHOOSE b \in common : \A other \in common : other <= b

Present(tree, files) == \E f \in files : tree[f] # Absent
Copy(src, dst, files) == [f \in File |-> IF f \in files THEN src[f] ELSE dst[f]]

(* Number the commit that is added next. *)
NextCommit == Len(commits) + 1
AddCommit(parents, tree) ==
    commits' = Append(commits,
        [anc  |-> {NextCommit} \union UNION {commits[c].anc : c \in parents},
         tree |-> tree])

(***************************************************************************)
(* Three-way merge of trees: where both sides changed a file, one side is  *)
(* preferred (-X), but a side that deleted it makes the merge stop.        *)
(***************************************************************************)
MergeTrees(base, other, preferred) ==
    [f \in File |-> IF preferred[f] = base[f] THEN other[f] ELSE preferred[f]]

Conflicts(base, one, two) ==
    {f \in File : /\ one[f] # base[f] /\ two[f] # base[f] /\ one[f] # two[f]
                  /\ Absent \in {one[f], two[f]}}

-----------------------------------------------------------------------------
TypeOK ==
    /\ etc \in Tree /\ work \in Tree
    /\ \A c \in DOMAIN commits : /\ commits[c].anc \subseteq 1 .. c
                                 /\ commits[c].tree \in Tree
    /\ {head, main, tracking, remote} \subseteq DOMAIN commits
    /\ repo \in {"clean", "conflict", "rebasing", "locked"}
    /\ pc \in SyncPCs /\ tries \in 0 .. 2 /\ online \in BOOLEAN
    /\ result \in {"none", "ok", "error"}
    /\ handler.pc \in {"idle", "wg", "bird", "apply"}
    /\ up \subseteq Peer /\ loaded \in [Peer -> Content]
    /\ before \subseteq Peer /\ missed \subseteq Peer
    /\ made \subseteq File \X Content \X Content
    /\ disturbed \in BOOLEAN /\ edits \in 0 .. MaxEdits /\ faults \in 0 .. MaxFaults

(* A node whose backup is installed and which has just been synced. *)
Init ==
    /\ etc = [f \in File |-> 1] /\ work = etc
    /\ commits = <<[anc |-> {1}, tree |-> etc]>>
    /\ head = 1 /\ main = 1 /\ tracking = 1 /\ remote = 1
    /\ repo = "clean"
    /\ pc = "idle" /\ tries = 0 /\ online = TRUE /\ result = "none"
    /\ handler = NoHandler
    /\ up = Peer /\ loaded = [p \in Peer |-> 1]
    /\ before = {} /\ missed = {}
    /\ made = {} /\ disturbed = FALSE /\ edits = 0 /\ faults = 0

-----------------------------------------------------------------------------
MayFail(fault) == fault \in Faults /\ faults < MaxFaults

Finish(outcome) == pc' = "idle" /\ result' = outcome

Begin ==
    /\ pc = "idle"
    /\ pc' = "fetch" /\ tries' = 0 /\ disturbed' = FALSE
    /\ \/ online' = TRUE /\ UNCHANGED faults
       \/ MayFail("offline") /\ online' = FALSE /\ faults' = faults + 1
    /\ UNCHANGED <<etc, checkout, remote, result, local, daemons>>

(* A failed fetch is ignored.  When HEAD is not origin/main, whichever of
   them is ahead, the sync merges and restores. *)
Fetch ==
    /\ pc = "fetch"
    /\ \/ /\ online
          /\ tracking' = remote
          /\ UNCHANGED faults
       \/ /\ ~online
          /\ UNCHANGED <<tracking, faults>>
       \/ /\ online /\ MayFail("flaky")
          /\ faults' = faults + 1
          /\ UNCHANGED tracking
    /\ pc' = IF head = tracking' THEN "sample_bird" ELSE "merge"
    /\ UNCHANGED <<etc, work, commits, head, main, repo, remote, tries, online, result,
                   local, daemons, disturbed>>

MergePrefersLocal ==  \* mutation: -X ours
    MergeTrees(commits[MergeBase(head, tracking)].tree,
               commits[tracking].tree, commits[head].tree)

(* merge -X theirs: origin/main wins where both sides changed a file. *)
Merged ==
    MergeTrees(commits[MergeBase(head, tracking)].tree,
               commits[head].tree, commits[tracking].tree)

(* The merge stops when a side deleted what the other changed, when the
   index is unmerged and when it would overwrite an uncommitted sample. *)
MergeStops ==
    \/ repo = "conflict"
    \/ Conflicts(commits[MergeBase(head, tracking)].tree,
                 commits[head].tree, commits[tracking].tree) # {}
    \/ \E f \in File : /\ work[f] # commits[head].tree[f]
                       /\ Merged[f] # commits[head].tree[f]

(* HEAD moves to c; so does main unless HEAD is detached. *)
MoveHead(c) ==
    /\ head' = c
    /\ main' = IF repo \in {"conflict", "rebasing"} THEN main ELSE c

MergeCleanly ==
    /\ pc = "merge" /\ repo # "locked" /\ ~MergeStops
    /\ work' = [f \in File |-> IF Merged[f] = commits[head].tree[f]
                               THEN work[f] ELSE Merged[f]]
    /\ \/ /\ IsAncestor(tracking, head)
          /\ UNCHANGED <<commits, head, main>>
       \/ /\ IsAncestor(head, tracking) /\ head # tracking
          /\ MoveHead(tracking)
          /\ UNCHANGED commits
       \/ /\ ~IsAncestor(tracking, head) /\ ~IsAncestor(head, tracking)
          /\ AddCommit({head, tracking}, Merged)
          /\ MoveHead(NextCommit)
    /\ pc' = "restore_bird"
    /\ UNCHANGED <<etc, tracking, repo, remote, tries, online, result, local, daemons,
                   disturbed, faults>>

MergeAborted ==  \* mutation: no reset --hard, the sync only fails
    /\ pc = "merge" /\ repo # "locked" /\ MergeStops
    /\ Finish("error")
    /\ UNCHANGED <<etc, checkout, remote, tries, online, local, daemons, disturbed, faults>>

(* merge --abort, then reset --hard origin/main, which leaves untracked
   files alone.  Local commits are gone; a stopped rebase stays stopped. *)
MergeReset ==
    /\ pc = "merge" /\ repo # "locked" /\ MergeStops
    /\ MoveHead(tracking)
    /\ work' = [f \in File |->
          IF commits[tracking].tree[f] = Absent /\ commits[head].tree[f] = Absent
          THEN work[f] ELSE commits[tracking].tree[f]]
    /\ repo' = IF repo = "conflict" THEN "rebasing" ELSE repo
    /\ pc' = "restore_bird"
    /\ UNCHANGED <<etc, commits, tracking, remote, tries, online, result, local, daemons,
                   disturbed, faults>>

(* reset --hard and add -A both need .git/index.lock. *)
GitLocked ==
    /\ pc \in {"merge", "commit"} /\ repo = "locked"
    /\ Finish("error")
    /\ UNCHANGED <<etc, checkout, remote, tries, online, local, daemons, disturbed, faults>>

(* restoreDirsFromRepo, first half.  bird/ also holds bird.conf, so it is
   never empty.  What the repository lacks is deleted from /etc. *)
RestoreBird ==
    /\ pc = "restore_bird"
    /\ etc' = Copy(work, etc, Bird)
    /\ loaded' = [p \in Peer |-> work[<<"bird", p>>]]
    /\ pc' = "look_wg"
    /\ UNCHANGED <<checkout, remote, tries, online, result, local, up, before, missed,
                   disturbed, faults>>

(* Second half; an empty wireguard/ is skipped.  Which interfaces are up is
   looked at before the copy ... *)
LookAtWG ==
    /\ pc = "look_wg"
    /\ IF Present(work, WG)
       THEN before' = up /\ pc' = "restore_wg"
       ELSE UNCHANGED before /\ pc' = "sample_bird"
    /\ UNCHANGED <<etc, checkout, remote, tries, online, result, local, up, loaded, missed,
                   disturbed, faults>>

Restored == {p \in Peer : work[<<"wg", p>>] # Absent}

RestoreWG ==
    /\ pc = "restore_wg"
    /\ etc' = Copy(work, etc, WG)
    /\ missed' = missed \union ((Restored \intersect before) \ up)
    /\ pc' = "start_wg"
    /\ UNCHANGED <<checkout, remote, tries, online, result, local, up, loaded, before,
                   disturbed, faults>>

StartSkipped ==  \* mutation: a file that is restored is not started
    /\ pc = "start_wg"
    /\ before' = {}
    /\ pc' = "sample_bird"
    /\ UNCHANGED <<etc, checkout, remote, tries, online, result, local, up, loaded, missed,
                   disturbed, faults>>

(* ... and bringUpRestoredWG starts those that were not up then; wg-quick
   refuses the ones that are up by now or have lost their file again. *)
StartWG ==
    LET started == {p \in Peer \ before : etc[<<"wg", p>>] # Absent} IN
    /\ pc = "start_wg"
    /\ up' = up \union started
    /\ missed' = missed \ started
    /\ before' = {}
    /\ pc' = "sample_bird"
    /\ UNCHANGED <<etc, checkout, remote, tries, online, result, local, loaded, disturbed,
                   faults>>

(* A copy stops at a file it cannot read or write, with any of the others
   copied, and the sync ends there: no reload, no start. *)
CopyFails ==
    /\ MayFail("disk")
    /\ faults' = faults + 1
    /\ \E copied \in SUBSET (IF pc \in {"restore_bird", "sample_bird"} THEN Bird ELSE WG) :
          \/ /\ pc \in {"restore_bird", "restore_wg"}
             /\ etc' = Copy(work, etc, copied)
             /\ UNCHANGED work
          \/ /\ pc \in {"sample_bird", "sample_wg"}
             /\ work' = Copy(etc, work, copied)
             /\ UNCHANGED etc
    /\ Finish("error")
    /\ before' = {}
    /\ UNCHANGED <<commits, head, main, tracking, repo, remote, tries, online, local, up,
                   loaded, missed, disturbed>>

SampleBird ==
    /\ pc = "sample_bird"
    /\ work' = Copy(etc, work, Bird)
    /\ pc' = "sample_wg"
    /\ UNCHANGED <<etc, commits, head, main, tracking, repo, remote, tries, online, result,
                   local, daemons, disturbed, faults>>

SampleWGKeepsExtraneous ==  \* mutation: copyDir without removeExtraneous
    /\ pc = "sample_wg"
    /\ work' = Copy(etc, work, {f \in WG : etc[f] # Absent})
    /\ pc' = "commit"
    /\ UNCHANGED <<etc, commits, head, main, tracking, repo, remote, tries, online, result,
                   local, daemons, disturbed, faults>>

SampleWG ==
    /\ pc = "sample_wg"
    /\ work' = Copy(etc, work, WG)
    /\ pc' = "commit"
    /\ UNCHANGED <<etc, commits, head, main, tracking, repo, remote, tries, online, result,
                   local, daemons, disturbed, faults>>

(* add -A, status, commit; nothing is left to do when HEAD is origin/main. *)
Commit ==
    /\ pc = "commit" /\ repo # "locked"
    /\ \/ /\ work = commits[head].tree
          /\ UNCHANGED <<commits, head, main>>
       \/ /\ work # commits[head].tree
          /\ AddCommit({head}, work)
          /\ MoveHead(NextCommit)
    /\ repo' = IF repo = "conflict" THEN "rebasing" ELSE repo
    /\ IF head' = tracking THEN Finish("ok") ELSE pc' = "push" /\ UNCHANGED result
    /\ UNCHANGED <<etc, work, tracking, remote, tries, online, local, daemons, disturbed,
                   faults>>

(* push origin main is refused unless it fast-forwards the server's main. *)
Push ==
    /\ pc = "push"
    /\ \/ /\ online /\ IsAncestor(remote, main)
          /\ remote' = main /\ tracking' = main
          /\ Finish("ok")
          /\ UNCHANGED faults
       \/ /\ ~online \/ ~IsAncestor(remote, main)
          /\ pc' = "pull"
          /\ UNCHANGED <<remote, tracking, result, faults>>
       \/ /\ online /\ MayFail("flaky")
          /\ pc' = "pull" /\ faults' = faults + 1
          /\ UNCHANGED <<remote, tracking, result>>
    /\ UNCHANGED <<etc, work, commits, head, main, repo, tries, online, local, daemons,
                   disturbed>>

(* pull --rebase -X ours: the commits that are only local are replayed on
   the server's main, whose side is "ours".  Where one side deleted what the
   other changed the rebase stops and stays in progress; nothing aborts it. *)
Rebase ==
    LET base  == commits[MergeBase(head, remote)].tree
        onto  == commits[remote].tree
        moved == MergeTrees(base, commits[head].tree, onto)
    IN  IF Conflicts(base, commits[head].tree, onto) # {}
        THEN /\ repo' = "conflict"
             /\ head' = remote
             /\ work' = moved
             /\ UNCHANGED <<commits, main>>
        ELSE /\ work' = moved
             /\ \/ /\ moved = onto
                   /\ head' = remote /\ main' = remote
                   /\ UNCHANGED commits
                \/ /\ moved # onto
                   /\ AddCommit({remote}, moved)
                   /\ head' = NextCommit /\ main' = NextCommit
             /\ UNCHANGED repo

OneAttemptMore == 4  \* mutation: i <= 3
Attempts == 3

Pull ==
    /\ pc = "pull"
    /\ IF online THEN tracking' = remote ELSE UNCHANGED tracking
    /\ IF online /\ repo = "clean" /\ ~IsAncestor(remote, head)
       THEN Rebase
       ELSE UNCHANGED <<work, commits, head, main, repo>>
    /\ IF tries + 1 = Attempts
       THEN Finish("error") /\ UNCHANGED tries
       ELSE pc' = "push" /\ tries' = tries + 1 /\ UNCHANGED result
    /\ UNCHANGED <<etc, remote, online, local, daemons, disturbed, faults>>

-----------------------------------------------------------------------------
(* A human commits a change of one file on the server. *)
HumanEdit(f, kind) ==
    LET tree == commits[remote].tree IN
    /\ Racing \/ pc = "idle"
    /\ edits < MaxEdits
    /\ tree[f] # Absent
    /\ AddCommit({remote},
           [tree EXCEPT ![f] = IF kind = "modify" THEN edits + 2 ELSE Absent])
    /\ remote' = NextCommit
    /\ edits' = edits + 1
    /\ disturbed' = TRUE
    /\ UNCHANGED <<etc, work, head, main, tracking, repo, pc, tries, online, result,
                   handler, made, daemons, faults>>

PeerFiles(tree, files) == Cardinality({f \in files : tree[f] # Absent})

(* /peer refuses to work when the two counts differ (peer.go:43); /remove
   takes the interface down first. *)
StartRequest(op, p) ==
    /\ handler.pc = "idle" /\ edits < MaxEdits
    /\ op = "peer" => PeerFiles(etc, WG) = PeerFiles(etc, Bird)
    /\ handler' = [pc |-> "wg", op |-> op, peer |-> p,
                   edit |-> IF op = "peer" THEN edits + 2 ELSE Absent]
    /\ edits' = edits + 1
    /\ up' = IF op = "remove" /\ etc[<<"wg", p>>] # Absent THEN up \ {p} ELSE up
    /\ disturbed' = TRUE
    /\ UNCHANGED <<etc, checkout, remote, pc, tries, online, result, made, loaded, before,
                   missed, faults>>

(* Everything made on top of what the file held before. *)
EditLocally(f) ==
    /\ etc' = [etc EXCEPT ![f] = handler.edit]
    /\ made' = made \union {<<f, etc[f], handler.edit>>}
                    \union {<<f, m[2], handler.edit>> : m \in {n \in made : n[1] = f /\ n[3] = etc[f]}}
    /\ disturbed' = TRUE

ChangeWG ==
    /\ handler.pc = "wg"
    /\ EditLocally(<<"wg", handler.peer>>)
    /\ handler' = [handler EXCEPT !.pc = "bird"]
    /\ UNCHANGED <<checkout, remote, pc, tries, online, result, daemons, edits, faults>>

ChangeBird ==
    /\ handler.pc = "bird"
    /\ EditLocally(<<"bird", handler.peer>>)
    /\ handler' = [handler EXCEPT !.pc = "apply"]
    /\ UNCHANGED <<checkout, remote, pc, tries, online, result, daemons, edits, faults>>

(* /peer starts the interface; both reload BIRD. *)
Apply ==
    /\ handler.pc = "apply"
    /\ up' = IF handler.op = "peer" /\ etc[<<"wg", handler.peer>>] # Absent
             THEN up \union {handler.peer} ELSE up
    /\ missed' = missed \ up'
    /\ loaded' = [p \in Peer |-> etc[<<"bird", p>>]]
    /\ handler' = NoHandler
    /\ UNCHANGED <<etc, checkout, remote, pc, tries, online, result, before, made, edits,
                   disturbed, faults>>

(* The agent dies; files and checkout stay.  A git command that is killed
   while it holds .git/index.lock leaves the lock behind. *)
Crash ==
    /\ MayFail("crash")
    /\ pc # "idle" \/ handler.pc # "idle"
    /\ faults' = faults + 1
    /\ pc' = "idle" /\ handler' = NoHandler /\ result' = "none" /\ before' = {}
    /\ \/ UNCHANGED repo
       \/ "kill" \in Faults /\ pc \in {"merge", "commit", "pull"} /\ repo' = "locked"
    /\ UNCHANGED <<etc, work, commits, head, main, tracking, remote, tries, online, up,
                   loaded, missed, made, edits, disturbed>>

-----------------------------------------------------------------------------
SyncStep ==
    \/ Begin \/ Fetch \/ MergeCleanly \/ MergeReset \/ RestoreBird \/ LookAtWG \/ RestoreWG
    \/ StartWG \/ CopyFails \/ SampleBird \/ SampleWG \/ Commit \/ GitLocked \/ Push \/ Pull

HandlerStep == ChangeWG \/ ChangeBird \/ Apply

Next ==
    \/ SyncStep
    \/ HandlerStep
    \/ \E f \in File, kind \in HumanEdits : HumanEdit(f, kind)
    \/ \E op \in LocalOps, p \in Peer : StartRequest(op, p)
    \/ Crash

Spec == Init /\ [][Next]_vars

(* The timer of Run starts the next sync, every git command has a limit of
   two minutes, every command of a handler one of ten seconds. *)
FairSpec == Spec /\ WF_vars(SyncStep) /\ WF_vars(HandlerStep)

-----------------------------------------------------------------------------
(* Replacing "was" by "is" undoes nothing: "is" was made locally on top. *)
OnTop(f, was, is) == was = is \/ <<f, was, is>> \in made

(* config.md:155, "human edits made through the Git web UI always win": a
   push replaces what the server holds for a file only by an edit made
   locally on top of it, never by what /etc held before. *)
HumanEditsWin ==
    [][pc = "push" /\ pc' = "idle" /\ remote' # remote =>
         \A f \in File : OnTop(f, commits[remote].tree[f], commits[remote'].tree[f])]_vars

(* A sync that reports success leaves /etc, the checkout and the server
   equal unless somebody edited meanwhile (backup.go:609). *)
SyncedIsEqual ==
    [][pc # "idle" /\ pc' = "idle" /\ result' = "ok" /\ ~disturbed =>
         commits[remote'].tree = etc' /\ work' = etc']_vars

(* Where git commands fail only because the server is away, a sync that finds
   it there keeps this promise, whatever was edited, killed or left half
   rebased before (backup.go:523-609). *)
SyncedIsEqualIfReached ==
    [][pc # "idle" /\ pc' = "idle" /\ result' = "ok" /\ ~disturbed /\ online =>
         commits[remote'].tree = etc' /\ work' = etc']_vars

(* backup.go:600, "any genuinely local change is still committed and
   pushed": the sync overwrites a local edit in /etc only by what a human
   made of that file, or after the edit reached the repository. *)
Dropped(f) == etc'[f] # etc[f] /\ <<f, etc'[f], etc[f]>> \in made
InHistory(f, content) == \E c \in commits[head].anc : commits[c].tree[f] = content

LocalEditsSurvive ==
    [][pc' # pc /\ pc \in {"restore_bird", "restore_wg"} =>
         \A f \in File : ~Dropped(f) \/ InHistory(f, etc[f])]_vars

(* peer.go:43 takes a node whose two directories list different peers for
   broken: with whole requests and whole-file edits they never do. *)
PairsStayWhole ==
    pc = "idle" /\ handler.pc = "idle" =>
        \A p \in Peer : etc[<<"wg", p>>] = Absent <=> etc[<<"bird", p>>] = Absent

(* When nothing is in progress every configured interface is up and BIRD
   runs what /etc says, whoever of handler and sync wrote last.  The code does
   not keep the half about the interfaces: a restore starts those it saw down
   before it copied (backup.go:772), and a /remove may take one down and
   delete its file in between; the copy brings back the file alone. *)
DaemonsFollowFiles ==
    pc = "idle" /\ handler.pc = "idle" =>
        /\ \A p \in Peer : etc[<<"wg", p>>] # Absent => p \in up
        /\ loaded = [p \in Peer |-> etc[<<"bird", p>>]]

(* It keeps the rest: any other overlap of handlers and syncs leaves every
   configured interface up, that one too from the next restore or /peer on,
   and BIRD always runs what /etc says. *)
DaemonsFollowUnlessMissed ==
    pc = "idle" /\ handler.pc = "idle" =>
        /\ \A p \in Peer : etc[<<"wg", p>>] # Absent => p \in up \union missed
        /\ loaded = [p \in Peer |-> etc[<<"bird", p>>]]

(* The edits and faults are finitely many: the backup catches up with /etc
   again and again once they stop. *)
CatchesUp == []<>(commits[remote].tree = etc)

(* The same where git may be killed: only the lock it leaves, which nobody
   removes, keeps the backup behind for good. *)
CatchesUpUnlessLocked == []<>(commits[remote].tree = etc \/ repo = "locked")
=============================================================================
