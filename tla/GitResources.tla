---------------------------- MODULE GitResources ----------------------------
(***************************************************************************)
(* The resource requests of the web console that work on one repository of *)
(* the runner (internal/gitops/resources.go, dispatched by                 *)
(* daemon.handleResourceRequest).  Every request is served by a goroutine  *)
(* of its own and no lock is taken: a request is a sequence of git         *)
(* commands, and the commands of two requests interleave.  One action is   *)
(* one git command or file operation with the code up to the next; queries *)
(* that follow each other directly are one action.                         *)
(*                                                                         *)
(* The repository is the value `repo`.  What a git command does to it is   *)
(* an operator on such values, and stands for git itself.  A file content  *)
(* is a version: the name of who wrote it.  A commit is named by the       *)
(* request that made it.                                                   *)
(***************************************************************************)
EXTENDS Naturals, FiniteSets

CONSTANTS
  Requests,    \* the resource requests of a behaviour
  Asks,        \* what a request may ask: records [op, branch, files]
  Branches,    \* branch names
  Files,       \* the files of the repository
  Tracked,     \* those that are in the first commit
  OurFiles,    \* those that a commit of this repository changed
  TheirFiles,  \* those that the colleague's commit on the remote changed
  Ignored,     \* those that .gitignore names
  Base,        \* the first commit, and the version of its files
  Ours,        \* the commit made here, and the version of its files
  Theirs,      \* the colleague's commit, and the version of its files
  Local,       \* a version edited in the workspace
  Marked,      \* the content git leaves in a file whose merge conflicts
  Absent,      \* the content of a file that does not exist
  None,        \* no branch, no commit
  MaxEdits     \* bound: edits of the workspace by its user or an executor

ASSUME GitAssumption ==
  /\ Tracked \subseteq Files
  /\ OurFiles \cup TheirFiles \cup Ignored \subseteq Files
  /\ Asks \subseteq [op : STRING, branch : Branches \cup {None},
                     files : SUBSET Files]
  /\ None \notin Branches \cup Requests \cup {Base, Ours, Theirs}
                       \cup {Local, Marked, Absent}
  /\ Base # Ours /\ Base # Theirs /\ Ours # Theirs
  /\ Requests \cap {Base, Ours, Theirs} = {}
  /\ Branches \cap (Requests \cup {Base, Ours, Theirs}) = {}
  /\ MaxEdits \in Nat

VARIABLES
  repo,   \* the repository and its remote
  rq,     \* per request: where it is and what it remembers
  edits   \* edits made so far

gitVars == <<repo, rq, edits>>

Commits  == {Base, Ours, Theirs} \cup Requests
Versions == Commits \cup {Local, Marked, Absent}
Refs     == [Branches -> Commits \cup {None}]
Trees    == [Files -> Versions]

-----------------------------------------------------------------------------
(* The repository, and git's commands on it.                               *)

HeadCommit(g) == IF g.head \in Branches THEN g.local[g.head] ELSE g.head
HeadTree(g)   == g.store[HeadCommit(g)].tree
Log(g, c)     == g.store[c].log

Clean(g, f) == /\ g.tree[f] = HeadTree(g)[f]
               /\ g.index[f] = HeadTree(g)[f]

Untracked(g, f) == g.index[f] = Absent /\ HeadTree(g)[f] = Absent

(* The ignored files git does not track: it overwrites them without a word *)
(* where a checkout, a pull or a merge brings a file of that name.         *)
Hidden(g) == {f \in Ignored : Untracked(g, f)}

(* git switches to another commit when the files that differ carry no      *)
(* change of the workspace that it would mind, and no conflict is open.    *)
CanSwitch(g, c) ==
  /\ g.unmerged = {}
  /\ \A f \in Files \ Hidden(g) :
       g.store[c].tree[f] # HeadTree(g)[f] => Clean(g, f)

Moved(g, old, c) ==
  [f \in Files |-> IF g.store[c].tree[f] # HeadTree(g)[f]
                   THEN g.store[c].tree[f] ELSE old[f]]

(* git checkout of branch b, whose commit is c: an unfinished merge is     *)
(* forgotten.                                                              *)
SwitchTo(g, b, c) ==
  [g EXCEPT !.local[b] = c, !.head = b, !.merging = None,
            !.tree = Moved(g, g.tree, c), !.index = Moved(g, g.index, c)]

Advance(g, c) == IF g.head \in Branches THEN [g EXCEPT !.local[g.head] = c]
                                        ELSE [g EXCEPT !.head = c]

FastForward(g, c) ==
  [Advance(g, c) EXCEPT !.tree = Moved(g, g.tree, c),
                        !.index = Moved(g, g.index, c)]

(* Commit c with content t on top of HEAD and, while a merge is open, of   *)
(* the commit merged.                                                      *)
WithCommit(g, c, t) ==
  LET other == IF g.merging = None THEN {} ELSE Log(g, g.merging)
      h     == HeadCommit(g)
  IN  [Advance(g, c) EXCEPT
         !.store[c] = [tree |-> t, parent |-> h,
                       log |-> Log(g, h) \cup other \cup {c}],
         !.merging = None]

Fetched(g, bs) ==
  [g EXCEPT !.tracking = [b \in Branches |-> IF b \in bs THEN g.remote[b]
                                                         ELSE g.tracking[b]]]

(* The youngest commit two histories share.                                *)
MergeBase(g, c, d) ==
  CHOOSE a \in Log(g, c) \cap Log(g, d) :
    \A x \in Log(g, c) \cap Log(g, d) :
      Cardinality(Log(g, x)) <= Cardinality(Log(g, a))

(* A merge of commit c, made by request r, keeps on every file the side    *)
(* that changed it; the files both sides changed conflict.                 *)
Conflicts(g, c) ==
  LET a == g.store[MergeBase(g, HeadCommit(g), c)].tree
      t == g.store[c].tree
  IN  {f \in Files : /\ HeadTree(g)[f] # a[f]
                     /\ t[f] # a[f]
                     /\ HeadTree(g)[f] # t[f]}

MergedTree(g, c) ==
  LET a == g.store[MergeBase(g, HeadCommit(g), c)].tree
      t == g.store[c].tree
  IN  [f \in Files |-> IF t[f] # a[f] THEN t[f] ELSE HeadTree(g)[f]]

CanMerge(g, c) ==
  /\ g.merging = None /\ g.unmerged = {}
  /\ g.index = HeadTree(g)
  /\ \A f \in Files \ Hidden(g) :
       MergedTree(g, c)[f] # HeadTree(g)[f] => Clean(g, f)

Replaced(g, old, t) ==
  [f \in Files |-> IF t[f] # HeadTree(g)[f] THEN t[f] ELSE old[f]]

CleanMerge(g, c, r) ==
  LET t == MergedTree(g, c)
  IN  [WithCommit([g EXCEPT !.merging = c], r, t) EXCEPT
         !.tree = Replaced(g, g.tree, t), !.index = t]

(* A conflict leaves the merge open: the other files are merged, the       *)
(* conflicting ones hold both versions.                                    *)
ConflictedMerge(g, c) ==
  LET t == MergedTree(g, c)
      x == Conflicts(g, c)
  IN  [g EXCEPT !.merging = c, !.unmerged = x,
                !.tree = [f \in Files |-> IF f \in x THEN Marked
                                          ELSE Replaced(g, g.tree, t)[f]],
                !.index = [f \in Files |-> IF f \in x THEN HeadTree(g)[f]
                                                      ELSE t[f]]]

-----------------------------------------------------------------------------
(* Initial states: a workspace on a branch or on a detached commit, with   *)
(* or without edits, and a remote that may be ahead of what was fetched.   *)

FirstTree == [f \in Files |-> IF f \in Tracked THEN Base ELSE Absent]
Changed(fs, v) == [f \in Files |-> IF f \in fs THEN v ELSE FirstTree[f]]
FirstStore ==
  [c \in Commits |->
     CASE c = Base   -> [tree |-> FirstTree, parent |-> None, log |-> {Base}]
       [] c = Ours   -> [tree |-> Changed(OurFiles, Ours), parent |-> Base,
                         log |-> {Base, Ours}]
       [] c = Theirs -> [tree |-> Changed(TheirFiles, Theirs), parent |-> Base,
                         log |-> {Base, Theirs}]
       [] OTHER      -> [tree |-> FirstTree, parent |-> None, log |-> {}]]

Idle == [pc |-> "new", ask |-> None, branch |-> None, target |-> None,
         source |-> None, fetched |-> FALSE, tip |-> None, todo |-> {},
         did |-> FALSE, inMerge |-> FALSE, crossed |-> FALSE, ans |-> "none"]

Init ==
  /\ \E loc \in [Branches -> {Base, Ours, None}],
        rem \in [Branches -> {Base, Theirs, None}] :
       \E h \in {b \in Branches : loc[b] # None} \cup {Base} :
         LET t == FirstStore[IF h \in Branches THEN loc[h] ELSE h].tree
         IN  \E wt \in [Files -> {Base, Ours, Local, Absent}] :
               /\ \A f \in Files : wt[f] \in {t[f], Local, Absent}
               /\ repo = [store |-> FirstStore, local |-> loc, remote |-> rem,
                          tracking |-> [b \in Branches |->
                            IF rem[b] = None THEN None ELSE Base],
                          head |-> h, tree |-> wt, index |-> t,
                          merging |-> None, unmerged |-> {}, stash |-> {}]
  /\ rq = [r \in Requests |-> Idle]
  /\ edits = 0

-----------------------------------------------------------------------------
(* Requests.  Step: request r takes the repository to g and itself to q;   *)
(* a request in flight is crossed when another one moves HEAD.             *)

InFlight(r) == rq[r].pc \notin {"new", "done"}

Step(r, g, q) ==
  /\ repo' = g
  /\ rq' = [x \in Requests |->
              IF x = r THEN q
              ELSE IF InFlight(x) /\ g.head # repo.head
              THEN [rq[x] EXCEPT !.crossed = TRUE] ELSE rq[x]]
  /\ UNCHANGED edits

At(r, p)     == rq[r].pc = p
Op(r)        == rq[r].ask.op
Goto(r, p)   == [rq[r] EXCEPT !.pc = p]
Answer(r, a) == [rq[r] EXCEPT !.pc = "done", !.ans = a]
Error(r)     == Step(r, repo, Answer(r, "error"))

FirstStep ==
  [branches |-> "refresh", git_status |-> "refresh",
   checkout_branch |-> "look",
   git_create_branch |-> "create", git_commit |-> "add", git_add |-> "add",
   git_restore |-> "sort", git_delete |-> "delete", git_pull |-> "current",
   git_push |-> "current", git_merge |-> "current",
   git_merge_to |-> "current", git_stash |-> "stash",
   git_stash_apply |-> "apply", write |-> "write",
   git_create_analysis_snapshot |-> "validate",
   git_analysis_source |-> "source"]

(* A request without the branch or the file it is about is refused before. *)
ASSUME AskAssumption ==
  \A a \in Asks :
    /\ a.op \in DOMAIN FirstStep
    /\ a.op \in {"checkout_branch", "git_create_branch", "git_merge", "git_merge_to"}
         => a.branch \in Branches
    /\ a.op = "git_analysis_source" => a.files # {}

(* handleResourceRequest: an unknown project, a missing directory or an    *)
(* invalid argument is refused before anything is done.                    *)
Dispatch(r) ==
  /\ At(r, "new")
  /\ \E a \in Asks :
       Step(r, repo, [Idle EXCEPT !.pc = FirstStep[a.op], !.ask = a,
                                  !.branch = a.branch, !.todo = a.files])

Refuse(r) ==
  /\ At(r, "new")
  /\ \E a \in Asks :
       Step(r, repo, [Idle EXCEPT !.ask = a, !.pc = "done",
                                  !.ans = "error"])

(* Any command whose error the code checks may fail and change nothing:    *)
(* the lock of another git process, a full disk, an unreachable remote.    *)
(* resourceWrite reports that inside a payload, which is an error, too.    *)
(* A command that the time limit of the request kills before it has done   *)
(* anything is one of these; one killed half way, with files half written  *)
(* and its lock left behind, is not modelled.                              *)
CommandFails(r) ==
  /\ rq[r].pc \in {"current", "checkout", "fetch", "checkout_new",
                   "create_new", "add", "staged", "commit", "restore", "delete",
                   "push", "pull", "stash", "apply", "merge", "write"}
  /\ Error(r)

-----------------------------------------------------------------------------
(* checkoutBranch, which pull and merge-to run first.  Here and below, a   *)
(* query whose error counts as a no may fail: its yes is one alternative   *)
(* and what the code does after a no is another.                           *)

AfterCheckout(r) == CASE Op(r) = "git_pull"     -> "pull"
                      [] Op(r) = "git_merge_to" -> "merge"
                      [] OTHER                  -> "refresh"

Look(r) ==
  /\ At(r, "look")
  /\ \/ /\ repo.head = rq[r].branch
        /\ Step(r, repo, Goto(r, AfterCheckout(r)))
     \/ /\ repo.local[rq[r].branch] # None
        /\ Step(r, repo, Goto(r, "checkout"))
     \/ Step(r, repo, Goto(r, "fetch"))

(* A switch the workspace's own changes forbid is ignored (not the code).  *)
LenientCheckout(r) ==
  /\ At(r, "checkout")
  /\ LET c == repo.local[rq[r].branch]
     IN  Step(r, IF CanSwitch(repo, c) THEN SwitchTo(repo, rq[r].branch, c)
                                       ELSE repo,
              Goto(r, AfterCheckout(r)))

(* git checkout -f: the workspace's changes are overwritten (not the code).*)
ForcedCheckout(r) ==
  /\ At(r, "checkout")
  /\ LET c == repo.local[rq[r].branch]
     IN  Step(r, [SwitchTo(repo, rq[r].branch, c) EXCEPT
                    !.tree = repo.store[c].tree,
                    !.index = repo.store[c].tree, !.unmerged = {}],
              Goto(r, AfterCheckout(r)))

CheckoutLocal(r) ==
  /\ At(r, "checkout")
  /\ LET c == repo.local[rq[r].branch]
     IN  IF CanSwitch(repo, c)
         THEN Step(r, SwitchTo(repo, rq[r].branch, c),
                   Goto(r, AfterCheckout(r)))
         ELSE Error(r)

(* git fetch origin <branch>: a merge takes the fetched commit itself, a   *)
(* checkout makes a local branch of it.                                    *)
FetchBranch(r) ==
  /\ At(r, "fetch")
  /\ LET b == rq[r].branch
     IN  IF repo.remote[b] = None THEN Error(r)
         ELSE Step(r, Fetched(repo, {b}),
                   IF Op(r) = "git_merge"
                   THEN [Goto(r, "merge") EXCEPT !.fetched = TRUE,
                                                 !.tip = repo.remote[b]]
                   ELSE Goto(r, "checkout_new"))

CheckoutNew(r) ==
  /\ At(r, "checkout_new")
  /\ LET b == rq[r].branch
         c == repo.tracking[b]
     IN  IF /\ repo.local[b] = None
            /\ c # None
            /\ CanSwitch(repo, c)
         THEN Step(r, SwitchTo(repo, b, c), Goto(r, AfterCheckout(r)))
         ELSE Error(r)

(* withBranchSnapshot and Branches: git fetch --prune, whose error is      *)
(* ignored; then the request is answered.                                  *)
Refresh(r) ==
  /\ At(r, "refresh")
  /\ \E g \in {repo, Fetched(repo, Branches)} : Step(r, g, Answer(r, "ok"))

-----------------------------------------------------------------------------
(* CreateBranch *)

CreateLook(r) ==
  /\ At(r, "create")
  /\ \/ /\ repo.head = rq[r].branch \/ repo.local[rq[r].branch] # None
        /\ Error(r)
     \/ \E g \in {repo, Fetched(repo, Branches)} :
          Step(r, g, Goto(r, "unclaimed"))

CreateUnclaimed(r) ==
  /\ At(r, "unclaimed")
  /\ \/ repo.tracking[rq[r].branch] # None /\ Error(r)
     \/ Step(r, repo, Goto(r, "create_new"))

CreateNew(r) ==
  /\ At(r, "create_new")
  /\ IF repo.local[rq[r].branch] # None THEN Error(r)
     ELSE Step(r, SwitchTo(repo, rq[r].branch, HeadCommit(repo)),
               Goto(r, "refresh"))

-----------------------------------------------------------------------------
(* CommitFiles and AddFiles *)

(* git add refuses a file that is neither there nor known, and an ignored  *)
(* one that the index does not have; beside that one it stages the others. *)
Add(r) ==
  /\ At(r, "add")
  /\ LET F == rq[r].ask.files
         S == {f \in F : f \notin Ignored \/ repo.index[f] # Absent}
     IN  IF \E f \in F : /\ repo.tree[f] = Absent
                         /\ repo.index[f] = Absent
         THEN Error(r)
         ELSE Step(r, [repo EXCEPT
                         !.index = [f \in Files |-> IF f \in S
                                      THEN repo.tree[f] ELSE repo.index[f]],
                         !.unmerged = @ \ S],
                   IF S # F THEN Answer(r, "error")
                   ELSE Goto(r, IF Op(r) = "git_commit" THEN "staged"
                                                        ELSE "refresh"))

(* git diff --cached: at least one selected file must be staged.           *)
Staged(r) ==
  /\ At(r, "staged")
  /\ IF \A f \in rq[r].ask.files : repo.index[f] = HeadTree(repo)[f]
     THEN Error(r)
     ELSE Step(r, repo, Goto(r, "merge_head"))

(* rev-parse MERGE_HEAD decides between a commit of the selected paths and *)
(* a commit of the whole index.                                            *)
MergeHead(r) ==
  /\ At(r, "merge_head")
  /\ \E m \in {FALSE, repo.merging # None} :
       Step(r, repo, [Goto(r, "commit") EXCEPT !.inMerge = m])

(* Every commit takes the whole index (not the code).                      *)
CommitEverything(r) ==
  /\ At(r, "commit") /\ ~rq[r].inMerge
  /\ IF repo.unmerged = {} /\ repo.index # HeadTree(repo)
     THEN Step(r, WithCommit(repo, r, repo.index), Answer(r, "ok"))
     ELSE Error(r)

(* git commit -- <paths>: what the workspace holds of the selected files;  *)
(* git refuses it while a merge is open, and for a path it does not know.  *)
CommitSelected(r) ==
  /\ At(r, "commit") /\ ~rq[r].inMerge
  /\ LET F == rq[r].ask.files
         t == [f \in Files |-> IF f \in F THEN repo.tree[f]
                                          ELSE HeadTree(repo)[f]]
     IN  IF /\ repo.merging = None /\ repo.unmerged = {} /\ t # HeadTree(repo)
            /\ \A f \in F : ~Untracked(repo, f)
         THEN Step(r, [WithCommit(repo, r, t) EXCEPT
                         !.index = [f \in Files |-> IF f \in F
                                      THEN repo.tree[f] ELSE repo.index[f]]],
                   Answer(r, "ok"))
         ELSE Error(r)

(* git commit without paths, which concludes the merge found open, if it   *)
(* is still there.                                                         *)
CommitIndex(r) ==
  /\ At(r, "commit") /\ rq[r].inMerge
  /\ IF /\ repo.unmerged = {}
        /\ repo.merging # None \/ repo.index # HeadTree(repo)
     THEN Step(r, WithCommit(repo, r, repo.index), Answer(r, "ok"))
     ELSE Error(r)

-----------------------------------------------------------------------------
(* RestoreFiles and DeleteFiles *)

(* Files that HEAD does not have are skipped; with nothing left the        *)
(* request fails.                                                          *)
Sort(r) ==
  /\ At(r, "sort")
  /\ \E tracked \in SUBSET {f \in rq[r].ask.files :
                              HeadTree(repo)[f] # Absent} :
       IF tracked = {} THEN Error(r)
       ELSE Step(r, repo, [Goto(r, "restore") EXCEPT !.todo = tracked])

Restore(r) ==
  /\ At(r, "restore")
  /\ LET F == rq[r].todo
         t == HeadTree(repo)
     IN  IF \E f \in F : t[f] = Absent /\ repo.index[f] = Absent
         THEN Error(r)
         ELSE Step(r, [repo EXCEPT
                         !.tree  = [f \in Files |-> IF f \in F THEN t[f]
                                                    ELSE repo.tree[f]],
                         !.index = [f \in Files |-> IF f \in F THEN t[f]
                                                    ELSE repo.index[f]],
                         !.unmerged = @ \ F],
                   Goto(r, "refresh"))

(* The files are removed one by one; the first error ends the request with *)
(* the earlier files already gone.                                         *)
DeleteOne(r) ==
  /\ At(r, "delete")
  /\ \E f \in rq[r].todo :
       Step(r, [repo EXCEPT !.tree[f] = Absent],
            [rq[r] EXCEPT !.todo = @ \ {f},
                          !.did = @ \/ repo.tree[f] # Absent])

DeleteEnd(r) ==
  /\ At(r, "delete") /\ rq[r].todo = {}
  /\ IF rq[r].did THEN Step(r, repo, Goto(r, "refresh")) ELSE Error(r)

(* resourceWrite: one file, whatever it holds.                             *)
Write(r) ==
  /\ At(r, "write")
  /\ Step(r, [repo EXCEPT !.tree = [f \in Files |->
                IF f \in rq[r].ask.files THEN r ELSE repo.tree[f]]],
          Answer(r, "ok"))

-----------------------------------------------------------------------------
(* currentBranch, the first step of push, pull, merge and merge-to: a      *)
(* detached checkout is refused.                                           *)

CurrentForPush(r) ==
  /\ At(r, "current") /\ Op(r) = "git_push"
  /\ IF rq[r].branch # None THEN Step(r, repo, Goto(r, "push"))
     ELSE IF repo.head \notin Branches THEN Error(r)
     ELSE Step(r, repo, [Goto(r, "push") EXCEPT !.branch = repo.head])

CurrentForPull(r) ==
  /\ At(r, "current") /\ Op(r) = "git_pull"
  /\ IF repo.head \notin Branches THEN Error(r)
     ELSE IF rq[r].branch \in {None, repo.head}
     THEN Step(r, repo, [Goto(r, "pull") EXCEPT !.branch = repo.head])
     ELSE Step(r, repo, Goto(r, "look"))

CurrentForMerge(r) ==
  /\ At(r, "current") /\ Op(r) = "git_merge"
  /\ LET b == rq[r].branch
     IN  IF repo.head \notin Branches \/ repo.head = b THEN Error(r)
         ELSE \E p \in {"fetch"} \cup {x \in {"merge"} : repo.local[b] # None} :
                Step(r, repo, [Goto(r, p) EXCEPT !.target = repo.head,
                                 !.source = b, !.tip = repo.local[b]])

CurrentForMergeTo(r) ==
  /\ At(r, "current") /\ Op(r) = "git_merge_to"
  /\ IF repo.head \notin Branches \/ repo.head = rq[r].branch THEN Error(r)
     ELSE Step(r, repo, [Goto(r, "look") EXCEPT
                           !.target = rq[r].branch, !.source = repo.head,
                           !.tip = repo.local[repo.head]])

(* git push --force (not the code).                                        *)
ForcedPush(r) ==
  /\ At(r, "push")
  /\ LET b == rq[r].branch
     IN  IF repo.local[b] = None THEN Error(r)
         ELSE Step(r, [repo EXCEPT !.remote[b] = repo.local[b],
                                   !.tracking[b] = repo.local[b]],
                   Answer(r, "ok"))

(* git push origin <branch>: the remote accepts only what contains its own *)
(* history.  It may have accepted a push that fails here: the connection   *)
(* breaks, or the time limit kills git, before its answer is read.         *)
Push(r) ==
  /\ At(r, "push")
  /\ LET b == rq[r].branch
         c == repo.local[b]
     IN  IF c # None /\ (repo.remote[b] = None \/ repo.remote[b] \in Log(repo, c))
         THEN \/ Step(r, [repo EXCEPT !.remote[b] = c, !.tracking[b] = c],
                      Answer(r, "ok"))
              \/ Step(r, [repo EXCEPT !.remote[b] = c], Answer(r, "error"))
         ELSE Error(r)

(* git pull --ff-only: fetch, then advance HEAD if its history allows it   *)
(* and no changed file is in the way.  A failure keeps what was fetched.   *)
Pull(r) ==
  /\ At(r, "pull") /\ repo.remote[rq[r].branch] # None
  /\ LET c == repo.remote[rq[r].branch]
         g == Fetched(repo, {rq[r].branch})
         h == HeadCommit(repo)
     IN  CASE repo.merging # None \/ repo.unmerged # {} ->
                Step(r, g, Answer(r, "error"))
           [] repo.merging = None /\ repo.unmerged = {} /\ c \in Log(repo, h) ->
                Step(r, g, Goto(r, "refresh"))
           [] /\ repo.merging = None /\ c \notin Log(repo, h)
              /\ h \in Log(repo, c) /\ CanSwitch(repo, c) ->
                Step(r, FastForward(g, c), Goto(r, "refresh"))
           [] OTHER -> Step(r, g, Answer(r, "error"))

(* git merge --no-edit names the source again, as a branch of the          *)
(* repository or of the remote, and merges whatever it holds by now into   *)
(* whatever HEAD is by now: nothing to do, an advance, a merge commit, or  *)
(* a conflict, which fails and leaves the merge open.                      *)
MergeRef(r) == IF rq[r].fetched THEN repo.tracking[rq[r].source]
                                ELSE repo.local[rq[r].source]

AfterMerge(r) == IF Op(r) = "git_merge" THEN Answer(r, "ok")
                                        ELSE Goto(r, "refresh")

Merge(r) ==
  /\ At(r, "merge")
  /\ LET c == MergeRef(r)
         h == HeadCommit(repo)
     IN  IF c = None \/ repo.merging # None \/ repo.unmerged # {} THEN Error(r)
         ELSE IF c \in Log(repo, h) THEN Step(r, repo, AfterMerge(r))
         ELSE IF h \in Log(repo, c)
         THEN IF CanSwitch(repo, c)
              THEN Step(r, FastForward(repo, c), AfterMerge(r))
              ELSE Error(r)
         ELSE IF ~CanMerge(repo, c) THEN Error(r)
         ELSE IF Conflicts(repo, c) = {}
         THEN Step(r, CleanMerge(repo, c, r), AfterMerge(r))
         ELSE Step(r, ConflictedMerge(repo, c), Answer(r, "error"))

-----------------------------------------------------------------------------
(* StashChanges and ApplyStash.  A stash keeps what workspace and index    *)
(* held of its files; with no file selected it takes all of them.          *)

Stash(r) ==
  /\ At(r, "stash")
  /\ LET F == IF rq[r].ask.files = {} THEN Files ELSE rq[r].ask.files
         S == {f \in F \ Hidden(repo) : ~Clean(repo, f)}
         t == HeadTree(repo)
     IN  IF S = {} \/ repo.unmerged # {} THEN Error(r)
         ELSE Step(r, [repo EXCEPT
                !.stash = @ \cup {[by |-> r, base |-> t,
                                   tree  |-> [f \in S |-> repo.tree[f]],
                                   index |-> [f \in S |-> repo.index[f]]]},
                !.tree  = [f \in Files |-> IF f \in S THEN t[f]
                                           ELSE repo.tree[f]],
                !.index = [f \in Files |-> IF f \in S THEN t[f]
                                           ELSE repo.index[f]],
                !.merging = IF rq[r].ask.files = {} THEN None ELSE @],
                   Goto(r, "refresh"))

(* git stash apply --index keeps the stash.  It needs the files untouched; *)
(* where HEAD has moved on they are left in conflict, or the index refuses *)
(* first and nothing is changed.                                           *)
Apply(r) ==
  /\ At(r, "apply")
  /\ \E s \in repo.stash :
       LET S == DOMAIN s.tree
           X == {f \in S : HeadTree(repo)[f] # s.base[f]}
       IN  /\ repo.unmerged = {}
           /\ \A f \in S \ Hidden(repo) : Clean(repo, f)
           /\ Step(r, [repo EXCEPT
                 !.tree  = [f \in Files |-> IF f \in X THEN Marked
                                            ELSE IF f \in S THEN s.tree[f]
                                            ELSE repo.tree[f]],
                 !.index = [f \in Files |-> IF f \in S \ X THEN s.index[f]
                                            ELSE repo.index[f]],
                 !.unmerged = X],
                   IF X = {} THEN Goto(r, "refresh") ELSE Answer(r, "error"))

-----------------------------------------------------------------------------
(* The colleague publishes a branch, and the workspace's user or an        *)
(* executor changes a file: neither goes through a request.                *)

Publish ==
  /\ edits < MaxEdits
  /\ \E b \in Branches :
       /\ repo.remote[b] \in {None, Base}
       /\ repo' = [repo EXCEPT !.remote[b] = Theirs]
  /\ edits' = edits + 1
  /\ UNCHANGED rq

Edit ==
  /\ edits < MaxEdits
  /\ \E f \in Files, v \in {Base, Local} :
       /\ repo.tree[f] # v
       /\ repo' = [repo EXCEPT !.tree[f] = v]
  /\ edits' = edits + 1
  /\ UNCHANGED rq

Request(r) ==
  \/ Dispatch(r) \/ Refuse(r) \/ CommandFails(r)
  \/ Look(r) \/ CheckoutLocal(r) \/ FetchBranch(r) \/ CheckoutNew(r)
  \/ Refresh(r)
  \/ CreateLook(r) \/ CreateUnclaimed(r) \/ CreateNew(r)
  \/ Add(r) \/ Staged(r) \/ MergeHead(r) \/ CommitSelected(r)
  \/ CommitIndex(r)
  \/ Sort(r) \/ Restore(r) \/ DeleteOne(r) \/ DeleteEnd(r) \/ Write(r)
  \/ CurrentForPush(r) \/ CurrentForPull(r) \/ CurrentForMerge(r)
  \/ CurrentForMergeTo(r)
  \/ Push(r) \/ Pull(r) \/ Merge(r) \/ Stash(r) \/ Apply(r)

GitNext == (\E r \in Requests : Request(r)) \/ Publish \/ Edit

-----------------------------------------------------------------------------
(* Properties *)

(* Every version the repository holds is one somebody wrote, every branch  *)
(* names a commit that exists, and HEAD is a branch or a commit.           *)
TypeOK ==
  /\ repo.head \in Commits \cup Branches
  /\ HeadCommit(repo) # None
  /\ repo.local \in Refs /\ repo.tracking \in Refs /\ repo.remote \in Refs
  /\ repo.tree \in Trees /\ repo.index \in Trees
  /\ \A b \in Branches : repo.local[b] # None
                         => repo.local[b] \in Log(repo, repo.local[b])
  /\ repo.merging \in Commits \cup {None}
  /\ repo.unmerged \subseteq Files
  /\ \A r \in Requests : rq[r].ans \in {"none", "ok", "error"}

(* A commit request that found no merge open commits nothing but the files *)
(* that were selected, whatever other requests staged, merged or checked   *)
(* out while it ran (CommitFiles).                                         *)
CommitIsSelected ==
  \A r \in Requests :
    LET c == repo.store[r]
    IN  (r \in c.log /\ Op(r) = "git_commit" /\ ~rq[r].inMerge)
        => \A f \in Files : c.tree[f] # repo.store[c.parent].tree[f]
                             => f \in rq[r].ask.files

(* A merge that is answered as done has reached the branch it names: the   *)
(* target's history contains what the source held when the request         *)
(* started, or what was fetched where git knew no branch of that name,     *)
(* unless another request moved HEAD in between (MergeBranch,              *)
(* MergeToBranch).                                                         *)
MergedWhenSaid ==
  \A r \in Requests :
    (/\ rq[r].ans = "ok" /\ ~rq[r].crossed
     /\ Op(r) \in {"git_merge", "git_merge_to"})
    => rq[r].tip \in Log(repo, repo.local[rq[r].target])

(* The versions of file f that can still be got back: from the workspace,  *)
(* the index, a commit or a stash.                                         *)
Kept(g, f) ==
  {g.tree[f], g.index[f]}
    \cup {g.store[c].tree[f] : c \in Commits}
    \cup UNION {{s.tree[f], s.index[f]} : s \in {x \in g.stash :
                                                    f \in DOMAIN x.tree}}

(* Work is never lost behind the user's back: the last copy of a version   *)
(* of a file disappears only by a request that selected that very file to  *)
(* be written, restored, deleted or staged, or by an edit - never by a     *)
(* checkout, a pull, a merge, a stash or the request of another file.  The *)
(* ignored files that git does not track are not safe: git overwrites them *)
(* by default, and no command asks it for --no-overwrite-ignore.           *)
OnlySelectedLost ==
  [][\A f \in Files :
       Kept(repo, f) \ {Absent, Marked} \subseteq Kept(repo', f)
       \/ f \in Hidden(repo)
       \/ edits' # edits
       \/ \E r \in Requests :
            /\ rq'[r] \notin {rq[r], [rq[r] EXCEPT !.crossed = TRUE]}
            /\ f \in rq[r].ask.files
            /\ Op(r) \notin {"git_stash", "git_stash_apply"}
    ]_gitVars

(* Nobody's commits are rewritten: what a branch contains, here or on the  *)
(* remote, it contains for ever, however pushes, pulls, merges and commits *)
(* of several requests interleave.                                         *)
HistoryGrows ==
  [][\A b \in Branches :
       /\ repo.local[b] # None
            => Log(repo, repo.local[b]) \subseteq Log(repo', repo'.local[b])
       /\ repo.remote[b] # None
            => Log(repo, repo.remote[b]) \subseteq Log(repo', repo'.remote[b])
    ]_gitVars

=============================================================================
