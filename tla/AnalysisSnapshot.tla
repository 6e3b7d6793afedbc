-------------------------- MODULE AnalysisSnapshot --------------------------
(***************************************************************************)
(* The comparison that an analysis works on and its snapshot               *)
(* (internal/gitops/analysis.go, analysis_snapshot.go): two more resource  *)
(* requests on the repository of GitResources.  One copies the locked      *)
(* comparison into a private repository, the other reads a file of it.     *)
(* While a snapshot is made, the other requests change the source, and a   *)
(* second request for the same snapshot id works in the same directory.    *)
(* Snapshots of different ids share nothing: one id is modelled, and one   *)
(* comparison, locked before the behaviour begins.                         *)
(***************************************************************************)
EXTENDS GitResources

CONSTANT Stamps   \* the seconds in which commits of the snapshot are dated

VARIABLES
  locked,   \* the comparison: what git_resolve_analysis answered
  dir,      \* the directory of the snapshot id, or None
  mk,       \* per request: the commit made or the content read, and more
  touched   \* per request: another one changed the directory after its wipe

snapVars == <<locked, dir, mk, touched>>
vars     == <<gitVars, snapVars>>

NoTree == [f \in Files |-> Absent]

(* What git diff <base> -- <paths> shows of the workspace: a file the      *)
(* index does not have counts as deleted.                                  *)
Patch(g, paths) == [f \in paths |-> IF g.index[f] = Absent THEN Absent
                                                           ELSE g.tree[f]]

WorkingTree == locked.mode = "working_tree"

(* ValidateAnalysisSnapshot: the fingerprint of the workspace is the one   *)
(* that was locked; a comparison of commits cannot change.                 *)
Valid == WorkingTree => Patch(repo, DOMAIN locked.patch) = locked.patch

(* The commit compared with: the merge base, or the base that was locked.  *)
Compare == IF locked.mode = "merge_base"
           THEN MergeBase(repo, locked.base, locked.head) ELSE locked.base

(* The content the snapshot has to have.                                   *)
Wanted == IF WorkingTree
          THEN [f \in Files |-> IF f \in DOMAIN locked.patch
                                THEN locked.patch[f]
                                ELSE repo.store[locked.base].tree[f]]
          ELSE repo.store[locked.head].tree

(* ResolveAnalysisSelection: the files git knows that differ from HEAD,    *)
(* with what their diff shows; refused when there are none.                *)
WorkingTreeSelection ==
  LET h     == HeadCommit(repo)
      paths == {f \in Files : /\ repo.index[f] # Absent
                              /\ repo.tree[f] # HeadTree(repo)[f]}
  IN  IF paths = {} THEN {}
      ELSE {[mode |-> "working_tree", base |-> h, head |-> h,
             patch |-> Patch(repo, paths)]}

(* Or two names, which may stand for one commit, under either strategy.    *)
BranchSelection ==
  [mode : {"merge_base", "direct"}, base : {Base, Ours}, head : {Base, Ours},
   patch : {<<>>}]

(* A new directory; a runner that died may have left one behind.           *)
Empty == [git |-> FALSE, alt |-> FALSE, head |-> None, tree |-> NoTree,
          trees |-> {}, commits |-> {}, packed |-> {}]

SnapInit ==
  /\ Init
  /\ locked \in WorkingTreeSelection \cup BranchSelection
  /\ dir \in {None, Empty}
  /\ mk = [r \in Requests |-> [sha |-> None, tree |-> NoTree, wiped |-> FALSE,
                             left |-> FALSE, from |-> None, content |-> None]]
  /\ touched = [r \in Requests |-> FALSE]

-----------------------------------------------------------------------------
(* Snap: request r goes to step p, leaves the directory as d and remembers *)
(* m.  The requests that had wiped the directory for themselves are        *)
(* touched by the change.                                                  *)

Snap(r, q, d, m) ==
  /\ Step(r, repo, q)
  /\ dir' = d
  /\ mk' = [mk EXCEPT ![r] = m]
  /\ touched' = [x \in Requests |->
                   touched[x] \/ (x # r /\ mk[x].wiped /\ d # dir)]
  /\ UNCHANGED locked

Undo(r) == Snap(r, Goto(r, "cleanup"), dir, mk[r])

(* A command in the snapshot's repository: it fails, and the request goes  *)
(* to its deferred clean-up, when the repository is not there.             *)
Command(r, from, possible, to, d) ==
  /\ At(r, from)
  /\ IF dir # None /\ possible THEN Snap(r, Goto(r, to), d, mk[r]) ELSE Undo(r)

Validate(r) ==
  /\ At(r, "validate")
  /\ Snap(r, IF Valid THEN Goto(r, "wipe") ELSE Answer(r, "error"),
          dir, mk[r])

(* What RemoveAll leaves: nothing, or where it fails the directory, whole  *)
(* or with what it held gone.                                              *)
Remains == IF dir = None THEN {None} ELSE {None, dir, Empty}

Wipe(r) ==
  /\ At(r, "wipe")
  /\ \/ Snap(r, Goto(r, "mkdir"), None, [mk[r] EXCEPT !.wiped = TRUE])
     \/ \E d \in Remains : Snap(r, Answer(r, "error"), d, mk[r])

MkDir(r) ==
  /\ At(r, "mkdir")
  /\ Snap(r, Goto(r, "init"), IF dir = None THEN Empty ELSE dir, mk[r])

GitInit(r) == Command(r, "init", TRUE, "borrow", [dir EXCEPT !.git = TRUE])

(* The alternates file lets the new repository read the objects of the     *)
(* source; the directories above it are made once more if they are gone.   *)
Borrow(r) ==
  /\ At(r, "borrow")
  /\ Snap(r, Goto(r, "check_out"),
          [(IF dir = None THEN Empty ELSE dir) EXCEPT !.alt = TRUE], mk[r])

Start == IF WorkingTree THEN locked.base ELSE locked.head

Checkout(r) ==
  Command(r, "check_out",
          dir.git /\ dir.alt /\ dir.tree \in {NoTree, repo.store[Start].tree},
          IF WorkingTree THEN "patch" ELSE "tree",
          [dir EXCEPT !.head = Start, !.tree = repo.store[Start].tree])

(* The patch is read from the source, and refused if it is not the locked  *)
(* one.                                                                    *)
ReadPatch(r) ==
  /\ At(r, "patch")
  /\ IF Valid THEN Snap(r, Goto(r, "apply_patch"), dir, mk[r]) ELSE Undo(r)

ApplyPatch(r) ==
  Command(r, "apply_patch", dir.git /\ dir.tree = repo.store[locked.base].tree,
          "stage", [dir EXCEPT !.tree = Wanted])

(* git add -A and write-tree.  A new file that is ignored is passed over;  *)
(* the files of a selection here are all in its base, so none is.          *)
Staging == [f \in Files |->
              IF f \in Ignored /\ repo.store[locked.base].tree[f] = Absent
              THEN Absent ELSE dir.tree[f]]

WriteTree(r) ==
  /\ At(r, "stage")
  /\ IF dir # None /\ dir.git
     THEN Snap(r, Goto(r, "commit_tree"), [dir EXCEPT !.trees = @ \cup {Staging}],
               [mk[r] EXCEPT !.tree = Staging])
     ELSE Undo(r)

HeadTreeOf(r) ==
  /\ At(r, "tree")
  /\ IF dir # None /\ dir.git /\ dir.alt
     THEN Snap(r, Goto(r, "commit_tree"), dir, [mk[r] EXCEPT !.tree = Wanted])
     ELSE Undo(r)

(* commit-tree twice: the base, then the content on top of it.             *)
CommitTree(r) ==
  /\ At(r, "commit_tree")
  /\ IF /\ dir # None /\ dir.git /\ dir.alt
        /\ \/ mk[r].tree \in dir.trees
           \/ \E c \in Commits : repo.store[c].tree = mk[r].tree
     THEN \E s \in Stamps :
            LET sha == [tree |-> mk[r].tree, stamp |-> s,
                        base |-> repo.store[Compare].tree]
            IN  Snap(r, Goto(r, "reset"), [dir EXCEPT !.commits = @ \cup {sha}],
                     [mk[r] EXCEPT !.sha = sha])
     ELSE Undo(r)

Reset(r) ==
  LET sha == mk[r].sha
  IN  Command(r, "reset", dir.git /\ sha \in dir.commits, "pack",
              [dir EXCEPT !.head = sha, !.tree = sha.tree])

Pack(r) ==
  Command(r, "pack", dir.git /\ mk[r].sha \in dir.commits, "detach",
          [dir EXCEPT !.packed = @ \cup {mk[r].sha}])

(* The alternates file is removed, and must have been there.               *)
Detach(r) ==
  Command(r, "detach", dir.alt, "verify", [dir EXCEPT !.alt = FALSE])

Verify(r) ==
  Command(r, "verify", dir.git /\ mk[r].sha \in dir.commits, "revalidate", dir)

(* The clean-up is called off before the source is validated again (not    *)
(* the code).                                                              *)
KeepUnvalidated(r) ==
  /\ At(r, "revalidate")
  /\ Snap(r, IF Valid THEN Goto(r, "materialized") ELSE Answer(r, "error"),
          dir, mk[r])

Revalidate(r) ==
  /\ At(r, "revalidate")
  /\ IF Valid THEN Snap(r, Goto(r, "materialized"), dir, mk[r]) ELSE Undo(r)

(* ValidateMaterializedAnalysisSnapshot: HEAD is detached at the commit    *)
(* that was made, and the files are its content.                           *)
Materialized(r) ==
  /\ At(r, "materialized")
  /\ IF /\ dir # None /\ dir.git
        /\ dir.head = mk[r].sha /\ dir.tree = mk[r].sha.tree
     THEN Snap(r, Answer(r, "ok"), dir, mk[r]) ELSE Undo(r)

SnapFails(r) ==
  /\ rq[r].pc \in {"mkdir", "init", "borrow", "check_out", "patch", "apply_patch",
                   "stage", "tree", "commit_tree", "reset", "pack", "detach",
                   "verify", "revalidate", "materialized"}
  /\ Undo(r)

(* The error of the removal is ignored: what it could not remove is left.  *)
Cleanup(r) ==
  /\ At(r, "cleanup")
  /\ \E d \in Remains :
       Snap(r, Answer(r, "error"), d, [mk[r] EXCEPT !.left = d # None])

-----------------------------------------------------------------------------
(* AnalysisSource reads one file.  An analysis that has a snapshot reads   *)
(* from it; otherwise a file the comparison changed is read from the       *)
(* workspace after a check of the fingerprint, and every other file from a *)
(* commit.  A file that is not there is read from the base, and so is one  *)
(* of a snapshot or a commit that git show fails on for any other reason.  *)

FileOf(r) == CHOOSE f \in rq[r].ask.files : TRUE

(* Answered with one of these contents, read from p: the workspace, a      *)
(* commit, or the snapshot that request p made.                            *)
Read(r, p, contents) ==
  \E v \in contents \ {Absent} :
    Snap(r, Answer(r, "ok"), dir, [mk[r] EXCEPT !.from = p, !.content = v])

BaseSource(r) == repo.store[locked.base].tree[FileOf(r)]

SourceOfSnapshot(r) ==
  /\ At(r, "source")
  /\ \E x \in Requests :
       /\ rq[x].ans = "ok" /\ mk[x].sha # None
       /\ IF /\ dir # None /\ dir.git
             /\ dir.head = mk[x].sha /\ dir.tree = mk[x].sha.tree
          THEN Read(r, x, {mk[x].sha.tree[FileOf(r)], mk[x].sha.base[FileOf(r)]})
          ELSE Snap(r, Answer(r, "error"), dir, mk[r])

SourceOfCommit(r) ==
  /\ At(r, "source") /\ FileOf(r) \notin DOMAIN locked.patch
  /\ Read(r, "commit", {repo.store[locked.head].tree[FileOf(r)], BaseSource(r)})

SourceCheck(r) ==
  /\ At(r, "source") /\ FileOf(r) \in DOMAIN locked.patch
  /\ Snap(r, IF Valid THEN Goto(r, "read") ELSE Answer(r, "error"), dir, mk[r])

(* The workspace is read without a second look at the fingerprint.         *)
SourceRead(r) ==
  /\ At(r, "read")
  /\ LET v == repo.tree[FileOf(r)]
     IN  Read(r, "workspace", {IF v = Absent THEN BaseSource(r) ELSE v})

SourceFails(r) ==
  /\ rq[r].pc \in {"source", "read"}
  /\ Snap(r, Answer(r, "error"), dir, mk[r])

Source(r) == \/ SourceOfSnapshot(r) \/ SourceOfCommit(r) \/ SourceCheck(r)
             \/ SourceRead(r) \/ SourceFails(r)

Snapshot(r) ==
  \/ Validate(r) \/ Wipe(r) \/ MkDir(r) \/ GitInit(r) \/ Borrow(r)
  \/ Checkout(r) \/ ReadPatch(r) \/ ApplyPatch(r) \/ WriteTree(r)
  \/ HeadTreeOf(r) \/ CommitTree(r) \/ Reset(r) \/ Pack(r) \/ Detach(r)
  \/ Verify(r) \/ Revalidate(r) \/ Materialized(r) \/ SnapFails(r)
  \/ Cleanup(r)

Next == \/ GitNext /\ UNCHANGED snapVars
        \/ \E r \in Requests : Snapshot(r) \/ Source(r)

Spec == SnapInit /\ [][Next]_vars

-----------------------------------------------------------------------------
(* Properties *)

(* A creation is judged while no other one of the same id has worked in    *)
(* its directory.  Answered as created, the snapshot holds the comparison  *)
(* that was locked, although the source changed while it was made, is      *)
(* complete, detached from the source and still at that commit; a creation *)
(* that failed has left no directory behind, which a later request would   *)
(* take for a snapshot, unless it could not be removed                     *)
(* (CreateAnalysisSnapshot, ResolveAnalysisSnapshotRoot).                  *)
CreatedSound(r) ==
  /\ rq[r].ans = "error" => dir = None \/ mk[r].left
  /\ rq[r].ans = "ok" =>
       /\ mk[r].sha.base = repo.store[Compare].tree
       /\ dir # None
       /\ dir.head = mk[r].sha
       /\ dir.tree = Wanted
       /\ ~dir.alt
       /\ mk[r].sha \in dir.packed

(* What is read from a commit, or from the snapshot of such a creation, is *)
(* a side of the comparison: never what another request or an edit has     *)
(* made of the file since (AnalysisSource).                                *)
SourceSound(r) ==
  LET f == FileOf(r)
  IN  \/ mk[r].from = "workspace"
      \/ mk[r].from \in Requests /\ touched[mk[r].from]
      \/ mk[r].content \in {Wanted[f], BaseSource(r), repo.store[Compare].tree[f]}

SnapshotSound ==
  \A r \in Requests :
    /\ mk[r].wiped /\ ~touched[r] => CreatedSound(r)
    /\ rq[r].ans = "ok" /\ Op(r) = "git_analysis_source" => SourceSound(r)

(* "Working-tree analyses are only readable while the local snapshot       *)
(* fingerprint still matches" (analysis.go:223): the file an analysis is   *)
(* given has the content that was locked, or its base's where the locked   *)
(* comparison deleted it.  It does not hold: the workspace may be written  *)
(* between the check and the reading (AnalysisSource).                     *)
SourceIsLocked ==
  \A r \in Requests :
    rq[r].ans = "ok" /\ mk[r].from = "workspace" =>
      LET v == Wanted[FileOf(r)]
      IN  mk[r].content = (IF v = Absent THEN BaseSource(r) ELSE v)

=============================================================================
