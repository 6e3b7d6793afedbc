------------------------- MODULE MCAnalysisSnapshot -------------------------
(* Two requests of any kind on a repository of two branches and three      *)
(* files: one in the first commit, one that is not, and an ignored one     *)
(* that a colleague's commit has all the same.                             *)
EXTENDS AnalysisSnapshot, TLC
CONSTANTS main, dev, f1, f2, f3, r1, r2
MCAsks ==
  [op : {"branches", "git_status", "git_stash_apply",
         "git_create_analysis_snapshot"}, branch : {None}, files : {{}}]
  \cup [op : {"checkout_branch", "git_create_branch", "git_pull", "git_push",
              "git_merge", "git_merge_to"}, branch : {dev}, files : {{}}]
  \cup [op : {"git_pull", "git_push"}, branch : {None}, files : {{}}]
  \cup [op : {"git_commit"}, branch : {None}, files : {{f1}, {f2}}]
  \cup [op : {"git_restore", "write", "git_analysis_source"},
        branch : {None}, files : {{f1}}]
  \cup [op : {"git_add"}, branch : {None}, files : {{f2, f3}}]
  \cup [op : {"git_stash", "git_delete"}, branch : {None}, files : {{f1, f2}}]

(* Only readings. *)
MCReads == [op : {"git_analysis_source"}, branch : {None}, files : {{f1}}]

(* HEAD on the main branch, ahead of or behind another branch and behind   *)
(* the remote, or detached; a file of the workspace is edited or not.      *)
Heads == {<<main, Ours, None, Theirs>>, <<main, Base, Ours, None>>,
          <<main, Ours, Base, Theirs>>, <<Base, Base, None, Theirs>>}
MCInit ==
  /\ SnapInit
  /\ repo.remote[main] = Theirs
  /\ <<repo.head, repo.local[main], repo.local[dev], repo.remote[dev]>>
       \in Heads
  /\ repo.tree[f1] # Absent /\ repo.tree[f2] = Local /\ repo.tree[f3] = Local
  /\ dir # None => WorkingTree /\ repo.head = Base
  /\ CASE locked.mode = "working_tree" -> TRUE
       [] locked.mode = "merge_base" -> locked.base = Base /\ locked.head = Ours
                                       /\ repo.local[dev] # None
       [] OTHER -> locked.base = Base /\ locked.head = Ours
                   /\ ~WorkingTree /\ repo.head = Base /\ repo.tree[f1] = Base
MCSpec == MCInit /\ [][Next]_vars
Symmetry == Permutations(Requests)
=============================================================================
