-------------------------- MODULE GitResourcesProofs --------------------------
(***************************************************************************)
(* Proofs about the requests of GitResources among those of                *)
(* AnalysisSnapshot, for any number of requests, branches and files.       *)
(* RepoInv says that the histories of a repository are closed and that     *)
(* what is named in it exists, ReqInv what a request may rely on between   *)
(* two of its commands.  Both are about values, so that one lemma on git's *)
(* commands serves every request that runs them.  Typed and OpInv say what *)
(* the files are and where a request may be, LockedInv, Making, Stage and  *)
(* Reads what a snapshot holds after each of its commands.  The model's    *)
(* invariant is IInv, FInv and SInv, in the order in which they are proved.*)
(***************************************************************************)
EXTENDS AnalysisSnapshot, FiniteSetTheorems, TLAPS

IsRepo(g) ==
  g \in [store : {g.store}, local : {g.local}, remote : {g.remote},
         tracking : {g.tracking}, head : {g.head}, tree : {g.tree},
         index : {g.index}, merging : {g.merging}, unmerged : {g.unmerged},
         stash : {g.stash}]

IsReq(q) ==
  q \in [pc : {q.pc}, ask : {q.ask}, branch : {q.branch}, target : {q.target},
         source : {q.source}, fetched : {q.fetched}, tip : {q.tip},
         todo : {q.todo}, did : {q.did}, inMerge : {q.inMerge},
         crossed : {q.crossed}, ans : {q.ans}]

(* The commits that were made: one that was not has no history. *)
Made(g) == {c \in Commits : c \in Log(g, c)}

RepoInv(g) ==
  /\ IsRepo(g)
  /\ DOMAIN g.store = Commits /\ DOMAIN g.local = Branches
  /\ DOMAIN g.remote = Branches /\ DOMAIN g.tracking = Branches
  /\ \A c \in Commits : \A d \in Log(g, c) : d \in Made(g) /\ Log(g, d) \subseteq Log(g, c)
  /\ Log(g, Base) = {Base} /\ Base \in Log(g, Theirs) /\ Theirs \in Log(g, Theirs)
  /\ \A b \in Branches : /\ g.local[b] \in Made(g) \cup {None}
                         /\ g.remote[b] \in Made(g) \cup {None}
                         /\ g.tracking[b] \in Made(g) \cup {None}
                         /\ g.tracking[b] # None => /\ g.remote[b] # None
                                                    /\ g.tracking[b] \in Log(g, g.remote[b])
  /\ g.merging \in Made(g) \cup {None}
  /\ HeadCommit(g) \in Made(g)

(* A name that moves from commit c to d keeps what it had. *)
Later(g, c, d) == c # None => d # None /\ c \in Log(g, d)

(* What a step of request r may do to the repository. *)
RepoStep(g, h, r) ==
  /\ RepoInv(h)
  /\ \A c \in Commits : c \in Made(g) \/ c # r => h.store[c] = g.store[c]
  /\ \A b \in Branches : /\ Later(h, g.local[b], h.local[b])
                         /\ Later(h, g.remote[b], h.remote[b])
                         /\ Later(h, g.tracking[b], h.tracking[b])

MergeOps == {"git_merge", "git_merge_to"}
ToPhases == {"look", "checkout", "fetch", "checkout_new", "merge"}
MergePhases == ToPhases \cup {"current", "refresh", "done"}
BranchPhases == {"look", "checkout", "fetch", "checkout_new", "create", "unclaimed",
                 "create_new", "push", "pull"}

(* A merge-to between its start and its merge. *)
Sourced(g, q) ==
  /\ q.source \in Branches /\ q.target = q.branch /\ ~q.fetched
  /\ g.local[q.source] # None /\ q.tip \in Log(g, g.local[q.source])

(* A merge that is about to happen. *)
Ref(g, q) == IF q.fetched THEN g.tracking[q.source] ELSE g.local[q.source]
Merging(g, q) ==
  /\ q.source \in Branches /\ q.target \in Branches
  /\ Ref(g, q) # None /\ q.tip \in Log(g, Ref(g, q))
  /\ ~q.crossed => g.head = q.target

Reached(g, q) ==
  /\ q.target \in Branches /\ g.local[q.target] # None
  /\ q.tip \in Log(g, g.local[q.target])

MergeInv(g, q) ==
  /\ q.pc = "merge" => q.ask.op \in MergeOps /\ Merging(g, q)
  /\ q.pc # "new" /\ q.ask.op = "git_merge" =>
       /\ q.pc \in {"current", "fetch", "merge", "done"}
       /\ q.pc # "done" => q.branch \in Branches
       /\ q.pc = "fetch" => /\ q.source = q.branch /\ q.target \in Branches
                            /\ ~q.crossed => g.head = q.target
  /\ q.pc # "new" /\ q.ask.op = "git_merge_to" =>
       /\ q.pc \in MergePhases
       /\ q.pc # "done" => q.branch \in Branches
       /\ q.pc \in ToPhases => Sourced(g, q)
  /\ /\ q.pc # "new" /\ q.ask.op \in MergeOps
     /\ q.pc = "refresh" \/ (q.pc = "done" /\ q.ans = "ok")
     /\ ~q.crossed
     => Reached(g, q)

CommitInv(g, q, r) ==
  r \in Log(g, r) /\ q.ask.op = "git_commit" /\ ~q.inMerge =>
    /\ g.store[r].parent \in Made(g)
    /\ \A f \in Files : g.store[r].tree[f] # g.store[g.store[r].parent].tree[f]
                          => f \in q.ask.files

ReqInv(g, q, r) ==
  /\ IsReq(q)
  /\ q.pc \notin {"refresh", "done"} => Log(g, r) = {}
  /\ q.ans = "ok" => q.pc = "done"
  /\ q.pc = "current" => q.branch \in Branches \cup {None} /\ ~q.fetched
  /\ q.pc \in BranchPhases => q.branch \in Branches
  /\ q.pc = "checkout" => g.local[q.branch] # None
  /\ CommitInv(g, q, r)
  /\ MergeInv(g, q)

IInv == /\ RepoInv(repo)
        /\ DOMAIN rq = Requests
        /\ \A r \in Requests : ReqInv(repo, rq[r], r)

-----------------------------------------------------------------------------
(* What git's commands do to the named parts of the repository             *)

(* A change of files only, or of the merge under way.                      *)
LEMMA FilesOnly ==
  ASSUME NEW g, RepoInv(g), NEW h, IsRepo(h), NEW r,
         h.store = g.store, h.local = g.local, h.remote = g.remote,
         h.tracking = g.tracking, h.head = g.head,
         h.merging \in Made(g) \cup {None}
  PROVE  RepoStep(g, h, r)
<1>1. Made(h) = Made(g) /\ HeadCommit(h) = HeadCommit(g) /\ \A c : Log(h, c) = Log(g, c)
  BY DEF Made, HeadCommit, Log
<1>2. RepoInv(h)
  BY <1>1 DEF RepoInv
<1>3. \A b \in Branches : /\ Later(h, g.local[b], h.local[b])
                          /\ Later(h, g.remote[b], h.remote[b])
                          /\ Later(h, g.tracking[b], h.tracking[b])
  BY <1>1 DEF RepoInv, Later, Made
<1> QED BY <1>2, <1>3 DEF RepoStep

(* The repository itself.                                                  *)
LEMMA NoChange ==
  ASSUME NEW g, RepoInv(g), NEW r PROVE RepoStep(g, g, r)
  BY FilesOnly DEF RepoInv

(* One step after another.                                                 *)
LEMMA TwoSteps ==
  ASSUME NEW g, RepoInv(g), NEW r, NEW h, RepoStep(g, h, r), NEW k, RepoStep(h, k, r)
  PROVE  RepoStep(g, k, r)
<1>1. RepoInv(h) /\ RepoInv(k)
  BY DEF RepoStep
<1>2. Made(g) \subseteq Made(h)
  BY DEF RepoStep, Made, Log
<1>3. \A c \in Commits : c \in Made(g) \/ c # r => k.store[c] = g.store[c]
  BY <1>2 DEF RepoStep
<1>4. ASSUME NEW c, NEW d \in Made(h) \cup {None}, NEW e \in Made(k) \cup {None},
             Later(h, c, d), Later(k, d, e)
      PROVE  Later(k, c, e)
  <2>1. CASE c = None
    BY <2>1 DEF Later
  <2>2. CASE c # None
    <3>1. d # None /\ c \in Log(h, d) /\ d \in Made(h)
      BY <1>4, <2>2 DEF Later
    <3>2. e # None /\ d \in Log(k, e) /\ e \in Made(k)
      BY <1>4, <3>1 DEF Later
    <3>3. Log(k, d) = Log(h, d)
      BY <3>1 DEF RepoStep, Made, Log
    <3>4. Log(k, d) \subseteq Log(k, e)
      BY <1>1, <3>2 DEF RepoInv, Made
    <3> QED BY <3>1, <3>2, <3>3, <3>4 DEF Later
  <2> QED BY <2>1, <2>2
<1>5. \A b \in Branches : /\ Later(k, g.local[b], k.local[b])
                          /\ Later(k, g.remote[b], k.remote[b])
                          /\ Later(k, g.tracking[b], k.tracking[b])
  <2>1. \A b \in Branches : {h.local[b], h.remote[b], h.tracking[b]} \subseteq Made(h) \cup {None}
    BY <1>1 DEF RepoInv
  <2>2. \A b \in Branches : {k.local[b], k.remote[b], k.tracking[b]} \subseteq Made(k) \cup {None}
    BY <1>1 DEF RepoInv
  <2>3. \A b \in Branches : /\ Later(h, g.local[b], h.local[b])
                            /\ Later(h, g.remote[b], h.remote[b])
                            /\ Later(h, g.tracking[b], h.tracking[b])
                            /\ Later(k, h.local[b], k.local[b])
                            /\ Later(k, h.remote[b], k.remote[b])
                            /\ Later(k, h.tracking[b], k.tracking[b])
    BY DEF RepoStep
  <2> QED BY <1>4, <2>1, <2>2, <2>3
<1> QED BY <1>1, <1>3, <1>5 DEF RepoStep

(* git fetch: what was fetched before is part of what the remote has.      *)
LEMMA Fetch ==
  ASSUME NEW g, RepoInv(g), NEW r, NEW bs
  PROVE  RepoStep(g, Fetched(g, bs), r)
<1> DEFINE h == Fetched(g, bs)
<1>1. /\ IsRepo(h) /\ h.store = g.store /\ h.local = g.local /\ h.remote = g.remote
      /\ h.head = g.head /\ h.merging = g.merging
      /\ h.tracking = [b \in Branches |-> IF b \in bs THEN g.remote[b] ELSE g.tracking[b]]
  BY DEF RepoInv, IsRepo, Fetched
<1> HIDE DEF h
<1>2. Made(h) = Made(g) /\ HeadCommit(h) = HeadCommit(g) /\ \A c : Log(h, c) = Log(g, c)
  BY <1>1 DEF Made, HeadCommit, Log
<1>3. RepoInv(h)
  BY <1>1, <1>2 DEF RepoInv, Made
<1>4. \A b \in Branches : /\ Later(h, g.local[b], h.local[b])
                          /\ Later(h, g.remote[b], h.remote[b])
                          /\ Later(h, g.tracking[b], h.tracking[b])
  BY <1>1, <1>2 DEF RepoInv, Later, Made
<1>5. RepoStep(g, h, r)
  BY <1>1, <1>3, <1>4 DEF RepoStep
<1> QED BY <1>5 DEF h

(* git checkout: a branch keeps its commit, or is new.                     *)
LEMMA Switch ==
  ASSUME NEW g, RepoInv(g), NEW r, NEW b \in Branches, NEW c \in Made(g),
         g.local[b] \in {c, None}
  PROVE  /\ RepoStep(g, SwitchTo(g, b, c), r)
         /\ SwitchTo(g, b, c).store = g.store
         /\ SwitchTo(g, b, c).head = b
<1> DEFINE h == SwitchTo(g, b, c)
<1>1. /\ IsRepo(h) /\ h.store = g.store /\ h.remote = g.remote /\ h.tracking = g.tracking
      /\ h.local = [g.local EXCEPT ![b] = c] /\ h.head = b /\ h.merging = None
  BY DEF RepoInv, IsRepo, SwitchTo
<1> HIDE DEF h
<1>2. Made(h) = Made(g) /\ \A x : Log(h, x) = Log(g, x)
  BY <1>1 DEF Made, Log
<1>3. HeadCommit(h) = c /\ h.local[b] = c /\ \A x \in Branches \ {b} : h.local[x] = g.local[x]
  BY <1>1 DEF RepoInv, HeadCommit
<1>4. RepoInv(h)
  BY <1>1, <1>2, <1>3 DEF RepoInv
<1>5. \A x \in Branches : /\ Later(h, g.local[x], h.local[x])
                          /\ Later(h, g.remote[x], h.remote[x])
                          /\ Later(h, g.tracking[x], h.tracking[x])
  BY <1>1, <1>2, <1>3 DEF RepoInv, Later, Made
<1>6. RepoStep(g, h, r)
  BY <1>1, <1>4, <1>5 DEF RepoStep
<1> QED BY <1>1, <1>6 DEF h

(* HEAD, or its branch, is advanced to a commit whose history has it.      *)
LEMMA Advanced ==
  ASSUME NEW g, RepoInv(g), NEW r, NEW c \in Made(g), HeadCommit(g) \in Log(g, c)
  PROVE  /\ RepoStep(g, FastForward(g, c), r)
         /\ FastForward(g, c).store = g.store
         /\ HeadCommit(FastForward(g, c)) = c
         /\ g.head \in Branches => FastForward(g, c).head = g.head
<1> DEFINE h == FastForward(g, c)
<1>1. /\ IsRepo(h) /\ h.store = g.store /\ h.remote = g.remote /\ h.tracking = g.tracking
      /\ h.local = (IF g.head \in Branches THEN [g.local EXCEPT ![g.head] = c] ELSE g.local)
      /\ h.head = (IF g.head \in Branches THEN g.head ELSE c)
      /\ h.merging = g.merging
  <2> DEFINE a == Advance(g, c)
  <2>1. /\ IsRepo(a) /\ a.store = g.store /\ a.remote = g.remote /\ a.tracking = g.tracking
        /\ a.local = (IF g.head \in Branches THEN [g.local EXCEPT ![g.head] = c] ELSE g.local)
        /\ a.head = (IF g.head \in Branches THEN g.head ELSE c)
        /\ a.merging = g.merging
    BY DEF RepoInv, IsRepo, Advance
  <2> HIDE DEF a
  <2>2. h = [a EXCEPT !.tree = Moved(g, g.tree, c), !.index = Moved(g, g.index, c)]
    BY DEF FastForward, a
  <2> HIDE DEF h
  <2> QED BY <2>1, <2>2 DEF IsRepo
<1> HIDE DEF h
<1>2. Made(h) = Made(g) /\ \A x : Log(h, x) = Log(g, x)
  BY <1>1 DEF Made, Log
<1>3. c \notin Branches
  BY GitAssumption DEF Made, Commits
<1>4. HeadCommit(h) = c
  BY <1>1, <1>3 DEF RepoInv, HeadCommit
<1>5. \A x \in Branches : h.local[x] = g.local[x] \/ (h.local[x] = c /\ g.local[x] = HeadCommit(g))
  BY <1>1 DEF RepoInv, HeadCommit
<1>6. RepoInv(h)
  BY <1>1, <1>2, <1>4, <1>5 DEF RepoInv
<1>7. \A x \in Branches : /\ Later(h, g.local[x], h.local[x])
                          /\ Later(h, g.remote[x], h.remote[x])
                          /\ Later(h, g.tracking[x], h.tracking[x])
  <2>1. c # None
    BY GitAssumption DEF Made, Commits
  <2> QED BY <1>1, <1>2, <1>5, <2>1 DEF RepoInv, Later, Made
<1>8. RepoStep(g, h, r)
  BY <1>1, <1>6, <1>7 DEF RepoStep
<1> QED BY <1>1, <1>4, <1>8 DEF h

(* A commit on top of HEAD and, in a merge, of the commit merged, ...      *)
IsCommit(g, r, t, h) ==
  /\ IsRepo(h)
  /\ h.store = [g.store EXCEPT ![r] =
                  [tree |-> t, parent |-> HeadCommit(g),
                   log |-> Log(g, HeadCommit(g))
                             \cup (IF g.merging = None THEN {} ELSE Log(g, g.merging)) \cup {r}]]
  /\ h.remote = g.remote /\ h.tracking = g.tracking /\ h.merging = None
  /\ h.local = (IF g.head \in Branches THEN [g.local EXCEPT ![g.head] = r] ELSE g.local)
  /\ h.head = (IF g.head \in Branches THEN g.head ELSE r)

(* A commit keeps what is there, and is made with a closed history.        *)
LEMMA Committed ==
  ASSUME NEW g, RepoInv(g), NEW r \in Requests, Log(g, r) = {}, NEW t, NEW h,
         IsCommit(g, r, t, h)
  PROVE  RepoStep(g, h, r)
<1> USE DEF IsCommit
<1> DEFINE H == HeadCommit(g)
           other == IF g.merging = None THEN {} ELSE Log(g, g.merging)
<1>1. r \in Commits /\ r \notin Branches /\ r # None /\ r \notin {Base, Ours, Theirs}
  BY GitAssumption DEF Commits
<1>2. H \in Made(g) /\ r \notin Made(g)
  BY DEF RepoInv, Made
<1>3. \A c \in Commits \ {r} : h.store[c] = g.store[c] /\ Log(h, c) = Log(g, c)
  BY <1>1 DEF RepoInv, Log
<1>4. Log(h, r) = Log(g, H) \cup other \cup {r}
  BY <1>1 DEF RepoInv, Log
<1>5. \A d \in Log(g, H) \cup other : d \in Made(g) /\ Log(g, d) \subseteq Log(g, H) \cup other
  BY <1>2 DEF RepoInv, Made
<1> HIDE DEF H, other
<1>6. Made(h) = Made(g) \cup {r}
  BY <1>1, <1>2, <1>3, <1>4 DEF Made
<1>7. \A c \in Commits : \A d \in Log(h, c) : d \in Made(h) /\ Log(h, d) \subseteq Log(h, c)
  <2> SUFFICES ASSUME NEW c \in Commits, NEW d \in Log(h, c)
               PROVE  d \in Made(h) /\ Log(h, d) \subseteq Log(h, c)
    OBVIOUS
  <2>1. CASE c # r
    <3>1. Log(h, c) = Log(g, c) /\ d \in Made(g) /\ Log(g, d) \subseteq Log(g, c)
      BY <1>3, <2>1 DEF RepoInv
    <3>2. d \in Commits \ {r}
      BY <1>2, <3>1 DEF Made
    <3> QED BY <1>3, <1>6, <3>1, <3>2
  <2>2. CASE c = r /\ d = r
    BY <1>6, <2>2
  <2>3. CASE c = r /\ d # r
    <3>1. d \in Made(g) /\ Log(g, d) \subseteq Log(g, H) \cup other
      BY <1>4, <1>5, <2>3
    <3>2. d \in Commits \ {r}
      BY <2>3, <3>1 DEF Made
    <3> QED BY <1>3, <1>4, <1>6, <2>3, <3>1, <3>2
  <2> QED BY <2>1, <2>2, <2>3
<1>8. HeadCommit(h) = r
  BY <1>1 DEF RepoInv, HeadCommit
<1>9. \A x \in Branches : h.local[x] = g.local[x] \/ (h.local[x] = r /\ g.local[x] = H)
  BY DEF RepoInv, HeadCommit, H
<1>10. Log(h, Base) = {Base} /\ Base \in Log(h, Theirs) /\ Theirs \in Log(h, Theirs)
  BY <1>1, <1>3 DEF RepoInv, Commits
<1>11. \A c \in Made(g) : c \in Commits \ {r} /\ c # None
  BY <1>2, GitAssumption DEF Made, Commits
<1>12. RepoInv(h)
  <2>1. DOMAIN h.store = Commits /\ DOMAIN h.local = Branches
    BY DEF RepoInv
  <2>2. \A b \in Branches : /\ h.local[b] \in Made(h) \cup {None}
                            /\ h.remote[b] \in Made(h) \cup {None}
                            /\ h.tracking[b] \in Made(h) \cup {None}
                            /\ h.tracking[b] # None => /\ h.remote[b] # None
                                                       /\ h.tracking[b] \in Log(h, h.remote[b])
    BY <1>3, <1>6, <1>9, <1>11 DEF RepoInv
  <2> QED BY <1>6, <1>7, <1>8, <1>10, <2>1, <2>2 DEF RepoInv
<1>13. \A b \in Branches : /\ Later(h, g.local[b], h.local[b])
                           /\ Later(h, g.remote[b], h.remote[b])
                           /\ Later(h, g.tracking[b], h.tracking[b])
  <2>1. \A c \in Made(g) : c \in Log(h, c)
    BY <1>3, <1>11 DEF Made
  <2>2. H \in Log(h, r)
    BY <1>2, <1>4 DEF Made
  <2> QED BY <1>1, <1>9, <2>1, <2>2 DEF RepoInv, Later
<1> QED BY <1>2, <1>3, <1>12, <1>13 DEF RepoStep

(* ... as git makes it.                                                    *)
LEMMA CommitFields ==
  ASSUME NEW g, RepoInv(g), NEW r \in Requests, NEW t
  PROVE  IsCommit(g, r, t, WithCommit(g, r, t))
<1> DEFINE a == Advance(g, r)
           rec == [tree |-> t, parent |-> HeadCommit(g),
                   log |-> Log(g, HeadCommit(g))
                             \cup (IF g.merging = None THEN {} ELSE Log(g, g.merging)) \cup {r}]
           h == WithCommit(g, r, t)
<1>1. /\ IsRepo(a) /\ a.store = g.store /\ a.remote = g.remote /\ a.tracking = g.tracking
      /\ a.local = (IF g.head \in Branches THEN [g.local EXCEPT ![g.head] = r] ELSE g.local)
      /\ a.head = (IF g.head \in Branches THEN g.head ELSE r)
  BY DEF RepoInv, IsRepo, Advance
<1> HIDE DEF a
<1>2. h = [a EXCEPT !.store[r] = rec, !.merging = None]
  BY DEF WithCommit, a
<1> HIDE DEF h, rec
<1>3. /\ IsRepo(h) /\ h.store = [a.store EXCEPT ![r] = rec] /\ h.remote = a.remote
      /\ h.tracking = a.tracking /\ h.merging = None /\ h.local = a.local /\ h.head = a.head
  BY <1>1, <1>2 DEF IsRepo
<1> QED BY <1>1, <1>3 DEF h, rec, IsCommit

(* A push, whether its answer is read or not: the remote's commit is part  *)
(* of what it is given.                                                    *)
LEMMA Pushed ==
  ASSUME NEW g, RepoInv(g), NEW r, NEW b \in Branches, NEW c \in Made(g),
         Later(g, g.remote[b], c)
  PROVE  /\ RepoStep(g, [g EXCEPT !.remote[b] = c, !.tracking[b] = c], r)
         /\ [g EXCEPT !.remote[b] = c, !.tracking[b] = c].store = g.store
         /\ RepoStep(g, [g EXCEPT !.remote[b] = c], r)
         /\ [g EXCEPT !.remote[b] = c].store = g.store
<1> SUFFICES ASSUME NEW h, h \in {[g EXCEPT !.remote[b] = c, !.tracking[b] = c],
                                 [g EXCEPT !.remote[b] = c]}
             PROVE  RepoStep(g, h, r) /\ h.store = g.store
  OBVIOUS
<1>1. /\ IsRepo(h) /\ h.store = g.store /\ h.local = g.local /\ h.head = g.head
      /\ h.remote = [g.remote EXCEPT ![b] = c]
      /\ h.tracking \in {[g.tracking EXCEPT ![b] = c], g.tracking}
      /\ h.merging = g.merging
  BY DEF RepoInv, IsRepo
<1>2. Made(h) = Made(g) /\ HeadCommit(h) = HeadCommit(g) /\ \A x : Log(h, x) = Log(g, x)
  BY <1>1 DEF Made, Log, HeadCommit
<1>3. /\ h.remote[b] = c /\ h.tracking[b] \in {c, g.tracking[b]}
      /\ \A x \in Branches \ {b} : h.remote[x] = g.remote[x] /\ h.tracking[x] = g.tracking[x]
  BY <1>1 DEF RepoInv
<1>4. c # None /\ c \in Commits /\ c \in Log(g, c)
  BY GitAssumption DEF Made, Commits
<1>5. Later(g, g.tracking[b], c)
  BY <1>4 DEF RepoInv, Later, Made
<1>6. RepoInv(h)
  <2>1. \A x \in Branches : /\ h.local[x] \in Made(h) \cup {None}
                            /\ h.remote[x] \in Made(h) \cup {None}
                            /\ h.tracking[x] \in Made(h) \cup {None}
                            /\ h.tracking[x] # None => /\ h.remote[x] # None
                                                       /\ h.tracking[x] \in Log(h, h.remote[x])
    BY <1>1, <1>2, <1>3, <1>4, <1>5 DEF RepoInv, Later
  <2> QED BY <1>1, <1>2, <2>1 DEF RepoInv
<1>7. \A x \in Branches : /\ Later(h, g.local[x], h.local[x])
                          /\ Later(h, g.remote[x], h.remote[x])
                          /\ Later(h, g.tracking[x], h.tracking[x])
  BY <1>1, <1>2, <1>3, <1>5 DEF RepoInv, Later, Made
<1> QED BY <1>1, <1>6, <1>7 DEF RepoStep

(* The colleague's commit is on top of the first one.                      *)
LEMMA Published ==
  ASSUME NEW g, RepoInv(g), NEW r, NEW b \in Branches, g.remote[b] \in {None, Base}
  PROVE  RepoStep(g, [g EXCEPT !.remote[b] = Theirs], r)
<1> DEFINE h == [g EXCEPT !.remote[b] = Theirs]
<1>1. /\ IsRepo(h) /\ h.store = g.store /\ h.local = g.local /\ h.head = g.head
      /\ h.remote = [g.remote EXCEPT ![b] = Theirs] /\ h.tracking = g.tracking
      /\ h.merging = g.merging
  BY DEF RepoInv, IsRepo
<1> HIDE DEF h
<1>2. Made(h) = Made(g) /\ HeadCommit(h) = HeadCommit(g) /\ \A x : Log(h, x) = Log(g, x)
  BY <1>1 DEF Made, Log, HeadCommit
<1>3. h.remote[b] = Theirs /\ \A x \in Branches \ {b} : h.remote[x] = g.remote[x]
  BY <1>1 DEF RepoInv
<1>4. Theirs # None /\ Theirs \in Made(g) /\ Base \in Log(g, Theirs)
  BY GitAssumption DEF RepoInv, Made, Commits
<1>5. RepoInv(h)
  <2>1. g.tracking[b] # None => g.tracking[b] = Base
    BY DEF RepoInv
  <2>2. \A x \in Branches : /\ h.local[x] \in Made(h) \cup {None}
                            /\ h.remote[x] \in Made(h) \cup {None}
                            /\ h.tracking[x] \in Made(h) \cup {None}
                            /\ h.tracking[x] # None => /\ h.remote[x] # None
                                                       /\ h.tracking[x] \in Log(h, h.remote[x])
    BY <1>1, <1>2, <1>3, <1>4, <2>1 DEF RepoInv
  <2> QED BY <1>1, <1>2, <2>2 DEF RepoInv
<1>6. \A x \in Branches : /\ Later(h, g.local[x], h.local[x])
                          /\ Later(h, g.remote[x], h.remote[x])
                          /\ Later(h, g.tracking[x], h.tracking[x])
  BY <1>1, <1>2, <1>3, <1>4 DEF RepoInv, Later, Made
<1>7. RepoStep(g, h, r)
  BY <1>1, <1>5, <1>6 DEF RepoStep
<1> QED BY <1>7 DEF h

(* A merge without conflicts has both histories, ...                       *)
LEMMA Merged ==
  ASSUME NEW g, RepoInv(g), NEW r \in Requests, Log(g, r) = {}, NEW c \in Made(g)
  PROVE  /\ RepoStep(g, CleanMerge(g, c, r), r)
         /\ Log(g, c) \subseteq Log(CleanMerge(g, c, r), r)
         /\ g.head \in Branches => /\ CleanMerge(g, c, r).head = g.head
                                   /\ CleanMerge(g, c, r).local[g.head] = r
<1> DEFINE a == [g EXCEPT !.merging = c]
           t == MergedTree(g, c)
           w == WithCommit(a, r, t)
           h == CleanMerge(g, c, r)
<1>1. /\ IsRepo(a) /\ a.store = g.store /\ a.local = g.local /\ a.remote = g.remote
      /\ a.tracking = g.tracking /\ a.head = g.head /\ a.merging = c
  BY DEF RepoInv, IsRepo
<1> HIDE DEF a
<1>2. Made(a) = Made(g) /\ HeadCommit(a) = HeadCommit(g) /\ \A x : Log(a, x) = Log(g, x)
  BY <1>1 DEF Made, Log, HeadCommit
<1>3. RepoInv(a) /\ RepoStep(g, a, r)
  BY <1>1, FilesOnly DEF RepoStep
<1>4. c # None /\ r \in Commits
  BY GitAssumption DEF Made, Commits
<1> HIDE DEF t
<1>5. IsCommit(a, r, t, w)
  BY <1>3, CommitFields
<1> HIDE DEF w
<1>6. h = [w EXCEPT !.tree = Replaced(g, g.tree, t), !.index = t]
  BY DEF CleanMerge, w, a, t
<1> HIDE DEF h
<1>7. /\ IsRepo(h) /\ h.store = w.store /\ h.remote = w.remote /\ h.tracking = w.tracking
      /\ h.merging = w.merging /\ h.local = w.local /\ h.head = w.head
  BY <1>5, <1>6 DEF IsCommit, IsRepo
<1>8. IsCommit(a, r, t, h)
  BY <1>5, <1>7 DEF IsCommit
<1>9. RepoStep(a, h, r)
  BY <1>2, <1>3, <1>8, Committed
<1>10. RepoStep(g, h, r)
  BY <1>3, <1>9, TwoSteps
<1>11. Log(g, c) \subseteq Log(h, r)
  BY <1>1, <1>2, <1>3, <1>4, <1>8 DEF IsCommit, RepoInv, Log
<1>12. g.head \in Branches => h.head = g.head /\ h.local[g.head] = r
  BY <1>1, <1>8 DEF IsCommit, RepoInv
<1> QED BY <1>10, <1>11, <1>12 DEF h

(* ... one with conflicts is left open.                                    *)
LEMMA LeftOpen ==
  ASSUME NEW g, RepoInv(g), NEW r, NEW c \in Made(g)
  PROVE  RepoStep(g, ConflictedMerge(g, c), r) /\ ConflictedMerge(g, c).store = g.store
<1> DEFINE h == ConflictedMerge(g, c)
<1>1. /\ IsRepo(h) /\ h.store = g.store /\ h.local = g.local /\ h.remote = g.remote
      /\ h.tracking = g.tracking /\ h.head = g.head /\ h.merging = c
  BY DEF RepoInv, IsRepo, ConflictedMerge
<1> HIDE DEF h
<1>2. RepoStep(g, h, r)
  BY <1>1, FilesOnly
<1> QED BY <1>1, <1>2 DEF h

-----------------------------------------------------------------------------
(* What the other requests rely on                                         *)

(* A commit in the history of a name stays there.                          *)
LEMMA StaysIn ==
  ASSUME NEW g, RepoInv(g), NEW r, NEW h, RepoStep(g, h, r),
         NEW c, NEW d \in Made(g), NEW e \in Made(h), c \in Log(g, d), d \in Log(h, e)
  PROVE  c \in Log(h, e)
<1>1. Log(h, d) = Log(g, d)
  BY DEF RepoStep, Made, Log
<1>2. Log(h, d) \subseteq Log(h, e)
  BY DEF RepoStep, RepoInv, Made
<1> QED BY <1>1, <1>2

(* In that of a branch, here or as it was fetched.                         *)
LEMMA BranchKeeps ==
  ASSUME NEW g, RepoInv(g), NEW r, NEW h, RepoStep(g, h, r), NEW b \in Branches, NEW c
  PROVE  /\ g.local[b] # None => h.local[b] # None
         /\ g.tracking[b] # None => h.tracking[b] # None
         /\ g.local[b] # None /\ c \in Log(g, g.local[b]) => c \in Log(h, h.local[b])
         /\ g.tracking[b] # None /\ c \in Log(g, g.tracking[b]) => c \in Log(h, h.tracking[b])
<1>1. /\ g.local[b] \in Made(g) \cup {None} /\ g.tracking[b] \in Made(g) \cup {None}
      /\ h.local[b] \in Made(h) \cup {None} /\ h.tracking[b] \in Made(h) \cup {None}
      /\ Later(h, g.local[b], h.local[b]) /\ Later(h, g.tracking[b], h.tracking[b])
  BY DEF RepoInv, RepoStep
<1>2. g.local[b] # None => h.local[b] # None /\ g.local[b] \in Log(h, h.local[b])
  BY <1>1 DEF Later
<1>3. g.tracking[b] # None => h.tracking[b] # None /\ g.tracking[b] \in Log(h, h.tracking[b])
  BY <1>1 DEF Later
<1>4. g.local[b] # None /\ c \in Log(g, g.local[b]) => c \in Log(h, h.local[b])
  BY <1>1, <1>2, StaysIn
<1>5. g.tracking[b] # None /\ c \in Log(g, g.tracking[b]) => c \in Log(h, h.tracking[b])
  BY <1>1, <1>3, StaysIn
<1> QED BY <1>2, <1>3, <1>4, <1>5

(* The step of another request leaves a request what it relies on, or      *)
(* crosses it.                                                             *)
LEMMA OthersKeep ==
  ASSUME NEW g, RepoInv(g), NEW r, NEW h, RepoStep(g, h, r),
         NEW x \in Requests, x # r, NEW q, ReqInv(g, q, x), NEW p,
         p = IF q.pc \notin {"new", "done"} /\ h.head # g.head
             THEN [q EXCEPT !.crossed = TRUE] ELSE q
  PROVE  ReqInv(h, p, x)
<1>1. /\ IsReq(p) /\ p.pc = q.pc /\ p.ask = q.ask /\ p.branch = q.branch
      /\ p.target = q.target /\ p.source = q.source /\ p.fetched = q.fetched
      /\ p.tip = q.tip /\ p.inMerge = q.inMerge /\ p.ans = q.ans
      /\ ~p.crossed => ~q.crossed /\ (q.pc \notin {"new", "done"} => h.head = g.head)
  <2>1. CASE q.pc \notin {"new", "done"} /\ h.head # g.head
    BY <2>1 DEF ReqInv, IsReq
  <2>2. CASE ~(q.pc \notin {"new", "done"} /\ h.head # g.head)
    BY <2>2 DEF ReqInv
  <2> QED BY <2>1, <2>2
<1>2. x \in Commits /\ h.store[x] = g.store[x]
  BY DEF RepoStep, Commits
<1>3. CommitInv(h, p, x)
  <2> SUFFICES ASSUME x \in Log(h, x), q.ask.op = "git_commit", ~q.inMerge
               PROVE  /\ h.store[x].parent \in Made(h)
                      /\ \A f \in Files :
                           h.store[x].tree[f] # h.store[h.store[x].parent].tree[f]
                             => f \in q.ask.files
    BY <1>1 DEF CommitInv
  <2>1. /\ g.store[x].parent \in Made(g)
        /\ \A f \in Files : g.store[x].tree[f] # g.store[g.store[x].parent].tree[f]
                              => f \in q.ask.files
    BY <1>2 DEF ReqInv, CommitInv, Log
  <2>2. h.store[g.store[x].parent] = g.store[g.store[x].parent]
        /\ g.store[x].parent \in Made(h)
    BY <2>1 DEF RepoStep, Made, Log
  <2> QED BY <1>2, <2>1, <2>2
<1>4. Merging(g, q) => Merging(h, p) \/ p.pc # "merge"
  BY <1>1, BranchKeeps DEF Merging, Ref
<1>5. Sourced(g, q) => Sourced(h, p)
  BY <1>1, BranchKeeps DEF Sourced
<1>6. Reached(g, q) => Reached(h, p)
  BY <1>1, BranchKeeps DEF Reached
<1>7. MergeInv(h, p)
  BY <1>1, <1>4, <1>5, <1>6 DEF ReqInv, MergeInv
<1>8. p.pc = "checkout" => h.local[p.branch] # None
  BY <1>1, BranchKeeps DEF ReqInv, BranchPhases
<1> QED BY <1>1, <1>2, <1>3, <1>7, <1>8 DEF ReqInv, Log

-----------------------------------------------------------------------------
(* What a request makes of itself                                          *)

Goes(r) == IInv' /\ RepoStep(repo, repo', r)

(* It is enough to look at the repository and at the request itself.       *)
LEMMA StepGoes ==
  ASSUME IInv, NEW r \in Requests, NEW g, NEW q, Step(r, g, q),
         RepoStep(repo, g, r), ReqInv(g, q, r)
  PROVE  Goes(r)
<1>1. repo' = g /\ RepoInv(g)
  BY DEF Step, RepoStep
<1>2. DOMAIN rq' = Requests /\ rq'[r] = q
  BY DEF Step
<1>3. ASSUME NEW x \in Requests, x # r PROVE ReqInv(g, rq'[x], x)
  <2>1. rq'[x] = IF rq[x].pc \notin {"new", "done"} /\ g.head # repo.head
                 THEN [rq[x] EXCEPT !.crossed = TRUE] ELSE rq[x]
    BY <1>3 DEF Step, InFlight
  <2> QED BY <1>3, <2>1, OthersKeep DEF IInv
<1>4. \A x \in Requests : ReqInv(repo', rq'[x], x)
  BY <1>1, <1>2, <1>3
<1> QED BY <1>1, <1>2, <1>4 DEF Goes, IInv

(* An error is answered: nothing is claimed.                               *)
LEMMA FailsGoes ==
  ASSUME IInv, NEW r \in Requests, NEW g, RepoStep(repo, g, r), g.store = repo.store,
         Step(r, g, Answer(r, "error"))
  PROVE  Goes(r)
<1> DEFINE q == rq[r]
           p == Answer(r, "error")
<1>1. ReqInv(repo, q, r)
  BY DEF IInv
<1>2. IsReq(p) /\ p.pc = "done" /\ p.ans = "error" /\ p.ask = q.ask /\ p.inMerge = q.inMerge
  BY <1>1 DEF ReqInv, IsReq, Answer
<1> HIDE DEF q, p
<1>3. CommitInv(g, p, r)
  BY <1>1, <1>2 DEF ReqInv, CommitInv, Made, Log
<1>4. MergeInv(g, p)
  BY <1>2 DEF MergeInv, MergePhases, ToPhases
<1>5. ReqInv(g, p, r)
  BY <1>2, <1>3, <1>4 DEF ReqInv, BranchPhases
<1> QED BY <1>5, StepGoes DEF p

(* Most errors leave the repository as it is.                              *)
LEMMA ErrorGoes == ASSUME IInv, NEW r \in Requests, Error(r) PROVE Goes(r)
  BY FailsGoes, NoChange DEF Error, IInv

(* A request that merges nothing, and has committed nothing, goes on.      *)
LEMMA OnwardGoes ==
  ASSUME IInv, NEW r \in Requests, NEW g, RepoStep(repo, g, r), g.store = repo.store,
         NEW p, Step(r, g, p), IsReq(p), p.ask = rq[r].ask,
         rq[r].pc \notin {"new", "refresh", "done"},
         rq[r].pc \notin MergePhases \/ rq[r].ask.op \notin MergeOps,
         p.pc \notin {"new", "merge", "current"},
         p.pc \in BranchPhases => p.branch \in Branches,
         p.pc = "checkout" => g.local[p.branch] # None,
         p.ans = "ok" => p.pc = "done"
  PROVE  Goes(r)
<1> DEFINE q == rq[r]
<1>1. ReqInv(repo, q, r)
  BY DEF IInv
<1>2. q.ask.op \notin MergeOps
  BY <1>1 DEF ReqInv, MergeInv, MergeOps, MergePhases, ToPhases
<1>3. Log(g, r) = {}
  BY <1>1 DEF ReqInv, Log
<1>4. MergeInv(g, p)
  BY <1>2 DEF MergeInv, MergeOps
<1>5. ReqInv(g, p, r)
  BY <1>3, <1>4 DEF ReqInv, CommitInv
<1> QED BY <1>5, StepGoes

(* The forms in which most do.                                             *)
LEMMA Fields ==
  ASSUME NEW r, IsReq(rq[r]), NEW p, NEW a
  PROVE  /\ IsReq(Goto(r, p)) /\ Goto(r, p).pc = p /\ Goto(r, p).ask = rq[r].ask
         /\ Goto(r, p).branch = rq[r].branch /\ Goto(r, p).target = rq[r].target
         /\ Goto(r, p).source = rq[r].source /\ Goto(r, p).fetched = rq[r].fetched
         /\ Goto(r, p).tip = rq[r].tip /\ Goto(r, p).inMerge = rq[r].inMerge
         /\ Goto(r, p).crossed = rq[r].crossed /\ Goto(r, p).ans = rq[r].ans
         /\ IsReq(Answer(r, a)) /\ Answer(r, a).pc = "done" /\ Answer(r, a).ask = rq[r].ask
         /\ Answer(r, a).target = rq[r].target /\ Answer(r, a).tip = rq[r].tip
         /\ Answer(r, a).inMerge = rq[r].inMerge /\ Answer(r, a).crossed = rq[r].crossed
         /\ Answer(r, a).ans = a
  BY DEF IsReq, Goto, Answer

(* A step on that only moves the request.                                  *)
LEMMA GotoGoes ==
  ASSUME IInv, NEW r \in Requests, NEW g, RepoStep(repo, g, r), g.store = repo.store,
         NEW p, Step(r, g, Goto(r, p)),
         rq[r].pc \notin {"new", "refresh", "done"},
         rq[r].pc \notin MergePhases \/ rq[r].ask.op \notin MergeOps,
         p \notin {"new", "merge", "current", "checkout"},
         p \in BranchPhases => rq[r].branch \in Branches
  PROVE  Goes(r)
<1>1. IsReq(rq[r]) /\ rq[r].ans # "ok"
  BY DEF IInv, ReqInv
<1> QED BY <1>1, Fields, OnwardGoes

(* Or answers it.                                                          *)
LEMMA OkGoes ==
  ASSUME IInv, NEW r \in Requests, NEW g, RepoStep(repo, g, r), g.store = repo.store,
         NEW a, Step(r, g, Answer(r, a)),
         rq[r].pc \notin {"new", "refresh", "done"},
         rq[r].pc \notin MergePhases \/ rq[r].ask.op \notin MergeOps
  PROVE  Goes(r)
<1>1. IsReq(rq[r])
  BY DEF IInv, ReqInv
<1>2. "done" \notin BranchPhases
  BY DEF BranchPhases
<1> QED BY <1>1, <1>2, Fields, OnwardGoes

-----------------------------------------------------------------------------
(* The requests, one by one                                                *)

(* The start of a request.                                                 *)
LEMMA DispatchGoes ==
  ASSUME IInv, NEW r \in Requests, Dispatch(r) \/ Refuse(r) PROVE Goes(r)
<1>1. rq[r].pc = "new" /\ Log(repo, r) = {} /\ RepoInv(repo)
  BY DEF Dispatch, Refuse, At, IInv, ReqInv
<1>2. CASE Dispatch(r)
  <2>1. PICK a \in Asks :
          Step(r, repo, [Idle EXCEPT !.pc = FirstStep[a.op], !.ask = a,
                                     !.branch = a.branch, !.todo = a.files])
    BY <1>2 DEF Dispatch
  <2> DEFINE p == [Idle EXCEPT !.pc = FirstStep[a.op], !.ask = a,
                               !.branch = a.branch, !.todo = a.files]
  <2>2. /\ IsReq(p) /\ p.pc = FirstStep[a.op] /\ p.ask = a /\ p.branch = a.branch
        /\ p.ans = "none" /\ p.fetched = FALSE
    BY DEF Idle, IsReq
  <2> HIDE DEF p
  <2>3. /\ a.op \in DOMAIN FirstStep /\ a.branch \in Branches \cup {None}
        /\ a.op \in {"checkout_branch", "git_create_branch", "git_merge", "git_merge_to"}
             => a.branch \in Branches
    BY AskAssumption, GitAssumption
  <2>4. /\ FirstStep[a.op] \notin {"merge", "done", "checkout", "new"}
        /\ FirstStep[a.op] = "refresh" => a.op \in {"branches", "git_status"}
        /\ FirstStep[a.op] \in BranchPhases => a.op \in {"checkout_branch", "git_create_branch"}
        /\ a.op \in MergeOps => FirstStep[a.op] = "current"
    BY <2>3 DEF FirstStep, BranchPhases, MergeOps
  <2>5. CommitInv(repo, p, r)
    BY <1>1 DEF CommitInv
  <2>6. MergeInv(repo, p)
    BY <2>2, <2>3, <2>4 DEF MergeInv, MergeOps, MergePhases, ToPhases
  <2>7. ReqInv(repo, p, r)
    BY <1>1, <2>2, <2>3, <2>4, <2>5, <2>6 DEF ReqInv
  <2> QED BY <1>1, <2>1, <2>7, StepGoes, NoChange DEF p
<1>3. CASE Refuse(r)
  <2>1. PICK a \in Asks :
          Step(r, repo, [Idle EXCEPT !.ask = a, !.pc = "done", !.ans = "error"])
    BY <1>3 DEF Refuse
  <2> DEFINE p == [Idle EXCEPT !.ask = a, !.pc = "done", !.ans = "error"]
  <2>2. IsReq(p) /\ p.pc = "done" /\ p.ans = "error"
    BY DEF Idle, IsReq
  <2> HIDE DEF p
  <2>3. CommitInv(repo, p, r)
    BY <1>1 DEF CommitInv
  <2>4. MergeInv(repo, p)
    BY <2>2 DEF MergeInv, MergePhases, ToPhases
  <2>5. ReqInv(repo, p, r)
    BY <2>2, <2>3, <2>4 DEF ReqInv, BranchPhases
  <2> QED BY <1>1, <2>1, <2>5, StepGoes, NoChange DEF p
<1> QED BY <1>2, <1>3

(* A command fails.                                                        *)
LEMMA CommandFailsGoes == ASSUME IInv, NEW r \in Requests, CommandFails(r) PROVE Goes(r)
  BY ErrorGoes DEF CommandFails

(* A checkout is done: the merge of a merge-to is next.                    *)
LEMMA CheckedOut ==
  ASSUME IInv, NEW r \in Requests, NEW g, RepoStep(repo, g, r), g.store = repo.store,
         g.head = rq[r].branch, rq[r].pc \in {"look", "checkout", "checkout_new"},
         Step(r, g, Goto(r, AfterCheckout(r)))
  PROVE  Goes(r)
<1> DEFINE q == rq[r]
<1>1. ReqInv(repo, q, r) /\ IsReq(q) /\ q.branch \in Branches
  BY DEF IInv, ReqInv, BranchPhases
<1>2. CASE q.ask.op = "git_merge_to"
  <2> DEFINE p == Goto(r, "merge")
  <2>1. /\ IsReq(p) /\ p.pc = "merge" /\ p.ask = q.ask /\ p.branch = q.branch
        /\ p.target = q.target /\ p.source = q.source /\ p.fetched = q.fetched
        /\ p.tip = q.tip /\ p.ans = q.ans
    BY <1>1, Fields
  <2>2. AfterCheckout(r) = "merge"
    BY <1>2 DEF AfterCheckout, Op
  <2> HIDE DEF p
  <2>3. Sourced(repo, q)
    BY <1>1, <1>2 DEF ReqInv, MergeInv, ToPhases
  <2>4. Sourced(g, p)
    BY <2>1, <2>3, BranchKeeps DEF Sourced, IInv
  <2>5. Merging(g, p)
    BY <1>1, <2>1, <2>4 DEF Merging, Sourced, Ref
  <2>6. Log(g, r) = {} /\ p.ans # "ok"
    BY <1>1, <2>1 DEF ReqInv, Log
  <2>7. MergeInv(g, p)
    BY <1>1, <1>2, <2>1, <2>4, <2>5 DEF MergeInv, MergeOps, MergePhases, ToPhases
  <2>8. CommitInv(g, p, r)
    BY <2>6 DEF CommitInv
  <2>9. ReqInv(g, p, r)
    BY <1>1, <2>1, <2>6, <2>7, <2>8 DEF ReqInv, BranchPhases
  <2> QED BY <2>2, <2>9, StepGoes DEF p
<1>3. CASE q.ask.op # "git_merge_to"
  <2>1. q.ask.op \notin MergeOps
    BY <1>1, <1>3 DEF ReqInv, MergeInv, MergeOps
  <2>2. AfterCheckout(r) \in {"pull", "refresh"}
    BY <1>3 DEF AfterCheckout, Op
  <2> QED BY <1>1, <2>1, <2>2, GotoGoes
<1> QED BY <1>2, <1>3

(* Until then a merge-to keeps its source.                                 *)
LEMMA ToGoes ==
  ASSUME IInv, NEW r \in Requests, NEW g, RepoStep(repo, g, r), g.store = repo.store,
         NEW p, p \in {"checkout", "fetch", "checkout_new"},
         rq[r].pc \in {"look", "checkout", "fetch", "checkout_new"},
         rq[r].ask.op # "git_merge",
         p = "checkout" => g.local[rq[r].branch] # None,
         Step(r, g, Goto(r, p))
  PROVE  Goes(r)
<1> DEFINE q == rq[r]
<1>1. ReqInv(repo, q, r) /\ IsReq(q) /\ q.branch \in Branches
  BY DEF IInv, ReqInv, BranchPhases
<1> DEFINE k == Goto(r, p)
<1>2. /\ IsReq(k) /\ k.pc = p /\ k.ask = q.ask /\ k.branch = q.branch
      /\ k.target = q.target /\ k.source = q.source /\ k.fetched = q.fetched
      /\ k.tip = q.tip /\ k.ans = q.ans
  BY <1>1, Fields
<1> HIDE DEF k
<1>3. Log(g, r) = {} /\ k.ans # "ok"
  BY <1>1, <1>2 DEF ReqInv, Log
<1>4. q.ask.op = "git_merge_to" => Sourced(repo, q)
  BY <1>1 DEF ReqInv, MergeInv, ToPhases
<1>5. q.ask.op = "git_merge_to" => Sourced(g, k)
  BY <1>2, <1>4, BranchKeeps DEF Sourced, IInv
<1>6. MergeInv(g, k)
  BY <1>1, <1>2, <1>5 DEF MergeInv, MergeOps, MergePhases, ToPhases
<1>7. CommitInv(g, k, r)
  BY <1>3 DEF CommitInv
<1>8. ReqInv(g, k, r)
  BY <1>1, <1>2, <1>3, <1>6, <1>7 DEF ReqInv
<1> QED BY <1>8, StepGoes DEF k

(* checkoutBranch                                                          *)
LEMMA CheckoutGoes ==
  ASSUME IInv, NEW r \in Requests, Look(r) \/ CheckoutLocal(r) \/ CheckoutNew(r)
  PROVE  Goes(r)
<1> DEFINE q == rq[r]
           b == q.branch
<1>1. RepoInv(repo) /\ ReqInv(repo, q, r) /\ RepoStep(repo, repo, r)
  BY NoChange DEF IInv
<1>2. q.pc \in {"look", "checkout", "checkout_new"} /\ b \in Branches
  BY <1>1 DEF Look, CheckoutLocal, CheckoutNew, At, ReqInv, BranchPhases
<1>3. q.ask.op # "git_merge"
  BY <1>1, <1>2 DEF ReqInv, MergeInv
<1>4. CASE Look(r)
  <2>1. CASE repo.head = b /\ Step(r, repo, Goto(r, AfterCheckout(r)))
    BY <1>1, <1>2, <2>1, CheckedOut
  <2>2. CASE repo.local[b] # None /\ Step(r, repo, Goto(r, "checkout"))
    BY <1>1, <1>2, <1>3, <2>2, ToGoes
  <2>3. CASE Step(r, repo, Goto(r, "fetch"))
    BY <1>1, <1>2, <1>3, <2>3, ToGoes
  <2> QED BY <1>4, <2>1, <2>2, <2>3 DEF Look
<1>5. CASE CheckoutLocal(r)
  <2> DEFINE c == repo.local[b]
  <2>1. c \in Made(repo)
    BY <1>1, <1>2, <1>5 DEF CheckoutLocal, At, ReqInv, RepoInv
  <2>2. CASE CanSwitch(repo, c)
    <3>1. Step(r, SwitchTo(repo, b, c), Goto(r, AfterCheckout(r)))
      BY <1>5, <2>2 DEF CheckoutLocal
    <3>2. /\ RepoStep(repo, SwitchTo(repo, b, c), r)
          /\ SwitchTo(repo, b, c).store = repo.store /\ SwitchTo(repo, b, c).head = b
      BY <1>1, <1>2, <2>1, Switch
    <3> QED BY <1>2, <3>1, <3>2, CheckedOut
  <2>3. CASE ~CanSwitch(repo, c)
    BY <1>5, <2>3, ErrorGoes DEF CheckoutLocal
  <2> QED BY <2>2, <2>3
<1>6. CASE CheckoutNew(r)
  <2> DEFINE c == repo.tracking[b]
  <2>1. CASE repo.local[b] = None /\ c # None /\ CanSwitch(repo, c)
    <3>1. Step(r, SwitchTo(repo, b, c), Goto(r, AfterCheckout(r)))
      BY <1>6, <2>1 DEF CheckoutNew
    <3>2. c \in Made(repo)
      BY <1>1, <1>2, <2>1 DEF RepoInv
    <3>3. /\ RepoStep(repo, SwitchTo(repo, b, c), r)
          /\ SwitchTo(repo, b, c).store = repo.store /\ SwitchTo(repo, b, c).head = b
      BY <1>1, <1>2, <2>1, <3>2, Switch
    <3> QED BY <1>2, <3>1, <3>3, CheckedOut
  <2>2. CASE ~(repo.local[b] = None /\ c # None /\ CanSwitch(repo, c))
    BY <1>6, <2>2, ErrorGoes DEF CheckoutNew
  <2> QED BY <2>1, <2>2
<1> QED BY <1>4, <1>5, <1>6

(* The source of a merge, or the branch to check out, is fetched.          *)
LEMMA FetchBranchGoes == ASSUME IInv, NEW r \in Requests, FetchBranch(r) PROVE Goes(r)
<1> DEFINE q == rq[r]
           b == q.branch
           g == Fetched(repo, {b})
<1>1. RepoInv(repo) /\ ReqInv(repo, q, r) /\ IsReq(q) /\ q.pc = "fetch" /\ b \in Branches
  BY DEF IInv, ReqInv, FetchBranch, At, BranchPhases
<1>2. /\ RepoStep(repo, g, r) /\ g.store = repo.store /\ g.head = repo.head
      /\ g.local = repo.local
      /\ g.tracking = [x \in Branches |-> IF x \in {b} THEN repo.remote[x] ELSE repo.tracking[x]]
  BY <1>1, Fetch DEF Fetched, RepoInv, IsRepo
<1> HIDE DEF g
<1>3. CASE repo.remote[b] = None
  BY <1>3, ErrorGoes DEF FetchBranch
<1>4. CASE repo.remote[b] # None /\ q.ask.op = "git_merge"
  <2> DEFINE p == [Goto(r, "merge") EXCEPT !.fetched = TRUE, !.tip = repo.remote[b]]
  <2>1. Step(r, g, p)
    BY <1>4 DEF FetchBranch, Op, g
  <2>2. /\ IsReq(p) /\ p.pc = "merge" /\ p.ask = q.ask /\ p.branch = b
        /\ p.target = q.target /\ p.source = q.source /\ p.fetched = TRUE
        /\ p.tip = repo.remote[b] /\ p.ans = q.ans /\ p.crossed = q.crossed
    <3> DEFINE k == Goto(r, "merge")
    <3>1. /\ IsReq(k) /\ k.pc = "merge" /\ k.ask = q.ask /\ k.branch = b
          /\ k.target = q.target /\ k.source = q.source /\ k.ans = q.ans /\ k.crossed = q.crossed
      BY <1>1, Fields
    <3> HIDE DEF k
    <3>2. p = [k EXCEPT !.fetched = TRUE, !.tip = repo.remote[b]]
      BY DEF k
    <3> HIDE DEF p
    <3> QED BY <3>1, <3>2 DEF IsReq
  <2> HIDE DEF p
  <2>3. /\ q.source = b /\ q.target \in Branches
        /\ ~q.crossed => repo.head = q.target
    BY <1>1, <1>4 DEF ReqInv, MergeInv
  <2>4. repo.remote[b] \in Log(g, g.tracking[b]) /\ g.tracking[b] # None
    BY <1>1, <1>2, <1>4 DEF RepoInv, Made, Log
  <2>5. Merging(g, p)
    BY <1>1, <1>2, <2>2, <2>3, <2>4 DEF Merging, Ref
  <2>6. Log(g, r) = {} /\ p.ans # "ok"
    BY <1>1, <1>2, <2>2 DEF ReqInv, Log
  <2>7. MergeInv(g, p)
    BY <1>1, <1>4, <2>2, <2>5 DEF MergeInv, MergeOps
  <2>8. CommitInv(g, p, r)
    BY <2>6 DEF CommitInv
  <2>9. ReqInv(g, p, r)
    BY <1>1, <2>2, <2>6, <2>7, <2>8 DEF ReqInv, BranchPhases
  <2> QED BY <1>2, <2>1, <2>9, StepGoes
<1>5. CASE repo.remote[b] # None /\ q.ask.op # "git_merge"
  <2>1. Step(r, g, Goto(r, "checkout_new"))
    BY <1>5 DEF FetchBranch, Op, g
  <2> QED BY <1>1, <1>2, <1>5, <2>1, ToGoes
<1> QED BY <1>3, <1>4, <1>5

(* The branches are listed, and the request is answered.                   *)
LEMMA RefreshGoes == ASSUME IInv, NEW r \in Requests, Refresh(r) PROVE Goes(r)
<1> DEFINE q == rq[r]
           p == Answer(r, "ok")
<1>1. RepoInv(repo) /\ ReqInv(repo, q, r) /\ IsReq(q) /\ q.pc = "refresh"
  BY DEF IInv, ReqInv, Refresh, At
<1>2. PICK g \in {repo, Fetched(repo, Branches)} : Step(r, g, p)
  BY DEF Refresh
<1>3. RepoStep(repo, g, r) /\ g.store = repo.store /\ g.local = repo.local
  BY <1>1, NoChange, Fetch DEF Fetched, RepoInv, IsRepo
<1>4. /\ IsReq(p) /\ p.pc = "done" /\ p.ask = q.ask /\ p.target = q.target /\ p.tip = q.tip
      /\ p.inMerge = q.inMerge /\ p.crossed = q.crossed
  BY <1>1, Fields
<1> HIDE DEF p
<1>5. CommitInv(g, p, r)
  BY <1>1, <1>3, <1>4 DEF ReqInv, CommitInv, Made, Log
<1>6. q.ask.op \in MergeOps /\ ~q.crossed => Reached(repo, q)
  BY <1>1 DEF ReqInv, MergeInv
<1>7. q.ask.op \in MergeOps /\ ~q.crossed => Reached(g, p)
  BY <1>3, <1>4, <1>6 DEF Reached, Log
<1>8. MergeInv(g, p)
  BY <1>4, <1>7 DEF MergeInv, MergePhases, ToPhases
<1>9. ReqInv(g, p, r)
  BY <1>4, <1>5, <1>8 DEF ReqInv, BranchPhases
<1> QED BY <1>2, <1>3, <1>9, StepGoes

(* CreateBranch                                                            *)
LEMMA CreateGoes ==
  ASSUME IInv, NEW r \in Requests, CreateLook(r) \/ CreateUnclaimed(r) \/ CreateNew(r)
  PROVE  Goes(r)
<1> DEFINE q == rq[r]
           b == q.branch
<1>1. RepoInv(repo) /\ ReqInv(repo, q, r) /\ RepoStep(repo, repo, r)
  BY NoChange DEF IInv
<1>2. CASE CreateLook(r)
  <2>1. CASE Error(r)
    BY <2>1, ErrorGoes
  <2>2. CASE \E g \in {repo, Fetched(repo, Branches)} : Step(r, g, Goto(r, "unclaimed"))
    <3>1. PICK g \in {repo, Fetched(repo, Branches)} : Step(r, g, Goto(r, "unclaimed"))
      BY <2>2
    <3>2. RepoStep(repo, g, r) /\ g.store = repo.store
      BY <1>1, Fetch DEF Fetched, RepoInv, IsRepo
    <3>3. q.pc = "create" /\ b \in Branches
      BY <1>1, <1>2 DEF CreateLook, At, ReqInv, BranchPhases
    <3> QED BY <3>1, <3>2, <3>3, GotoGoes DEF MergePhases, ToPhases
  <2> QED BY <1>2, <2>1, <2>2 DEF CreateLook
<1>3. CASE CreateUnclaimed(r)
  <2>1. CASE Error(r)
    BY <2>1, ErrorGoes
  <2>2. CASE Step(r, repo, Goto(r, "create_new"))
    <3>1. q.pc = "unclaimed" /\ b \in Branches
      BY <1>1, <1>3 DEF CreateUnclaimed, At, ReqInv, BranchPhases
    <3> QED BY <1>1, <2>2, <3>1, GotoGoes DEF MergePhases, ToPhases
  <2> QED BY <1>3, <2>1, <2>2 DEF CreateUnclaimed
<1>4. CASE CreateNew(r)
  <2>1. CASE Error(r)
    BY <2>1, ErrorGoes
  <2>2. CASE repo.local[b] = None /\ Step(r, SwitchTo(repo, b, HeadCommit(repo)), Goto(r, "refresh"))
    <3>1. q.pc = "create_new" /\ b \in Branches
      BY <1>1, <1>4 DEF CreateNew, At, ReqInv, BranchPhases
    <3>2. /\ RepoStep(repo, SwitchTo(repo, b, HeadCommit(repo)), r)
          /\ SwitchTo(repo, b, HeadCommit(repo)).store = repo.store
      BY <1>1, <2>2, <3>1, Switch DEF RepoInv
    <3> QED BY <2>2, <3>1, <3>2, GotoGoes DEF MergePhases, ToPhases, BranchPhases
  <2> QED BY <1>4, <2>1, <2>2 DEF CreateNew
<1> QED BY <1>2, <1>3, <1>4

(* CommitFiles and AddFiles, up to the commit: the index changes.          *)
LEMMA AddGoes ==
  ASSUME IInv, NEW r \in Requests, Add(r) \/ Staged(r) \/ MergeHead(r) PROVE Goes(r)
<1> DEFINE q == rq[r]
<1>1. RepoInv(repo) /\ ReqInv(repo, q, r) /\ IsReq(q) /\ RepoStep(repo, repo, r)
  BY NoChange DEF IInv, ReqInv
<1>2. q.pc \in {"add", "staged", "merge_head"} /\ q.ans # "ok"
  BY <1>1 DEF Add, Staged, MergeHead, At, ReqInv
<1>3. CASE Add(r)
  <2>1. CASE Error(r)
    BY <2>1, ErrorGoes
  <2>2. CASE ~Error(r)
    <3> DEFINE F == rq[r].ask.files
               S == {f \in F : f \notin Ignored \/ repo.index[f] # Absent}
               i == [f \in Files |-> IF f \in S THEN repo.tree[f] ELSE repo.index[f]]
               g == [repo EXCEPT !.index = i, !.unmerged = @ \ S]
    <3>1. /\ IsRepo(g) /\ g.store = repo.store /\ g.local = repo.local
          /\ g.remote = repo.remote /\ g.tracking = repo.tracking /\ g.head = repo.head
          /\ g.merging = repo.merging
      BY <1>1 DEF RepoInv, IsRepo
    <3>2. \/ Step(r, g, Answer(r, "error"))
          \/ \E p \in {"staged", "refresh"} : Step(r, g, Goto(r, p))
      BY <1>3, <2>2 DEF Add
    <3> HIDE DEF g
    <3>3. RepoStep(repo, g, r)
      BY <1>1, <3>1, FilesOnly DEF RepoInv
    <3> QED BY <1>2, <3>1, <3>2, <3>3, FailsGoes, GotoGoes
            DEF MergePhases, ToPhases, BranchPhases
  <2> QED BY <2>1, <2>2
<1>4. CASE Staged(r)
  <2>1. CASE Error(r)
    BY <2>1, ErrorGoes
  <2>2. CASE Step(r, repo, Goto(r, "merge_head"))
    BY <1>1, <1>2, <2>2, GotoGoes DEF MergePhases, ToPhases, BranchPhases
  <2> QED BY <1>4, <2>1, <2>2 DEF Staged
<1>5. CASE MergeHead(r)
  <2>1. PICK m \in {FALSE, repo.merging # None} :
          Step(r, repo, [Goto(r, "commit") EXCEPT !.inMerge = m])
    BY <1>5 DEF MergeHead
  <2> DEFINE p == [Goto(r, "commit") EXCEPT !.inMerge = m]
  <2>2. IsReq(p) /\ p.pc = "commit" /\ p.ask = q.ask /\ p.ans = q.ans
    BY <1>1 DEF Goto, IsReq
  <2>3. Step(r, repo, p)
    BY <2>1
  <2> HIDE DEF p
  <2> QED BY <1>1, <1>2, <2>2, <2>3, OnwardGoes DEF MergePhases, ToPhases, BranchPhases
<1> QED BY <1>3, <1>4, <1>5

(* The commit of the selected paths changes nothing but them.              *)
LEMMA CommitGoes ==
  ASSUME IInv, NEW r \in Requests, CommitSelected(r) \/ CommitIndex(r) PROVE Goes(r)
<1> DEFINE q == rq[r]
           p == Answer(r, "ok")
<1>1. RepoInv(repo) /\ ReqInv(repo, q, r) /\ IsReq(q) /\ q.pc = "commit"
  BY DEF IInv, ReqInv, CommitSelected, CommitIndex, At
<1>2. Log(repo, r) = {} /\ q.ask.op \notin MergeOps
  BY <1>1 DEF ReqInv, MergeInv, MergeOps, MergePhases, ToPhases
<1>3. /\ IsReq(p) /\ p.pc = "done" /\ p.ask = q.ask /\ p.inMerge = q.inMerge
  BY <1>1, Fields
<1>4. HeadCommit(repo) \in Made(repo) /\ r \in Commits /\ HeadCommit(repo) # r
  BY <1>1, <1>2 DEF RepoInv, Made, Commits
<1>5. ASSUME NEW t, NEW g, Step(r, g, p), IsCommit(repo, r, t, g),
             q.inMerge \/ \A f \in Files : t[f] # HeadTree(repo)[f] => f \in q.ask.files
      PROVE  Goes(r)
  <2>1. RepoStep(repo, g, r)
    BY <1>1, <1>2, <1>5, Committed
  <2>2. g.store[r].tree = t /\ g.store[r].parent = HeadCommit(repo)
    BY <1>1, <1>4, <1>5 DEF IsCommit, RepoInv
  <2>3. g.store[HeadCommit(repo)] = repo.store[HeadCommit(repo)]
    BY <1>4, <2>1 DEF RepoStep, Made
  <2>4. HeadCommit(repo) \in Made(g)
    BY <1>4, <2>3 DEF Made, Log
  <2> HIDE DEF p
  <2>5. CommitInv(g, p, r)
    BY <1>3, <1>5, <2>2, <2>3, <2>4 DEF CommitInv, HeadTree
  <2>6. MergeInv(g, p)
    BY <1>2, <1>3 DEF MergeInv, MergeOps
  <2>7. ReqInv(g, p, r)
    BY <1>3, <2>5, <2>6 DEF ReqInv, BranchPhases
  <2> QED BY <1>5, <2>1, <2>7, StepGoes
<1>6. CASE CommitSelected(r)
  <2>1. CASE Error(r)
    BY <2>1, ErrorGoes
  <2>2. CASE ~Error(r)
    <3> DEFINE F == rq[r].ask.files
               t == [f \in Files |-> IF f \in F THEN repo.tree[f] ELSE HeadTree(repo)[f]]
               w == WithCommit(repo, r, t)
               i == [f \in Files |-> IF f \in F THEN repo.tree[f] ELSE repo.index[f]]
               g == [w EXCEPT !.index = i]
    <3>1. Step(r, g, p)
      BY <1>6, <2>2 DEF CommitSelected
    <3>2. \A f \in Files : t[f] # HeadTree(repo)[f] => f \in q.ask.files
      OBVIOUS
    <3> HIDE DEF t, i, p
    <3>3. IsCommit(repo, r, t, w)
      BY <1>1, CommitFields
    <3> HIDE DEF w
    <3>4. /\ IsRepo(g) /\ g.store = w.store /\ g.local = w.local /\ g.remote = w.remote
          /\ g.tracking = w.tracking /\ g.merging = w.merging /\ g.head = w.head
      BY <3>3 DEF IsCommit, IsRepo
    <3> HIDE DEF g
    <3>5. IsCommit(repo, r, t, g)
      BY <3>3, <3>4 DEF IsCommit
    <3> QED BY <1>5, <3>1, <3>2, <3>5
  <2> QED BY <2>1, <2>2
<1>7. CASE CommitIndex(r)
  <2>1. CASE Error(r)
    BY <2>1, ErrorGoes
  <2>2. CASE Step(r, WithCommit(repo, r, repo.index), p)
    <3>1. q.inMerge
      BY <1>7 DEF CommitIndex
    <3> HIDE DEF p
    <3>2. IsCommit(repo, r, repo.index, WithCommit(repo, r, repo.index))
      BY <1>1, CommitFields
    <3> QED BY <1>5, <2>2, <3>1, <3>2
  <2> QED BY <1>7, <2>1, <2>2 DEF CommitIndex
<1> QED BY <1>6, <1>7

(* The requests that change files of the workspace only.                   *)
LEMMA FilesGoes ==
  ASSUME IInv, NEW r \in Requests,
         Sort(r) \/ Restore(r) \/ DeleteOne(r) \/ DeleteEnd(r) \/ Write(r) PROVE Goes(r)
<1> DEFINE q == rq[r]
<1>1. RepoInv(repo) /\ ReqInv(repo, q, r) /\ IsReq(q) /\ RepoStep(repo, repo, r)
  BY NoChange DEF IInv, ReqInv
<1>2. q.pc \in {"sort", "restore", "delete", "write"} /\ q.ans # "ok"
  BY <1>1 DEF Sort, Restore, DeleteOne, DeleteEnd, Write, At, ReqInv
<1>3. CASE Sort(r)
  <2>1. PICK F : Error(r) \/ Step(r, repo, [Goto(r, "restore") EXCEPT !.todo = F])
    BY <1>3 DEF Sort
  <2> DEFINE p == [Goto(r, "restore") EXCEPT !.todo = F]
  <2>2. IsReq(p) /\ p.pc = "restore" /\ p.ask = q.ask /\ p.ans = q.ans
    BY <1>1 DEF Goto, IsReq
  <2>3. Error(r) \/ Step(r, repo, p)
    BY <2>1
  <2> HIDE DEF p
  <2> QED BY <1>1, <1>2, <2>2, <2>3, ErrorGoes, OnwardGoes DEF MergePhases, ToPhases, BranchPhases
<1>4. CASE Restore(r)
  <2> DEFINE F == rq[r].todo
             t == HeadTree(repo)
             g == [repo EXCEPT !.tree  = [f \in Files |-> IF f \in F THEN t[f] ELSE repo.tree[f]],
                               !.index = [f \in Files |-> IF f \in F THEN t[f] ELSE repo.index[f]],
                               !.unmerged = @ \ F]
  <2>1. /\ IsRepo(g) /\ g.store = repo.store /\ g.local = repo.local
        /\ g.remote = repo.remote /\ g.tracking = repo.tracking /\ g.head = repo.head
        /\ g.merging = repo.merging
    BY <1>1 DEF RepoInv, IsRepo
  <2>2. Error(r) \/ Step(r, g, Goto(r, "refresh"))
    BY <1>4 DEF Restore
  <2> HIDE DEF g
  <2>3. RepoStep(repo, g, r)
    BY <1>1, <2>1, FilesOnly DEF RepoInv
  <2> QED BY <1>2, <2>1, <2>2, <2>3, ErrorGoes, GotoGoes DEF MergePhases, ToPhases, BranchPhases
<1>5. CASE DeleteOne(r)
  <2>1. PICK f \in rq[r].todo :
          Step(r, [repo EXCEPT !.tree[f] = Absent],
               [rq[r] EXCEPT !.todo = @ \ {f}, !.did = @ \/ repo.tree[f] # Absent])
    BY <1>5 DEF DeleteOne
  <2> DEFINE g == [repo EXCEPT !.tree[f] = Absent]
             p == [rq[r] EXCEPT !.todo = @ \ {f}, !.did = @ \/ repo.tree[f] # Absent]
  <2>2. /\ IsRepo(g) /\ g.store = repo.store /\ g.local = repo.local
        /\ g.remote = repo.remote /\ g.tracking = repo.tracking /\ g.head = repo.head
        /\ g.merging = repo.merging
    BY <1>1 DEF RepoInv, IsRepo
  <2>3. p.pc = q.pc /\ p.ask = q.ask /\ p.ans = q.ans /\ IsReq(p)
    BY <1>1 DEF IsReq
  <2> HIDE DEF g, p
  <2>4. RepoStep(repo, g, r)
    BY <1>1, <2>2, FilesOnly DEF RepoInv
  <2>5. Step(r, g, p)
    BY <2>1 DEF g, p
  <2> QED BY <1>2, <2>2, <2>3, <2>4, <2>5, OnwardGoes DEF MergePhases, ToPhases, BranchPhases
<1>6. CASE DeleteEnd(r)
  <2>1. Error(r) \/ Step(r, repo, Goto(r, "refresh"))
    BY <1>6 DEF DeleteEnd
  <2> QED BY <1>1, <1>2, <2>1, ErrorGoes, GotoGoes DEF MergePhases, ToPhases, BranchPhases
<1>7. CASE Write(r)
  <2> DEFINE g == [repo EXCEPT !.tree = [f \in Files |->
                     IF f \in rq[r].ask.files THEN r ELSE repo.tree[f]]]
  <2>1. /\ IsRepo(g) /\ g.store = repo.store /\ g.local = repo.local
        /\ g.remote = repo.remote /\ g.tracking = repo.tracking /\ g.head = repo.head
        /\ g.merging = repo.merging
    BY <1>1 DEF RepoInv, IsRepo
  <2>2. Step(r, g, Answer(r, "ok"))
    BY <1>7 DEF Write
  <2> HIDE DEF g
  <2>3. RepoStep(repo, g, r)
    BY <1>1, <2>1, FilesOnly DEF RepoInv
  <2> QED BY <1>2, <2>1, <2>2, <2>3, OkGoes DEF MergePhases, ToPhases
<1> QED BY <1>3, <1>4, <1>5, <1>6, <1>7

(* StashChanges and ApplyStash, too.                                       *)
LEMMA StashGoes ==
  ASSUME IInv, NEW r \in Requests, Stash(r) \/ Apply(r) PROVE Goes(r)
<1> DEFINE q == rq[r]
<1>1. RepoInv(repo) /\ ReqInv(repo, q, r) /\ IsReq(q)
  BY DEF IInv, ReqInv
<1>2. q.pc \in {"stash", "apply"} /\ q.ans # "ok"
  BY <1>1 DEF Stash, Apply, At, ReqInv
<1>3. ASSUME NEW g, IsRepo(g), g.store = repo.store, g.local = repo.local,
             g.remote = repo.remote, g.tracking = repo.tracking, g.head = repo.head,
             g.merging \in {repo.merging, None},
             Step(r, g, Goto(r, "refresh")) \/ Step(r, g, Answer(r, "error"))
      PROVE  Goes(r)
  <2>1. RepoStep(repo, g, r)
    BY <1>1, <1>3, FilesOnly DEF RepoInv
  <2> QED BY <1>2, <1>3, <2>1, FailsGoes, GotoGoes DEF MergePhases, ToPhases, BranchPhases
<1>4. CASE Stash(r)
  <2>1. CASE Error(r)
    BY <2>1, ErrorGoes
  <2>2. CASE ~Error(r)
    <3>1. \E st, t, i, m : /\ m \in {repo.merging, None}
                           /\ Step(r, [repo EXCEPT !.stash = st, !.tree = t, !.index = i,
                                                   !.merging = m], Goto(r, "refresh"))
      <4> DEFINE F == IF rq[r].ask.files = {} THEN Files ELSE rq[r].ask.files
                 S == {f \in F \ Hidden(repo) : ~Clean(repo, f)}
                 t == HeadTree(repo)
                 st == repo.stash \cup {[by |-> r, base |-> t,
                                         tree  |-> [f \in S |-> repo.tree[f]],
                                         index |-> [f \in S |-> repo.index[f]]]}
                 wt == [f \in Files |-> IF f \in S THEN t[f] ELSE repo.tree[f]]
                 wi == [f \in Files |-> IF f \in S THEN t[f] ELSE repo.index[f]]
                 m == IF rq[r].ask.files = {} THEN None ELSE repo.merging
      <4>1. Step(r, [repo EXCEPT !.stash = st, !.tree = wt, !.index = wi, !.merging = m],
                 Goto(r, "refresh"))
        BY <1>4, <2>2 DEF Stash
      <4>2. m \in {repo.merging, None}
        OBVIOUS
      <4> HIDE DEF st, wt, wi, m
      <4> QED BY <4>1, <4>2
    <3>2. PICK st, t, i, m : /\ m \in {repo.merging, None}
                             /\ Step(r, [repo EXCEPT !.stash = st, !.tree = t, !.index = i,
                                                     !.merging = m], Goto(r, "refresh"))
      BY <3>1
    <3> DEFINE g == [repo EXCEPT !.stash = st, !.tree = t, !.index = i, !.merging = m]
    <3>3. /\ IsRepo(g) /\ g.store = repo.store /\ g.local = repo.local
          /\ g.remote = repo.remote /\ g.tracking = repo.tracking /\ g.head = repo.head
          /\ g.merging = m
      BY <1>1 DEF RepoInv, IsRepo
    <3>4. Step(r, g, Goto(r, "refresh"))
      BY <3>2
    <3> HIDE DEF g
    <3> QED BY <1>3, <3>2, <3>3, <3>4
  <2> QED BY <2>1, <2>2
<1>5. CASE Apply(r)
  <2>1. PICK t, i, u :
          \/ Step(r, [repo EXCEPT !.tree = t, !.index = i, !.unmerged = u], Goto(r, "refresh"))
          \/ Step(r, [repo EXCEPT !.tree = t, !.index = i, !.unmerged = u], Answer(r, "error"))
    BY <1>5 DEF Apply
  <2> DEFINE g == [repo EXCEPT !.tree = t, !.index = i, !.unmerged = u]
  <2>2. /\ IsRepo(g) /\ g.store = repo.store /\ g.local = repo.local
        /\ g.remote = repo.remote /\ g.tracking = repo.tracking /\ g.head = repo.head
        /\ g.merging = repo.merging
    BY <1>1 DEF RepoInv, IsRepo
  <2>3. Step(r, g, Goto(r, "refresh")) \/ Step(r, g, Answer(r, "error"))
    BY <2>1
  <2> HIDE DEF g
  <2> QED BY <1>3, <2>2, <2>3
<1> QED BY <1>4, <1>5

(* currentBranch: a merge remembers what it is about.                      *)
LEMMA CurrentGoes ==
  ASSUME IInv, NEW r \in Requests,
         CurrentForPush(r) \/ CurrentForPull(r) \/ CurrentForMerge(r) \/ CurrentForMergeTo(r)
  PROVE  Goes(r)
<1> DEFINE q == rq[r]
           b == q.branch
<1>1. RepoInv(repo) /\ ReqInv(repo, q, r) /\ IsReq(q) /\ RepoStep(repo, repo, r)
  BY NoChange DEF IInv, ReqInv
<1>2. q.pc = "current" /\ q.ans # "ok" /\ b \in Branches \cup {None} /\ ~q.fetched
  BY <1>1 DEF CurrentForPush, CurrentForPull, CurrentForMerge, CurrentForMergeTo, At, ReqInv
<1>3. Log(repo, r) = {}
  BY <1>1, <1>2 DEF ReqInv
<1>4. repo.head \in Branches => /\ repo.local[repo.head] \in Made(repo)
                                /\ repo.local[repo.head] # None
  BY <1>1, GitAssumption DEF RepoInv, HeadCommit, Made, Commits
<1>5. CASE CurrentForPush(r) \/ CurrentForPull(r)
  <2>1. q.ask.op \notin MergeOps
    BY <1>5 DEF CurrentForPush, CurrentForPull, Op, MergeOps
  <2>2. CASE Error(r)
    BY <2>2, ErrorGoes
  <2>3. ASSUME NEW p \in {"push", "pull"}, repo.head \in Branches,
               Step(r, repo, [Goto(r, p) EXCEPT !.branch = repo.head])
        PROVE  Goes(r)
    <3> DEFINE k == [Goto(r, p) EXCEPT !.branch = repo.head]
    <3>1. IsReq(k) /\ k.pc = p /\ k.ask = q.ask /\ k.branch = repo.head /\ k.ans = q.ans
      BY <1>1 DEF Goto, IsReq
    <3> HIDE DEF k
    <3>2. Step(r, repo, k)
      BY <2>3 DEF k
    <3> QED BY <1>1, <1>2, <2>1, <2>3, <3>1, <3>2, OnwardGoes
  <2>4. CASE CurrentForPush(r) /\ ~Error(r)
    <3>1. CASE b # None
      <4>1. Step(r, repo, Goto(r, "push"))
        BY <2>4, <3>1 DEF CurrentForPush
      <4> QED BY <1>1, <1>2, <2>1, <3>1, <4>1, GotoGoes
    <3>2. CASE b = None
      BY <2>3, <2>4, <3>2 DEF CurrentForPush
    <3> QED BY <3>1, <3>2
  <2>5. CASE CurrentForPull(r) /\ ~Error(r)
    <3>1. CASE b \in {None, repo.head}
      BY <2>3, <2>5, <3>1 DEF CurrentForPull
    <3>2. CASE b \notin {None, repo.head}
      <4>1. Step(r, repo, Goto(r, "look"))
        BY <2>5, <3>2 DEF CurrentForPull
      <4> QED BY <1>1, <1>2, <2>1, <3>2, <4>1, GotoGoes
    <3> QED BY <3>1, <3>2
  <2> QED BY <1>5, <2>2, <2>4, <2>5
<1>6. CASE CurrentForMerge(r)
  <2>1. CASE Error(r)
    BY <2>1, ErrorGoes
  <2>2. CASE ~Error(r)
    <3>1. PICK s \in {"fetch"} \cup {x \in {"merge"} : repo.local[b] # None} :
            Step(r, repo, [Goto(r, s) EXCEPT !.target = repo.head, !.source = b,
                                             !.tip = repo.local[b]])
      BY <1>6, <2>2 DEF CurrentForMerge
    <3> DEFINE k == Goto(r, s)
               p == [k EXCEPT !.target = repo.head, !.source = b, !.tip = repo.local[b]]
    <3>2. repo.head \in Branches /\ Step(r, repo, p)
      BY <1>6, <2>2, <3>1 DEF CurrentForMerge
    <3>3. q.ask.op = "git_merge" /\ b \in Branches
      BY <1>1, <1>2, <1>6 DEF CurrentForMerge, Op, ReqInv, MergeInv
    <3>4. /\ IsReq(k) /\ k.pc = s /\ k.ask = q.ask /\ k.branch = b /\ k.ans = q.ans
          /\ k.fetched = q.fetched
      BY <1>1, Fields
    <3> HIDE DEF k
    <3>5. /\ IsReq(p) /\ p.pc = s /\ p.ask = q.ask /\ p.branch = b /\ p.ans = q.ans
          /\ p.fetched = q.fetched /\ p.target = repo.head /\ p.source = b
          /\ p.tip = repo.local[b]
      BY <3>4 DEF IsReq
    <3> HIDE DEF p
    <3>6. s = "merge" => Merging(repo, p)
      <4>1. repo.local[b] # None => repo.local[b] \in Log(repo, repo.local[b])
        BY <1>1, <3>3 DEF RepoInv, Made
      <4> QED BY <1>2, <3>1, <3>2, <3>3, <3>5, <4>1 DEF Merging, Ref
    <3>7. s \in {"fetch", "merge"}
      OBVIOUS
    <3>8. MergeInv(repo, p)
      BY <3>2, <3>3, <3>5, <3>6, <3>7 DEF MergeInv, MergeOps
    <3>9. CommitInv(repo, p, r)
      BY <1>3 DEF CommitInv
    <3>10. ReqInv(repo, p, r)
      BY <1>2, <1>3, <3>3, <3>5, <3>7, <3>8, <3>9 DEF ReqInv
    <3> QED BY <1>1, <3>2, <3>10, StepGoes
  <2> QED BY <2>1, <2>2
<1>7. CASE CurrentForMergeTo(r)
  <2>1. CASE Error(r)
    BY <2>1, ErrorGoes
  <2>2. CASE ~Error(r)
    <3> DEFINE k == Goto(r, "look")
               p == [k EXCEPT !.target = b, !.source = repo.head,
                              !.tip = repo.local[repo.head]]
    <3>1. repo.head \in Branches /\ Step(r, repo, p)
      BY <1>7, <2>2 DEF CurrentForMergeTo
    <3>2. q.ask.op = "git_merge_to" /\ b \in Branches
      BY <1>1, <1>2, <1>7 DEF CurrentForMergeTo, Op, ReqInv, MergeInv
    <3>3. /\ IsReq(k) /\ k.pc = "look" /\ k.ask = q.ask /\ k.branch = b /\ k.ans = q.ans
          /\ k.fetched = q.fetched
      BY <1>1, Fields
    <3> HIDE DEF k
    <3>4. /\ IsReq(p) /\ p.pc = "look" /\ p.ask = q.ask /\ p.branch = b /\ p.ans = q.ans
          /\ p.fetched = q.fetched /\ p.target = b /\ p.source = repo.head
          /\ p.tip = repo.local[repo.head]
      BY <3>3 DEF IsReq
    <3> HIDE DEF p
    <3>5. Sourced(repo, p)
      BY <1>2, <1>4, <3>1, <3>4 DEF Sourced, Made
    <3>6. MergeInv(repo, p)
      BY <3>2, <3>4, <3>5 DEF MergeInv, MergeOps, MergePhases, ToPhases
    <3>7. CommitInv(repo, p, r)
      BY <1>3 DEF CommitInv
    <3>8. ReqInv(repo, p, r)
      BY <1>2, <1>3, <3>2, <3>4, <3>6, <3>7 DEF ReqInv
    <3> QED BY <1>1, <3>1, <3>8, StepGoes
  <2> QED BY <2>1, <2>2
<1> QED BY <1>5, <1>6, <1>7

(* PushBranch, and the pull of what was fetched.                           *)
LEMMA PushGoes == ASSUME IInv, NEW r \in Requests, Push(r) PROVE Goes(r)
<1> DEFINE b == rq[r].branch
           c == repo.local[b]
           g == [repo EXCEPT !.remote[b] = c, !.tracking[b] = c]
           h == [repo EXCEPT !.remote[b] = c]
<1>1. RepoInv(repo) /\ rq[r].pc = "push" /\ b \in Branches
  BY DEF IInv, ReqInv, Push, At, BranchPhases
<1>2. CASE Error(r)
  BY <1>2, ErrorGoes
<1>3. CASE ~Error(r)
  <2>1. /\ c # None /\ (repo.remote[b] = None \/ repo.remote[b] \in Log(repo, c))
        /\ Step(r, g, Answer(r, "ok")) \/ Step(r, h, Answer(r, "error"))
    BY <1>3 DEF Push
  <2>2. c \in Made(repo) /\ Later(repo, repo.remote[b], c)
    BY <1>1, <2>1 DEF RepoInv, Later
  <2>3. /\ RepoStep(repo, g, r) /\ g.store = repo.store
        /\ RepoStep(repo, h, r) /\ h.store = repo.store
    BY <1>1, <2>2, Pushed
  <2> HIDE DEF g, h
  <2> QED BY <1>1, <2>1, <2>3, OkGoes, FailsGoes DEF MergePhases, ToPhases
<1> QED BY <1>2, <1>3

(* PullRepository: what was fetched is kept, and HEAD advances.            *)
LEMMA PullGoes == ASSUME IInv, NEW r \in Requests, Pull(r) PROVE Goes(r)
<1> DEFINE b == rq[r].branch
           c == repo.remote[b]
           g == Fetched(repo, {b})
           h == HeadCommit(repo)
<1>1. RepoInv(repo) /\ rq[r].pc = "pull" /\ b \in Branches /\ c # None
  BY DEF IInv, ReqInv, Pull, At, BranchPhases
<1>2. /\ RepoStep(repo, g, r) /\ g.store = repo.store /\ g.head = repo.head
      /\ g.local = repo.local
  BY <1>1, Fetch DEF Fetched, RepoInv, IsRepo
<1>3. RepoInv(g) /\ Made(g) = Made(repo) /\ HeadCommit(g) = h /\ Log(g, c) = Log(repo, c)
  BY <1>2 DEF RepoStep, Made, HeadCommit, Log
<1> HIDE DEF g
<1>4. \/ Step(r, g, Answer(r, "error"))
      \/ Step(r, g, Goto(r, "refresh"))
      \/ h \in Log(repo, c) /\ Step(r, FastForward(g, c), Goto(r, "refresh"))
  BY <1>1 DEF Pull, g
<1>5. CASE Step(r, g, Answer(r, "error"))
  BY <1>2, <1>5, FailsGoes
<1>6. CASE Step(r, g, Goto(r, "refresh"))
  BY <1>1, <1>2, <1>6, GotoGoes DEF MergePhases, ToPhases, BranchPhases
<1>7. CASE h \in Log(repo, c) /\ Step(r, FastForward(g, c), Goto(r, "refresh"))
  <2>1. c \in Made(g)
    BY <1>1, <1>3 DEF RepoInv
  <2>2. RepoStep(g, FastForward(g, c), r) /\ FastForward(g, c).store = g.store
    BY <1>3, <1>7, <2>1, Advanced
  <2>3. RepoStep(repo, FastForward(g, c), r)
    BY <1>1, <1>2, <2>2, TwoSteps
  <2> QED BY <1>1, <1>2, <1>7, <2>2, <2>3, GotoGoes DEF MergePhases, ToPhases, BranchPhases
<1> QED BY <1>4, <1>5, <1>6, <1>7

(* A merge has reached the branch that HEAD is on.                         *)
LEMMA MergeDone ==
  ASSUME IInv, NEW r \in Requests, rq[r].pc = "merge",
         NEW g, RepoStep(repo, g, r), Step(r, g, AfterMerge(r)),
         repo.head \in Branches => /\ g.local[repo.head] # None
                                   /\ rq[r].tip \in Log(g, g.local[repo.head])
  PROVE  Goes(r)
<1> DEFINE q == rq[r]
           p == AfterMerge(r)
<1>1. ReqInv(repo, q, r) /\ IsReq(q) /\ q.ask.op \in MergeOps /\ Merging(repo, q) /\ q.ans # "ok"
  BY DEF IInv, ReqInv, MergeInv
<1>2. /\ IsReq(p) /\ p.ask = q.ask /\ p.target = q.target /\ p.tip = q.tip
      /\ p.crossed = q.crossed
      /\ \/ q.ask.op = "git_merge" /\ p.pc = "done"
         \/ /\ q.ask.op = "git_merge_to" /\ p.pc = "refresh" /\ p.ans = q.ans
            /\ p.branch \in Branches
  <2>1. q.ask.op = "git_merge_to" => q.branch \in Branches
    BY <1>1 DEF ReqInv, MergeInv
  <2> QED BY <1>1, <2>1, Fields DEF AfterMerge, Op, MergeOps
<1> HIDE DEF p
<1>3. ~p.crossed => Reached(g, p)
  BY <1>1, <1>2 DEF Merging, Reached
<1>4. MergeInv(g, p)
  <2>1. CASE q.ask.op = "git_merge" /\ p.pc = "done"
    BY <1>2, <1>3, <2>1 DEF MergeInv, MergeOps
  <2>2. CASE q.ask.op = "git_merge_to" /\ p.pc = "refresh" /\ p.branch \in Branches
    BY <1>2, <1>3, <2>2 DEF MergeInv, MergeOps, MergePhases, ToPhases
  <2> QED BY <1>2, <2>1, <2>2
<1>5. CommitInv(g, p, r)
  BY <1>1, <1>2 DEF CommitInv, MergeOps
<1>6. ReqInv(g, p, r)
  BY <1>1, <1>2, <1>4, <1>5 DEF ReqInv, BranchPhases
<1> QED BY <1>6, StepGoes DEF p

(* MergeBranch and MergeToBranch, at their merge.                          *)
LEMMA MergeGoes == ASSUME IInv, NEW r \in Requests, Merge(r) PROVE Goes(r)
<1> DEFINE q == rq[r]
           c == MergeRef(r)
           h == HeadCommit(repo)
<1>1. RepoInv(repo) /\ q.pc = "merge" /\ Merging(repo, q) /\ Log(repo, r) = {}
  BY DEF IInv, ReqInv, MergeInv, Merge, At
<1>2. /\ c \in Made(repo) /\ c # None /\ q.tip \in Log(repo, c)
  BY <1>1 DEF Merging, Ref, MergeRef, RepoInv
<1>3. repo.head \in Branches => repo.local[repo.head] = h /\ h # None
  BY <1>1, GitAssumption DEF HeadCommit, RepoInv, Made, Commits
<1>4. h \in Made(repo) /\ RepoStep(repo, repo, r)
  BY <1>1, NoChange DEF RepoInv
<1> HIDE DEF c, h
<1>5. \/ Error(r)
      \/ c \in Log(repo, h) /\ Step(r, repo, AfterMerge(r))
      \/ h \in Log(repo, c) /\ Step(r, FastForward(repo, c), AfterMerge(r))
      \/ Step(r, CleanMerge(repo, c, r), AfterMerge(r))
      \/ Step(r, ConflictedMerge(repo, c), Answer(r, "error"))
  BY DEF Merge, c, h
<1>6. CASE Error(r)
  BY <1>6, ErrorGoes
<1>7. CASE c \in Log(repo, h) /\ Step(r, repo, AfterMerge(r))
  <2>1. q.tip \in Log(repo, h)
    BY <1>1, <1>2, <1>4, <1>7 DEF RepoInv, Made
  <2> QED BY <1>1, <1>3, <1>4, <1>7, <2>1, MergeDone
<1>8. CASE h \in Log(repo, c) /\ Step(r, FastForward(repo, c), AfterMerge(r))
  <2> DEFINE g == FastForward(repo, c)
  <2>1. /\ RepoStep(repo, g, r) /\ g.store = repo.store /\ HeadCommit(g) = c
        /\ repo.head \in Branches => g.head = repo.head
    BY <1>1, <1>2, <1>8, Advanced DEF h
  <2> HIDE DEF g
  <2>2. repo.head \in Branches => g.local[repo.head] = c
    BY <2>1 DEF HeadCommit
  <2>3. Log(g, c) = Log(repo, c)
    BY <2>1 DEF Log
  <2> QED BY <1>1, <1>2, <1>8, <2>1, <2>2, <2>3, MergeDone DEF g
<1>9. CASE Step(r, CleanMerge(repo, c, r), AfterMerge(r))
  <2> DEFINE g == CleanMerge(repo, c, r)
  <2>1. /\ RepoStep(repo, g, r) /\ Log(repo, c) \subseteq Log(g, r)
        /\ repo.head \in Branches => g.local[repo.head] = r
    BY <1>1, <1>2, Merged
  <2> HIDE DEF g
  <2>2. r # None
    BY GitAssumption
  <2> QED BY <1>1, <1>2, <1>9, <2>1, <2>2, MergeDone DEF g
<1>10. CASE Step(r, ConflictedMerge(repo, c), Answer(r, "error"))
  BY <1>1, <1>2, <1>10, LeftOpen, FailsGoes
<1> QED BY <1>5, <1>6, <1>7, <1>8, <1>9, <1>10

-----------------------------------------------------------------------------
(* Every step of the system                                                *)

SnapPhases == {"validate", "wipe", "mkdir", "init", "borrow", "check_out", "patch",
               "apply_patch", "stage", "tree", "commit_tree", "reset", "pack", "detach",
               "verify", "revalidate", "materialized", "cleanup", "source", "read"}

Reading == {"source", "read"}

SnapMoves(r) ==
  /\ rq[r].pc \in SnapPhases
  /\ \/ \E p \in SnapPhases : /\ p \in Reading <=> rq[r].pc \in Reading
                             /\ Step(r, repo, Goto(r, p))
     \/ \E a \in {"ok", "error"} : Step(r, repo, Answer(r, a))

(* A command in the repository of a snapshot leaves the source alone.      *)
LEMMA CommandMoves ==
  ASSUME NEW r, NEW from \in SnapPhases \ Reading, NEW possible,
         NEW to \in SnapPhases \ Reading, NEW d,
         Command(r, from, possible, to, d)
  PROVE  SnapMoves(r)
  BY DEF Command, Undo, Snap, At, SnapMoves, SnapPhases, Reading

(* CreateAnalysisSnapshot and AnalysisSource only read the source.         *)
LEMMA SnapStep == ASSUME NEW r, Snapshot(r) \/ Source(r) PROVE SnapMoves(r)
<1>1. ASSUME Validate(r) PROVE SnapMoves(r)
  BY <1>1 DEF Validate, Snap, At, SnapMoves, SnapPhases, Reading
<1>2. ASSUME Wipe(r) PROVE SnapMoves(r)
  BY <1>2 DEF Wipe, Snap, At, SnapMoves, SnapPhases, Reading
<1>3. ASSUME MkDir(r) PROVE SnapMoves(r)
  BY <1>3 DEF MkDir, Snap, At, SnapMoves, SnapPhases, Reading
<1>4. ASSUME Borrow(r) PROVE SnapMoves(r)
  BY <1>4 DEF Borrow, Snap, At, SnapMoves, SnapPhases, Reading
<1>5. ASSUME GitInit(r) PROVE SnapMoves(r)
  BY <1>5, CommandMoves DEF GitInit, SnapPhases, Reading
<1>6. ASSUME Checkout(r) PROVE SnapMoves(r)
  <2> DEFINE to == IF WorkingTree THEN "patch" ELSE "tree"
  <2>1. to \in SnapPhases \ Reading
    BY DEF SnapPhases, Reading
  <2>2. \E possible, d : Command(r, "check_out", possible, to, d)
    BY <1>6, Zenon DEF Checkout
  <2> HIDE DEF to
  <2> QED BY <2>1, <2>2, CommandMoves DEF SnapPhases, Reading
<1>7. ASSUME ApplyPatch(r) PROVE SnapMoves(r)
  BY <1>7, CommandMoves DEF ApplyPatch, SnapPhases, Reading
<1>8. ASSUME Reset(r) \/ Pack(r) \/ Detach(r) \/ Verify(r) PROVE SnapMoves(r)
  BY <1>8, CommandMoves DEF Reset, Pack, Detach, Verify, SnapPhases, Reading
<1>9. ASSUME ReadPatch(r) \/ WriteTree(r) \/ HeadTreeOf(r) PROVE SnapMoves(r)
  BY <1>9 DEF ReadPatch, WriteTree, HeadTreeOf, Undo, Snap, At, SnapMoves, SnapPhases, Reading
<1>10. ASSUME CommitTree(r) PROVE SnapMoves(r)
  <2>1. Step(r, repo, Goto(r, "reset")) \/ Step(r, repo, Goto(r, "cleanup"))
    BY <1>10 DEF CommitTree, Undo, Snap
  <2> QED BY <1>10, <2>1 DEF CommitTree, At, SnapMoves, SnapPhases, Reading
<1>11. ASSUME Revalidate(r) \/ Materialized(r) \/ SnapFails(r) \/ Cleanup(r)
       PROVE  SnapMoves(r)
  BY <1>11 DEF Revalidate, Materialized, SnapFails, Cleanup, Undo, Snap, At, SnapMoves,
               SnapPhases, Reading
<1>12. ASSUME SourceOfSnapshot(r) PROVE SnapMoves(r)
  <2>1. Step(r, repo, Answer(r, "ok")) \/ Step(r, repo, Answer(r, "error"))
    BY <1>12 DEF SourceOfSnapshot, Read, Snap
  <2> QED BY <1>12, <2>1 DEF SourceOfSnapshot, At, SnapMoves, SnapPhases, Reading
<1>13. ASSUME SourceOfCommit(r) \/ SourceCheck(r) \/ SourceRead(r) \/ SourceFails(r)
       PROVE  SnapMoves(r)
  <2>1. \/ Step(r, repo, Answer(r, "ok")) \/ Step(r, repo, Answer(r, "error"))
        \/ Step(r, repo, Goto(r, "read"))
    BY <1>13 DEF SourceOfCommit, SourceCheck, SourceRead, SourceFails, Read, Snap
  <2> QED BY <1>13, <2>1 DEF SourceOfCommit, SourceCheck, SourceRead, SourceFails, At,
                             SnapMoves, SnapPhases, Reading
<1> QED BY <1>1, <1>2, <1>3, <1>4, <1>5, <1>6, <1>7, <1>8, <1>9, <1>10, <1>11, <1>12, <1>13
        DEF Snapshot, Source

(* So they keep the invariant of the others.                               *)
LEMMA SnapshotGoes ==
  ASSUME IInv, NEW r \in Requests, Snapshot(r) \/ Source(r) PROVE Goes(r)
<1>1. SnapMoves(r) /\ RepoStep(repo, repo, r)
  BY SnapStep, NoChange DEF IInv
<1>2. /\ rq[r].pc \notin {"new", "refresh", "done"}
      /\ rq[r].pc \notin MergePhases
  BY <1>1 DEF SnapMoves, SnapPhases, MergePhases, ToPhases
<1>3. ASSUME NEW p \in SnapPhases, Step(r, repo, Goto(r, p)) PROVE Goes(r)
  <2>1. p \notin {"new", "merge", "current", "checkout"} /\ p \notin BranchPhases
    BY <1>3 DEF SnapPhases, BranchPhases
  <2> QED BY <1>1, <1>2, <1>3, <2>1, GotoGoes
<1>4. ASSUME NEW a, Step(r, repo, Answer(r, a)) PROVE Goes(r)
  BY <1>1, <1>2, <1>4, OkGoes
<1> QED BY <1>1, <1>3, <1>4 DEF SnapMoves

(* Every request of GitResources, then.                                    *)
LEMMA RequestGoes == ASSUME IInv, NEW r \in Requests, Request(r) PROVE Goes(r)
  BY DispatchGoes, CommandFailsGoes, CheckoutGoes, FetchBranchGoes, RefreshGoes, CreateGoes,
     AddGoes, CommitGoes, FilesGoes, CurrentGoes, PushGoes, PullGoes, MergeGoes, StashGoes
  DEF Request

(* The colleague and the workspace's user change no request.               *)
LEMMA UserGoes == ASSUME IInv, Publish \/ Edit PROVE IInv' /\ RepoStep(repo, repo', None)
<1>1. RepoInv(repo) /\ rq' = rq
  BY DEF IInv, Publish, Edit
<1>2. RepoStep(repo, repo', None) /\ repo'.head = repo.head
  <2>1. CASE Publish
    <3>1. PICK b \in Branches : /\ repo.remote[b] \in {None, Base}
                                /\ repo' = [repo EXCEPT !.remote[b] = Theirs]
      BY <2>1 DEF Publish
    <3>2. repo'.head = repo.head
      BY <1>1, <3>1 DEF RepoInv, IsRepo
    <3> QED BY <1>1, <3>1, <3>2, Published
  <2>2. CASE Edit
    <3>1. PICK f, v : repo' = [repo EXCEPT !.tree[f] = v]
      BY <2>2 DEF Edit
    <3> DEFINE g == [repo EXCEPT !.tree[f] = v]
    <3>2. /\ IsRepo(g) /\ g.store = repo.store /\ g.local = repo.local
          /\ g.remote = repo.remote /\ g.tracking = repo.tracking /\ g.head = repo.head
          /\ g.merging = repo.merging
      BY <1>1 DEF RepoInv, IsRepo
    <3> HIDE DEF g
    <3>3. RepoStep(repo, g, None)
      BY <1>1, <3>2, FilesOnly DEF RepoInv
    <3> QED BY <3>1, <3>2, <3>3 DEF g
  <2> QED BY <2>1, <2>2
<1>3. ASSUME NEW x \in Requests PROVE ReqInv(repo', rq'[x], x)
  <2>1. x # None /\ ReqInv(repo, rq[x], x)
    BY GitAssumption DEF IInv
  <2> QED BY <1>1, <1>2, <2>1, OthersKeep
<1> QED BY <1>1, <1>2, <1>3 DEF IInv, RepoStep

(* A workspace as it is found.                                             *)
LEMMA Found ==
  ASSUME SnapInit
  PROVE  /\ IsRepo(repo) /\ repo.store = FirstStore
         /\ repo.local \in [Branches -> {Base, Ours, None}]
         /\ repo.remote \in [Branches -> {Base, Theirs, None}]
         /\ repo.tracking = [b \in Branches |-> IF repo.remote[b] = None THEN None ELSE Base]
         /\ repo.head \in {b \in Branches : repo.local[b] # None} \cup {Base}
         /\ repo.tree \in [Files -> {Base, Ours, Local, Absent}]
         /\ repo.index = FirstStore[HeadCommit(repo)].tree
         /\ repo.merging = None /\ repo.unmerged = {} /\ repo.stash = {}
<1> DEFINE Tree(loc, h) == FirstStore[IF h \in Branches THEN loc[h] ELSE h].tree
           First(loc, rem, h, wt) ==
             repo = [store |-> FirstStore, local |-> loc, remote |-> rem,
                     tracking |-> [b \in Branches |-> IF rem[b] = None THEN None ELSE Base],
                     head |-> h, tree |-> wt, index |-> Tree(loc, h),
                     merging |-> None, unmerged |-> {}, stash |-> {}]
<1>1. PICK loc \in [Branches -> {Base, Ours, None}], rem \in [Branches -> {Base, Theirs, None}] :
        \E h \in {b \in Branches : loc[b] # None} \cup {Base} :
          \E wt \in [Files -> {Base, Ours, Local, Absent}] :
            /\ \A f \in Files : wt[f] \in {Tree(loc, h)[f], Local, Absent}
            /\ First(loc, rem, h, wt)
  BY Zenon DEF SnapInit, Init
<1> HIDE DEF First
<1>2. PICK h \in {b \in Branches : loc[b] # None} \cup {Base} :
        \E wt \in [Files -> {Base, Ours, Local, Absent}] : First(loc, rem, h, wt)
  BY <1>1
<1>3. PICK wt \in [Files -> {Base, Ours, Local, Absent}] : First(loc, rem, h, wt)
  BY <1>2
<1> DEFINE tr == [b \in Branches |-> IF rem[b] = None THEN None ELSE Base]
           i == Tree(loc, h)
<1>4. /\ IsRepo(repo) /\ repo.store = FirstStore /\ repo.local = loc /\ repo.remote = rem
      /\ repo.tracking = tr /\ repo.head = h /\ repo.tree = wt /\ repo.index = i
      /\ repo.merging = None /\ repo.unmerged = {} /\ repo.stash = {}
  <2> HIDE DEF tr, i
  <2> QED BY <1>3 DEF First, IsRepo, tr, i
<1>5. repo.index = FirstStore[HeadCommit(repo)].tree
  BY <1>4 DEF HeadCommit
<1> QED BY <1>1, <1>4, <1>5

(* It has closed histories, and nothing is asked.                          *)
LEMMA InitIInv == SnapInit => IInv
<1> SUFFICES ASSUME SnapInit PROVE IInv
  OBVIOUS
<1> DEFINE loc == repo.local
           rem == repo.remote
           h == repo.head
           tr == [b \in Branches |-> IF rem[b] = None THEN None ELSE Base]
<1>1. loc \in [Branches -> {Base, Ours, None}] /\ rem \in [Branches -> {Base, Theirs, None}]
  BY Found
<1>2. h \in {b \in Branches : loc[b] # None} \cup {Base}
  BY Found
<1>3. /\ IsRepo(repo) /\ repo.store = FirstStore /\ repo.local = loc /\ repo.remote = rem
      /\ repo.tracking = tr /\ repo.head = h /\ repo.merging = None
  BY Found
<1>4. /\ Log(repo, Base) = {Base} /\ Log(repo, Ours) = {Base, Ours}
      /\ Log(repo, Theirs) = {Base, Theirs}
      /\ \A r \in Requests : Log(repo, r) = {}
  BY <1>3, GitAssumption DEF Log, FirstStore, Commits
<1>5. Made(repo) = {Base, Ours, Theirs}
  BY <1>4, GitAssumption DEF Made, Commits
<1>6. HeadCommit(repo) \in Made(repo)
  BY <1>1, <1>2, <1>3, <1>5, GitAssumption DEF HeadCommit
<1>7. \A c \in Commits : \A d \in Log(repo, c) :
        d \in Made(repo) /\ Log(repo, d) \subseteq Log(repo, c)
  BY <1>4, <1>5 DEF Commits
<1>8. \A b \in Branches : /\ loc[b] \in {Base, Ours, None} /\ rem[b] \in {Base, Theirs, None}
                          /\ tr[b] = IF rem[b] = None THEN None ELSE Base
  BY <1>1
<1>9. DOMAIN repo.store = Commits /\ DOMAIN tr = Branches /\ DOMAIN loc = Branches
      /\ DOMAIN rem = Branches
  BY <1>1, <1>3 DEF FirstStore
<1> HIDE DEF tr
<1>10. RepoInv(repo)
  BY <1>3, <1>4, <1>5, <1>6, <1>7, <1>8, <1>9, GitAssumption DEF RepoInv
<1>11. ASSUME NEW r \in Requests PROVE ReqInv(repo, rq[r], r)
  <2>1. rq[r] = Idle
    BY DEF SnapInit, Init
  <2>2. /\ IsReq(rq[r]) /\ rq[r].pc = "new" /\ rq[r].ans = "none"
    BY <2>1 DEF Idle, IsReq
  <2> QED BY <1>4, <2>2 DEF ReqInv, CommitInv, MergeInv, BranchPhases
<1> QED BY <1>10, <1>11 DEF IInv, SnapInit, Init

(* Whoever takes the step, it is one that RepoStep describes.              *)
LEMMA NextGoes ==
  ASSUME IInv, [Next]_vars
  PROVE  IInv' /\ \E r : RepoStep(repo, repo', r)
<1>1. CASE \E r \in Requests : Request(r) \/ Snapshot(r) \/ Source(r)
  BY <1>1, RequestGoes, SnapshotGoes DEF Goes
<1>2. CASE Publish \/ Edit
  BY <1>2, UserGoes
<1>3. CASE UNCHANGED vars
  <2>1. repo' = repo /\ rq' = rq
    BY <1>3 DEF vars, gitVars
  <2> QED BY <2>1, NoChange DEF IInv
<1> QED BY <1>1, <1>2, <1>3 DEF Next, GitNext

(* Histories stay closed and requests keep what they rely on.              *)
THEOREM Invariance == Spec => []IInv
<1>1. IInv /\ [Next]_vars => IInv'
  BY NextGoes
<1> QED BY <1>1, InitIInv, PTL DEF Spec

(* A commit of selected files commits nothing but them, whatever other     *)
(* requests staged, merged or checked out while it ran (CommitFiles).      *)
THEOREM CommitsSelected == Spec => []CommitIsSelected
<1>1. IInv => CommitIsSelected
  BY DEF IInv, ReqInv, CommitInv, CommitIsSelected, Op, Log
<1> QED BY <1>1, Invariance, PTL

(* A merge that is answered as done, with HEAD left alone by the others,   *)
(* has brought its target what the source held at its start                *)
(* (MergeBranch, MergeToBranch).                                           *)
THEOREM MergesReach == Spec => []MergedWhenSaid
<1>1. IInv => MergedWhenSaid
  BY DEF IInv, ReqInv, MergeInv, MergeOps, Reached, MergedWhenSaid, Op
<1> QED BY <1>1, Invariance, PTL

(* The history of a branch, here or on the remote, only ever grows: no     *)
(* request drops or rewrites a commit of another one.                      *)
THEOREM HistoryKept == Spec => HistoryGrows
<1> DEFINE Grow == \A b \in Branches :
             /\ repo.local[b] # None
                  => Log(repo, repo.local[b]) \subseteq Log(repo', repo'.local[b])
             /\ repo.remote[b] # None
                  => Log(repo, repo.remote[b]) \subseteq Log(repo', repo'.remote[b])
<1>1. ASSUME IInv, [Next]_vars PROVE Grow
  <2>1. PICK r : RepoStep(repo, repo', r)
    BY <1>1, NextGoes
  <2>2. RepoInv(repo)
    BY <1>1 DEF IInv
  <2>3. ASSUME NEW c \in Made(repo), NEW d \in Made(repo') \cup {None}, Later(repo', c, d)
        PROVE  Log(repo, c) \subseteq Log(repo', d)
    <3>1. Log(repo', c) = Log(repo, c)
      BY <2>1, <2>3 DEF RepoStep, Made, Log
    <3>2. c # None
      BY GitAssumption DEF Made, Commits
    <3> QED BY <2>1, <2>3, <3>1, <3>2 DEF RepoStep, RepoInv, Later, Made
  <2>4. ASSUME NEW b \in Branches
        PROVE  /\ repo.local[b] \in Made(repo) \cup {None}
               /\ repo.remote[b] \in Made(repo) \cup {None}
               /\ repo'.local[b] \in Made(repo') \cup {None}
               /\ repo'.remote[b] \in Made(repo') \cup {None}
               /\ Later(repo', repo.local[b], repo'.local[b])
               /\ Later(repo', repo.remote[b], repo'.remote[b])
    BY <2>1, <2>2 DEF RepoStep, RepoInv
  <2> QED BY <2>3, <2>4
<1> HIDE DEF Grow
<1>2. IInv /\ [Next]_vars => [Grow]_gitVars
  BY <1>1
<1>3. Spec => [][Grow]_gitVars
  BY <1>2, Invariance, PTL DEF Spec
<1> QED BY <1>3 DEF HistoryGrows, Grow

-----------------------------------------------------------------------------
(* What a command does to the files                                        *)

(* The parts of a repository are typed, a commit that was not made yet     *)
(* stands for the content of the first one, and a stash has its own files. *)
Typed(g) ==
  /\ g.local \in Refs /\ g.remote \in Refs /\ g.tracking \in Refs
  /\ g.tree \in Trees /\ g.index \in Trees /\ g.unmerged \subseteq Files
  /\ \A c \in Commits : g.store[c].tree \in Trees
  /\ \A c \in Commits \ Made(g) : g.store[c].tree = g.store[Base].tree
  /\ \A s \in g.stash : /\ DOMAIN s.tree \subseteq Files
                        /\ \A f \in DOMAIN s.tree : s.tree[f] \in Versions /\ s.index[f] \in Versions

(* A step keeps the stashes, and of every file outside F what workspace    *)
(* and index hold.                                                         *)
TreeStep(g, h, F) ==
  /\ Typed(h)
  /\ g.stash \subseteq h.stash
  /\ \A f \in Files \ F : g.tree[f] \in Kept(h, f) /\ g.index[f] \in Kept(h, f)

(* A version a commit holds is held for ever.                              *)
LEMMA Stored ==
  ASSUME NEW g, RepoInv(g), Typed(g), NEW r, NEW h, RepoStep(g, h, r),
         NEW c \in Commits, NEW f
  PROVE  g.store[c].tree[f] \in Kept(h, f)
<1>1. Base \in Made(g) /\ Base \in Commits
  BY DEF RepoInv, Made, Commits
<1>2. h.store[Base] = g.store[Base] /\ (c \in Made(g) => h.store[c] = g.store[c])
  BY <1>1 DEF RepoStep
<1>3. c \notin Made(g) => g.store[c].tree = h.store[Base].tree
  BY <1>2 DEF Typed
<1>4. \E d \in Commits : g.store[c].tree = h.store[d].tree
  BY <1>1, <1>2, <1>3
<1> QED BY <1>4 DEF Kept

(* So a file is kept where it is, or as HEAD has it.                       *)
LEMMA TreeKept ==
  ASSUME NEW g, RepoInv(g), Typed(g), NEW r, NEW h, RepoStep(g, h, r), NEW F,
         h.local \in Refs, h.remote \in Refs, h.tracking \in Refs,
         h.tree \in Trees, h.index \in Trees, h.unmerged \subseteq Files,
         h.store = g.store \/ (r \in Made(h) /\ h.store[r].tree \in Trees),
         h.stash = g.stash,
         \A f \in Files \ F : /\ g.tree[f] \in {h.tree[f], HeadTree(g)[f]}
                              /\ g.index[f] \in {h.index[f], HeadTree(g)[f]}
  PROVE  TreeStep(g, h, F)
<1>1. Made(g) \subseteq Made(h)
  BY DEF RepoStep, Made, Log
<1>2. \A c \in Commits : h.store[c].tree \in Trees
  BY DEF Typed, RepoStep
<1>3. Base \in Made(g) /\ Base \in Commits /\ h.store[Base] = g.store[Base]
  BY DEF RepoInv, RepoStep, Made, Commits
<1>4. ASSUME NEW c \in Commits, c \notin Made(h) PROVE h.store[c].tree = h.store[Base].tree
  <2>1. c \notin Made(g) /\ h.store[c] = g.store[c]
    BY <1>1, <1>4 DEF RepoStep
  <2> QED BY <1>3, <2>1 DEF Typed
<1>5. Typed(h)
  BY <1>2, <1>4 DEF Typed
<1>6. ASSUME NEW f PROVE /\ h.tree[f] \in Kept(h, f) /\ h.index[f] \in Kept(h, f)
                         /\ HeadTree(g)[f] \in Kept(h, f)
  <2>1. HeadCommit(g) \in Commits
    BY DEF RepoInv, Made
  <2>2. g.store[HeadCommit(g)].tree[f] \in Kept(h, f)
    BY <2>1, Stored
  <2>3. h.tree[f] \in Kept(h, f) /\ h.index[f] \in Kept(h, f)
    BY DEF Kept
  <2> QED BY <2>2, <2>3 DEF HeadTree
<1>7. ASSUME NEW f \in Files \ F PROVE g.tree[f] \in Kept(h, f) /\ g.index[f] \in Kept(h, f)
  BY <1>6
<1> QED BY <1>5, <1>7 DEF TreeStep

(* HEAD's files are a tree.                                                *)
LEMMA HeadTyped ==
  ASSUME NEW g, RepoInv(g), Typed(g) PROVE HeadTree(g) \in Trees
<1>1. HeadCommit(g) \in Commits
  BY DEF RepoInv, Made
<1> QED BY <1>1 DEF Typed, HeadTree

(* Nothing is done to the files.                                           *)
LEMMA TreeSame ==
  ASSUME NEW g, RepoInv(g), Typed(g), NEW r, NEW h, RepoStep(g, h, r),
         h.local \in Refs, h.remote \in Refs, h.tracking \in Refs,
         h.store = g.store, h.stash = g.stash,
         h.tree = g.tree, h.index = g.index, h.unmerged = g.unmerged
  PROVE  TreeStep(g, h, {})
<1>1. g.tree \in Trees /\ g.index \in Trees /\ g.unmerged \subseteq Files
  BY DEF Typed
<1>2. \A f \in Files \ {} : /\ g.tree[f] \in {h.tree[f], HeadTree(g)[f]}
                            /\ g.index[f] \in {h.index[f], HeadTree(g)[f]}
  OBVIOUS
<1> QED BY <1>1, <1>2, TreeKept

(* A fetch changes what is known of the remote only.                       *)
LEMMA TreeFetch ==
  ASSUME NEW g, RepoInv(g), Typed(g), NEW r, NEW bs
  PROVE  /\ TreeStep(g, Fetched(g, bs), {})
         /\ LET h == Fetched(g, bs)
            IN  /\ h.tree = g.tree /\ h.index = g.index /\ h.unmerged = g.unmerged
                /\ h.stash = g.stash /\ h.local = g.local /\ h.store = g.store
                /\ h.head = g.head
<1> DEFINE t == [b \in Branches |-> IF b \in bs THEN g.remote[b] ELSE g.tracking[b]]
           h == Fetched(g, bs)
<1>1. /\ IsRepo(h) /\ h.store = g.store /\ h.local = g.local /\ h.remote = g.remote
      /\ h.tracking = t /\ h.tree = g.tree /\ h.index = g.index
      /\ h.unmerged = g.unmerged /\ h.stash = g.stash /\ h.head = g.head
  BY DEF RepoInv, IsRepo, Fetched
<1>2. t \in Refs
  BY DEF Typed, Refs
<1>3. RepoStep(g, h, r)
  BY Fetch
<1> HIDE DEF h, t
<1>4. TreeStep(g, h, {})
  BY <1>1, <1>2, <1>3, TreeSame DEF Typed
<1> QED BY <1>1, <1>4 DEF h

(* git moves a file that differs between two commits where it is clean, or *)
(* hidden.                                                                 *)
LEMMA MovedFiles ==
  ASSUME NEW g, RepoInv(g), Typed(g), NEW c \in Commits, NEW old \in Trees
  PROVE  /\ Moved(g, old, c) \in Trees
         /\ \A f \in Files : Moved(g, old, c)[f] = IF g.store[c].tree[f] # HeadTree(g)[f]
                                                   THEN g.store[c].tree[f] ELSE old[f]
<1>1. g.store[c].tree \in Trees
  BY DEF Typed
<1> QED BY <1>1 DEF Moved, Trees

(* A checkout, or a new branch where HEAD is: of hidden files only, what   *)
(* the workspace holds may be lost.                                        *)
LEMMA TreeSwitch ==
  ASSUME NEW g, RepoInv(g), Typed(g), NEW r, NEW b \in Branches, NEW c \in Made(g),
         g.local[b] \in {c, None}, CanSwitch(g, c) \/ c = HeadCommit(g)
  PROVE  TreeStep(g, SwitchTo(g, b, c), Hidden(g))
<1> DEFINE h == SwitchTo(g, b, c)
           t == Moved(g, g.tree, c)
           i == Moved(g, g.index, c)
<1>1. /\ IsRepo(h) /\ h.store = g.store /\ h.remote = g.remote /\ h.tracking = g.tracking
      /\ h.local = [g.local EXCEPT ![b] = c] /\ h.tree = t /\ h.index = i
      /\ h.unmerged = g.unmerged /\ h.stash = g.stash
  BY DEF RepoInv, IsRepo, SwitchTo
<1>2. RepoStep(g, h, r)
  BY Switch
<1>3. c \in Commits
  BY DEF Made
<1>4. [g.local EXCEPT ![b] = c] \in Refs
  BY <1>3 DEF Typed, Refs
<1>5. /\ t \in Trees /\ i \in Trees
      /\ \A f \in Files : g.store[c].tree[f] = HeadTree(g)[f] => t[f] = g.tree[f] /\ i[f] = g.index[f]
  BY <1>3, MovedFiles DEF Typed
<1>6. \A f \in Files \ Hidden(g) : g.store[c].tree[f] # HeadTree(g)[f]
        => g.tree[f] = HeadTree(g)[f] /\ g.index[f] = HeadTree(g)[f]
  BY DEF CanSwitch, Clean, HeadTree
<1> HIDE DEF h, t, i
<1>7. \A f \in Files \ Hidden(g) : /\ g.tree[f] \in {h.tree[f], HeadTree(g)[f]}
                                   /\ g.index[f] \in {h.index[f], HeadTree(g)[f]}
  BY <1>1, <1>5, <1>6
<1>8. /\ h.local \in Refs /\ h.remote \in Refs /\ h.tracking \in Refs
      /\ h.tree \in Trees /\ h.index \in Trees /\ h.unmerged \subseteq Files
  BY <1>1, <1>4, <1>5 DEF Typed
<1>9. TreeStep(g, h, Hidden(g))
  BY <1>1, <1>2, <1>7, <1>8, TreeKept
<1> QED BY <1>9 DEF h

(* The same for an advance of HEAD.                                        *)
LEMMA TreeAdvance ==
  ASSUME NEW g, RepoInv(g), Typed(g), NEW r, NEW c \in Made(g), HeadCommit(g) \in Log(g, c),
         CanSwitch(g, c)
  PROVE  TreeStep(g, FastForward(g, c), Hidden(g))
<1> DEFINE a == Advance(g, c)
           h == FastForward(g, c)
           t == Moved(g, g.tree, c)
           i == Moved(g, g.index, c)
<1>1. /\ IsRepo(a) /\ a.store = g.store /\ a.remote = g.remote /\ a.tracking = g.tracking
      /\ a.local = (IF g.head \in Branches THEN [g.local EXCEPT ![g.head] = c] ELSE g.local)
      /\ a.unmerged = g.unmerged /\ a.stash = g.stash
  BY DEF RepoInv, IsRepo, Advance
<1>2. h = [a EXCEPT !.tree = t, !.index = i]
  BY DEF FastForward
<1>3. RepoStep(g, h, r)
  BY Advanced
<1>4. c \in Commits
  BY DEF Made
<1>5. /\ t \in Trees /\ i \in Trees
      /\ \A f \in Files : g.store[c].tree[f] = HeadTree(g)[f] => t[f] = g.tree[f] /\ i[f] = g.index[f]
  BY <1>4, MovedFiles DEF Typed
<1>6. \A f \in Files \ Hidden(g) : g.store[c].tree[f] # HeadTree(g)[f]
        => g.tree[f] = HeadTree(g)[f] /\ g.index[f] = HeadTree(g)[f]
  BY DEF CanSwitch, Clean
<1> HIDE DEF a, h, t, i
<1>7. /\ h.store = g.store /\ h.remote = g.remote /\ h.tracking = g.tracking
      /\ h.local = (IF g.head \in Branches THEN [g.local EXCEPT ![g.head] = c] ELSE g.local)
      /\ h.tree = t /\ h.index = i /\ h.unmerged = g.unmerged /\ h.stash = g.stash
  BY <1>1, <1>2 DEF IsRepo
<1>8. \A f \in Files \ Hidden(g) : /\ g.tree[f] \in {h.tree[f], HeadTree(g)[f]}
                                   /\ g.index[f] \in {h.index[f], HeadTree(g)[f]}
  BY <1>5, <1>6, <1>7
<1>9. h.local \in Refs
  BY <1>4, <1>7 DEF Typed, Refs
<1>10. TreeStep(g, h, Hidden(g))
  BY <1>3, <1>5, <1>7, <1>8, <1>9, TreeKept DEF Typed
<1> QED BY <1>10 DEF h

(* A commit itself leaves the workspace alone.                             *)
LEMMA CommitLeaves ==
  ASSUME NEW g, RepoInv(g), NEW r, NEW t
  PROVE  LET w == WithCommit(g, r, t)
         IN  /\ w.tree = g.tree /\ w.index = g.index /\ w.unmerged = g.unmerged
             /\ w.stash = g.stash
<1> DEFINE k == Advance(g, r)
           rec == [tree |-> t, parent |-> HeadCommit(g),
                   log |-> Log(g, HeadCommit(g))
                             \cup (IF g.merging = None THEN {} ELSE Log(g, g.merging)) \cup {r}]
           w == WithCommit(g, r, t)
<1>1. /\ IsRepo(k) /\ k.tree = g.tree /\ k.index = g.index /\ k.unmerged = g.unmerged
      /\ k.stash = g.stash
  BY DEF RepoInv, IsRepo, Advance
<1>2. w = [k EXCEPT !.store[r] = rec, !.merging = None]
  BY DEF WithCommit
<1> HIDE DEF k, rec, w
<1>3. w.tree = g.tree /\ w.index = g.index /\ w.unmerged = g.unmerged /\ w.stash = g.stash
  BY <1>1, <1>2 DEF IsRepo
<1> QED BY <1>3 DEF w

(* The commands that make a commit, with what they leave in the workspace. *)
LEMMA TreeCommit ==
  ASSUME NEW g, RepoInv(g), Typed(g), NEW r \in Requests, NEW t \in Trees, NEW h,
         RepoStep(g, h, r), NEW w, IsCommit(w, r, t, h), w.local = g.local,
         w.remote = g.remote, w.tracking = g.tracking, w.store = g.store,
         h.tree \in Trees, h.index \in Trees, h.unmerged = g.unmerged, h.stash = g.stash,
         NEW F, \A f \in Files \ F : /\ g.tree[f] \in {h.tree[f], HeadTree(g)[f]}
                                     /\ g.index[f] \in {h.index[f], HeadTree(g)[f]}
  PROVE  TreeStep(g, h, F)
<1>1. r \in Commits /\ DOMAIN g.store = Commits
  BY DEF Commits, RepoInv
<1>2. h.store[r].tree = t /\ r \in h.store[r].log
  BY <1>1 DEF IsCommit
<1>3. r \in Made(h)
  BY <1>1, <1>2 DEF Made, Log
<1>4. h.local \in Refs
  BY <1>1 DEF IsCommit, Typed, Refs
<1>5. h.remote \in Refs /\ h.tracking \in Refs /\ h.unmerged \subseteq Files
  BY DEF IsCommit, Typed
<1> QED BY <1>2, <1>3, <1>4, <1>5, TreeKept

(* A merged file was clean, and the tree that is merged is one.            *)
LEMMA MergedFiles ==
  ASSUME NEW g, RepoInv(g), Typed(g), NEW c \in Commits
  PROVE  /\ MergedTree(g, c) \in Trees
         /\ \A f \in Conflicts(g, c) : f \in Files /\ MergedTree(g, c)[f] # HeadTree(g)[f]
<1> DEFINE a == g.store[MergeBase(g, HeadCommit(g), c)].tree
           t == g.store[c].tree
<1>1. t \in Trees /\ HeadTree(g) \in Trees
  BY HeadTyped DEF Typed
<1>2. MergedTree(g, c) = [f \in Files |-> IF t[f] # a[f] THEN t[f] ELSE HeadTree(g)[f]]
  BY DEF MergedTree
<1>3. Conflicts(g, c) = {f \in Files : /\ HeadTree(g)[f] # a[f] /\ t[f] # a[f]
                                       /\ HeadTree(g)[f] # t[f]}
  BY DEF Conflicts
<1> HIDE DEF a, t
<1> QED BY <1>1, <1>2, <1>3 DEF Trees

(* A merge without conflicts.                                              *)
LEMMA TreeMerge ==
  ASSUME NEW g, RepoInv(g), Typed(g), NEW r \in Requests, Log(g, r) = {}, NEW c \in Made(g),
         CanMerge(g, c)
  PROVE  TreeStep(g, CleanMerge(g, c, r), Hidden(g))
<1> DEFINE a == [g EXCEPT !.merging = c]
           t == MergedTree(g, c)
           w == WithCommit(a, r, t)
           n == Replaced(g, g.tree, t)
           h == CleanMerge(g, c, r)
<1>1. /\ IsRepo(a) /\ a.store = g.store /\ a.local = g.local /\ a.remote = g.remote
      /\ a.tracking = g.tracking /\ a.head = g.head /\ a.merging = c
      /\ a.unmerged = g.unmerged /\ a.stash = g.stash
  BY DEF RepoInv, IsRepo
<1>2. h = [w EXCEPT !.tree = n, !.index = t]
  BY DEF CleanMerge
<1>3. RepoStep(g, h, r)
  BY Merged
<1>4. t \in Trees
  BY MergedFiles DEF Made
<1>5. /\ n \in Trees
      /\ \A f \in Files : n[f] = IF t[f] # HeadTree(g)[f] THEN t[f] ELSE g.tree[f]
  BY <1>4 DEF Replaced, Trees, Typed
<1>6. /\ \A f \in Files \ Hidden(g) : t[f] # HeadTree(g)[f] => g.tree[f] = HeadTree(g)[f]
      /\ g.index = HeadTree(g)
  BY DEF CanMerge, Clean
<1> HIDE DEF h, t, n
<1>7. RepoInv(a)
  BY <1>1, FilesOnly DEF RepoStep
<1> HIDE DEF a
<1>8. IsCommit(a, r, t, w) /\ w.unmerged = a.unmerged /\ w.stash = a.stash
  BY <1>7, CommitFields, CommitLeaves
<1> HIDE DEF w
<1>9. /\ IsRepo(h) /\ h.store = w.store /\ h.local = w.local /\ h.remote = w.remote
      /\ h.tracking = w.tracking /\ h.merging = w.merging /\ h.head = w.head
      /\ h.tree = n /\ h.index = t /\ h.unmerged = w.unmerged /\ h.stash = w.stash
  BY <1>2, <1>8 DEF IsCommit, IsRepo
<1>10. IsCommit(a, r, t, h)
  BY <1>8, <1>9 DEF IsCommit
<1>11. \A f \in Files \ Hidden(g) : /\ g.tree[f] \in {h.tree[f], HeadTree(g)[f]}
                                    /\ g.index[f] \in {h.index[f], HeadTree(g)[f]}
  BY <1>5, <1>6, <1>9
<1>12. TreeStep(g, h, Hidden(g))
  BY <1>1, <1>3, <1>4, <1>5, <1>8, <1>9, <1>10, <1>11, TreeCommit
<1> QED BY <1>12 DEF h

(* A merge with conflicts puts Marked only where nothing was changed, or   *)
(* in hidden files.                                                        *)
LEMMA TreeConflict ==
  ASSUME NEW g, RepoInv(g), Typed(g), NEW r, NEW c \in Made(g), CanMerge(g, c)
  PROVE  TreeStep(g, ConflictedMerge(g, c), Hidden(g))
<1> DEFINE t == MergedTree(g, c)
           x == Conflicts(g, c)
           n == [f \in Files |-> IF f \in x THEN Marked ELSE Replaced(g, g.tree, t)[f]]
           i == [f \in Files |-> IF f \in x THEN HeadTree(g)[f] ELSE t[f]]
           h == ConflictedMerge(g, c)
<1>1. h = [g EXCEPT !.merging = c, !.unmerged = x, !.tree = n, !.index = i]
  BY DEF ConflictedMerge
<1>2. RepoStep(g, h, r)
  BY LeftOpen
<1>3. /\ t \in Trees /\ x \subseteq Files
      /\ \A f \in x : t[f] # HeadTree(g)[f]
  BY MergedFiles DEF Made
<1>4. \A f \in Files : Replaced(g, g.tree, t)[f] =
                         IF t[f] # HeadTree(g)[f] THEN t[f] ELSE g.tree[f]
  BY DEF Replaced
<1>5. /\ \A f \in Files \ Hidden(g) : t[f] # HeadTree(g)[f] => g.tree[f] = HeadTree(g)[f]
      /\ g.index = HeadTree(g)
  BY DEF CanMerge, Clean
<1>6. HeadTree(g) \in Trees /\ g.tree \in Trees /\ Marked \in Versions
  BY HeadTyped DEF Typed, Versions
<1> HIDE DEF h, t, x
<1>7. /\ n \in Trees /\ i \in Trees
      /\ \A f \in Files \ Hidden(g) : n[f] # g.tree[f] => g.tree[f] = HeadTree(g)[f]
  BY <1>3, <1>4, <1>5, <1>6 DEF Trees
<1> HIDE DEF n, i
<1>8. /\ h.store = g.store /\ h.local = g.local /\ h.remote = g.remote
      /\ h.tracking = g.tracking /\ h.tree = n /\ h.index = i /\ h.unmerged = x
      /\ h.stash = g.stash
  BY <1>1 DEF RepoInv, IsRepo
<1>9. \A f \in Files \ Hidden(g) : /\ g.tree[f] \in {h.tree[f], HeadTree(g)[f]}
                                   /\ g.index[f] \in {h.index[f], HeadTree(g)[f]}
  BY <1>5, <1>7, <1>8
<1>10. TreeStep(g, h, Hidden(g))
  BY <1>2, <1>3, <1>7, <1>8, <1>9, TreeKept DEF Typed
<1> QED BY <1>10 DEF h

(* What is kept of a file is kept on, step after step.                     *)
LEMMA KeptOn ==
  ASSUME NEW g, RepoInv(g), Typed(g), NEW r, NEW h, RepoStep(g, h, r), NEW F,
         TreeStep(g, h, F), NEW f \in Files \ F
  PROVE  Kept(g, f) \subseteq Kept(h, f)
<1>1. g.tree[f] \in Kept(h, f) /\ g.index[f] \in Kept(h, f)
  BY DEF TreeStep
<1>2. \A c \in Commits : g.store[c].tree[f] \in Kept(h, f)
  BY Stored
<1>3. \A s \in {x \in g.stash : f \in DOMAIN x.tree} :
        s.tree[f] \in Kept(h, f) /\ s.index[f] \in Kept(h, f)
  BY DEF TreeStep, Kept
<1>4. ASSUME NEW v \in Kept(g, f) PROVE v \in Kept(h, f)
  <2>1. \/ v \in {g.tree[f], g.index[f]}
        \/ \E c \in Commits : v = g.store[c].tree[f]
        \/ \E s \in {x \in g.stash : f \in DOMAIN x.tree} : v \in {s.tree[f], s.index[f]}
    BY DEF Kept
  <2> QED BY <1>1, <1>2, <1>3, <2>1
<1> QED BY <1>4

(* Of two steps, too.                                                      *)
LEMMA TreeTwoSteps ==
  ASSUME NEW g, RepoInv(g), Typed(g), NEW r, NEW h, RepoStep(g, h, r), TreeStep(g, h, {}),
         NEW k, NEW F, RepoStep(h, k, r), TreeStep(h, k, F)
  PROVE  TreeStep(g, k, F)
<1>1. RepoInv(h) /\ Typed(h)
  BY DEF RepoStep, TreeStep
<1>2. \A f \in Files \ F : Kept(h, f) \subseteq Kept(k, f)
  BY <1>1, KeptOn
<1> QED BY <1>2 DEF TreeStep

(* A step that loses nothing but some files loses nothing but more.        *)
LEMMA TreeWider ==
  ASSUME NEW g, NEW h, NEW F, NEW G, F \subseteq G, TreeStep(g, h, F) PROVE TreeStep(g, h, G)
  BY DEF TreeStep

-----------------------------------------------------------------------------
(* What each request does to the files                                     *)

Selected(r) == IF Op(r) \in {"git_stash", "git_stash_apply"} THEN {} ELSE rq[r].ask.files

(* The requests and commands that ask, fetch or fail.                      *)
LEMMA AskTree ==
  ASSUME IInv, Typed(repo), NEW r \in Requests,
         \/ Dispatch(r) \/ Refuse(r) \/ CommandFails(r) \/ Look(r) \/ FetchBranch(r)
         \/ Refresh(r) \/ CreateLook(r) \/ CreateUnclaimed(r) \/ Staged(r) \/ MergeHead(r)
         \/ Sort(r) \/ DeleteEnd(r) \/ CurrentForPush(r) \/ CurrentForPull(r)
         \/ CurrentForMerge(r) \/ CurrentForMergeTo(r)
  PROVE  TreeStep(repo, repo', {})
<1>1. RepoInv(repo) /\ RepoStep(repo, repo, r)
  BY NoChange DEF IInv
<1>2. TreeStep(repo, repo, {})
  BY <1>1, TreeSame DEF Typed
<1>3. \A bs : TreeStep(repo, Fetched(repo, bs), {})
  BY <1>1, TreeFetch
<1>4. ASSUME Dispatch(r) \/ Refuse(r) \/ CommandFails(r) \/ Look(r)
      PROVE  repo' = repo
  BY <1>4 DEF Dispatch, Refuse, CommandFails, Look, Error, Step
<1>5. ASSUME FetchBranch(r) \/ Refresh(r) \/ CreateLook(r) \/ CreateUnclaimed(r)
      PROVE  repo' = repo \/ \E bs : repo' = Fetched(repo, bs)
  BY <1>5 DEF FetchBranch, Refresh, CreateLook, CreateUnclaimed, Error, Step
<1>6. ASSUME Staged(r) \/ MergeHead(r) \/ Sort(r) \/ DeleteEnd(r) PROVE repo' = repo
  BY <1>6 DEF Staged, MergeHead, Sort, DeleteEnd, Error, Step
<1>7. ASSUME \/ CurrentForPush(r) \/ CurrentForPull(r) \/ CurrentForMerge(r)
             \/ CurrentForMergeTo(r)
      PROVE  repo' = repo
  BY <1>7 DEF CurrentForPush, CurrentForPull, CurrentForMerge, CurrentForMergeTo, Error, Step
<1> QED BY <1>2, <1>3, <1>4, <1>5, <1>6, <1>7

(* The checkouts.                                                          *)
LEMMA CheckoutTree ==
  ASSUME IInv, Typed(repo), NEW r \in Requests,
         CheckoutLocal(r) \/ CheckoutNew(r) \/ CreateNew(r)
  PROVE  TreeStep(repo, repo', Hidden(repo))
<1> DEFINE b == rq[r].branch
<1>1. RepoInv(repo) /\ RepoStep(repo, repo, r) /\ ReqInv(repo, rq[r], r)
  BY NoChange DEF IInv
<1>2. TreeStep(repo, repo, Hidden(repo))
  BY <1>1, TreeSame, TreeWider DEF Typed
<1>3. ASSUME NEW c \in Made(repo), b \in Branches, repo.local[b] \in {c, None},
             CanSwitch(repo, c) \/ c = HeadCommit(repo)
      PROVE  TreeStep(repo, SwitchTo(repo, b, c), Hidden(repo))
  BY <1>1, <1>3, TreeSwitch
<1>4. b \in Branches
  BY <1>1 DEF CheckoutLocal, CheckoutNew, CreateNew, At, ReqInv, BranchPhases
<1>5. repo.local[b] \in Made(repo) \cup {None} /\ repo.tracking[b] \in Made(repo) \cup {None}
      /\ HeadCommit(repo) \in Made(repo)
  BY <1>1, <1>4 DEF RepoInv
<1>6. CASE CheckoutLocal(r)
  <2>1. repo.local[b] # None
    BY <1>1, <1>6 DEF CheckoutLocal, At, ReqInv
  <2>2. repo' = repo \/ (CanSwitch(repo, repo.local[b]) /\ repo' = SwitchTo(repo, b, repo.local[b]))
    BY <1>6 DEF CheckoutLocal, Error, Step
  <2> QED BY <1>2, <1>3, <1>4, <1>5, <2>1, <2>2
<1>7. CASE CheckoutNew(r)
  <2>1. \/ repo' = repo
        \/ /\ repo.local[b] = None /\ repo.tracking[b] # None
           /\ CanSwitch(repo, repo.tracking[b])
           /\ repo' = SwitchTo(repo, b, repo.tracking[b])
    BY <1>7 DEF CheckoutNew, Error, Step
  <2> QED BY <1>2, <1>3, <1>4, <1>5, <2>1
<1>8. CASE CreateNew(r)
  <2>1. \/ repo' = repo
        \/ repo.local[b] = None /\ repo' = SwitchTo(repo, b, HeadCommit(repo))
    BY <1>8 DEF CreateNew, Error, Step
  <2> QED BY <1>2, <1>3, <1>4, <1>5, <2>1
<1> QED BY <1>6, <1>7, <1>8

(* Push, pull and merge.                                                   *)
LEMMA RemoteTree ==
  ASSUME IInv, Typed(repo), NEW r \in Requests, Goes(r), Push(r) \/ Pull(r) \/ Merge(r)
  PROVE  TreeStep(repo, repo', Hidden(repo))
<1>1. RepoInv(repo) /\ RepoStep(repo, repo, r) /\ ReqInv(repo, rq[r], r)
      /\ RepoStep(repo, repo', r)
  BY NoChange DEF IInv, Goes
<1>2. TreeStep(repo, repo, {})
  BY <1>1, TreeSame DEF Typed
<1>3. ASSUME TreeStep(repo, repo', {}) PROVE TreeStep(repo, repo', Hidden(repo))
  BY <1>3, TreeWider
<1>4. CASE Push(r)
  <2> DEFINE b == rq[r].branch
             c == repo.local[b]
             h == repo'
  <2>1. repo' = repo \/ repo' \in {[repo EXCEPT !.remote[b] = c, !.tracking[b] = c],
                                   [repo EXCEPT !.remote[b] = c]}
    BY <1>4 DEF Push, Error, Step
  <2>2. CASE repo' \in {[repo EXCEPT !.remote[b] = c, !.tracking[b] = c],
                        [repo EXCEPT !.remote[b] = c]}
    <3>1. b \in Branches
      BY <1>1, <1>4 DEF Push, At, ReqInv, BranchPhases
    <3>2. /\ h.store = repo.store /\ h.local = repo.local
          /\ h.remote = [repo.remote EXCEPT ![b] = c]
          /\ h.tracking \in {[repo.tracking EXCEPT ![b] = c], repo.tracking}
          /\ h.tree = repo.tree
          /\ h.index = repo.index /\ h.unmerged = repo.unmerged /\ h.stash = repo.stash
      BY <1>1, <2>2 DEF RepoInv, IsRepo
    <3>3. c \in Commits \cup {None}
      BY <3>1 DEF Typed, Refs
    <3> HIDE DEF h, c
    <3>4. h.local \in Refs /\ h.remote \in Refs /\ h.tracking \in Refs
      BY <3>2, <3>3 DEF Typed, Refs
    <3>5. TreeStep(repo, h, {})
      BY <1>1, <3>2, <3>4, TreeSame DEF h
    <3> QED BY <1>3, <3>5 DEF h
  <2> QED BY <1>2, <1>3, <2>1, <2>2
<1>5. CASE Pull(r)
  <2> DEFINE b == rq[r].branch
             c == repo.remote[b]
             g == Fetched(repo, {b})
             h == HeadCommit(repo)
  <2>1. b \in Branches /\ c # None
    BY <1>1, <1>5 DEF Pull, At, ReqInv, BranchPhases
  <2>2. /\ TreeStep(repo, g, {}) /\ RepoStep(repo, g, r) /\ g.tree = repo.tree
        /\ g.index = repo.index /\ g.unmerged = repo.unmerged /\ g.local = repo.local
        /\ g.store = repo.store /\ g.head = repo.head
    BY <1>1, TreeFetch, Fetch
  <2>3. \/ repo' = g
        \/ h \in Log(repo, c) /\ CanSwitch(repo, c) /\ repo' = FastForward(g, c)
    BY <1>5 DEF Pull, Step
  <2>4. CASE h \in Log(repo, c) /\ CanSwitch(repo, c) /\ repo' = FastForward(g, c)
    <3>1. c \in Made(repo)
      BY <1>1, <2>1 DEF RepoInv
    <3> HIDE DEF g
    <3>2. RepoInv(g) /\ Typed(g) /\ c \in Made(g) /\ HeadCommit(g) = h
          /\ Log(g, c) = Log(repo, c) /\ HeadTree(g) = HeadTree(repo)
      BY <2>2, <3>1 DEF RepoStep, TreeStep, Made, HeadCommit, HeadTree, Log
    <3>3. Hidden(g) = Hidden(repo)
      BY <2>2, <3>2 DEF Hidden, Untracked
    <3>4. CanSwitch(g, c)
      BY <2>2, <2>4, <3>2, <3>3 DEF CanSwitch, Clean
    <3>5. TreeStep(g, repo', Hidden(repo)) /\ RepoStep(g, repo', r)
      BY <2>4, <3>2, <3>4, <3>3, TreeAdvance, Advanced
    <3> QED BY <1>1, <2>2, <3>5, TreeTwoSteps
  <2> QED BY <1>3, <2>2, <2>3, <2>4
<1>6. CASE Merge(r)
  <2> DEFINE c == MergeRef(r)
             h == HeadCommit(repo)
  <2>1. rq[r].pc = "merge" /\ Merging(repo, rq[r]) /\ Log(repo, r) = {}
    BY <1>1, <1>6 DEF Merge, At, ReqInv, MergeInv
  <2>2. c \in Made(repo)
    BY <1>1, <2>1 DEF Merging, Ref, MergeRef, RepoInv
  <2> HIDE DEF c, h
  <2>3. \/ repo' = repo
        \/ h \in Log(repo, c) /\ CanSwitch(repo, c) /\ repo' = FastForward(repo, c)
        \/ CanMerge(repo, c) /\ repo' \in {CleanMerge(repo, c, r), ConflictedMerge(repo, c)}
    BY <1>6 DEF Merge, Error, Step, c, h
  <2> QED BY <1>1, <1>2, <1>3, <2>1, <2>2, <2>3, TreeAdvance, TreeMerge, TreeConflict DEF h
<1> QED BY <1>4, <1>5, <1>6

(* A request keeps to the steps of its operation and to its files.         *)
OpInv(q) ==
  /\ q.ans \in {"none", "ok", "error"}
  /\ q.pc # "new" =>
       /\ q.ask \in Asks
       /\ q.todo \subseteq q.ask.files
       /\ q.ask.op = "git_stash" => q.pc \in {"stash", "refresh", "done"}
       /\ q.ask.op = "git_stash_apply" => q.pc \in {"apply", "refresh", "done"}
       /\ q.ask.op = "git_analysis_source" => q.pc \in {"source", "read", "done"}
       /\ q.pc \in {"source", "read"} => q.ask.op = "git_analysis_source"

(* What a step on those files was asked for.                              *)
LEMMA Selects ==
  ASSUME NEW r, OpInv(rq[r]), rq[r].pc \notin {"new", "stash", "apply", "refresh", "done"}
  PROVE  Selected(r) = rq[r].ask.files
  BY DEF OpInv, Selected, Op

(* The commits.                                                            *)
LEMMA CommitTreeStep ==
  ASSUME IInv, Typed(repo), NEW r \in Requests, OpInv(rq[r]), Goes(r),
         CommitSelected(r) \/ CommitIndex(r)
  PROVE  TreeStep(repo, repo', Selected(r))
<1>1. RepoInv(repo) /\ RepoStep(repo, repo, r) /\ RepoStep(repo, repo', r)
  BY NoChange DEF IInv, Goes
<1>2. TreeStep(repo, repo, Selected(r))
  BY <1>1, TreeSame, TreeWider DEF Typed
<1>3. rq[r].pc = "commit"
  BY DEF CommitSelected, CommitIndex, At
<1>4. Selected(r) = rq[r].ask.files
  BY <1>3, Selects
<1>5. HeadTree(repo) \in Trees /\ repo.tree \in Trees /\ repo.index \in Trees
  BY <1>1, HeadTyped DEF Typed
<1>6. CASE CommitSelected(r)
  <2> DEFINE F == rq[r].ask.files
             t == [f \in Files |-> IF f \in F THEN repo.tree[f] ELSE HeadTree(repo)[f]]
             i == [f \in Files |-> IF f \in F THEN repo.tree[f] ELSE repo.index[f]]
             w == WithCommit(repo, r, t)
             h == [w EXCEPT !.index = i]
  <2>1. repo' = repo \/ repo' = h
    BY <1>6 DEF CommitSelected, Error, Step
  <2>2. CASE repo' = h
    <3>1. t \in Trees /\ i \in Trees /\ \A f \in Files \ F : i[f] = repo.index[f]
      BY <1>5 DEF Trees
    <3> HIDE DEF t, i
    <3>2. IsCommit(repo, r, t, w) /\ w.tree = repo.tree /\ w.unmerged = repo.unmerged
          /\ w.stash = repo.stash
      BY <1>1, CommitFields, CommitLeaves
    <3> HIDE DEF w
    <3>3. /\ IsRepo(h) /\ h.store = w.store /\ h.local = w.local /\ h.remote = w.remote
          /\ h.tracking = w.tracking /\ h.merging = w.merging /\ h.head = w.head
          /\ h.tree = w.tree /\ h.index = i /\ h.unmerged = w.unmerged /\ h.stash = w.stash
      BY <3>2 DEF IsCommit, IsRepo
    <3> HIDE DEF h
    <3>4. IsCommit(repo, r, t, h)
      BY <3>2, <3>3 DEF IsCommit
    <3>5. \A f \in Files \ F : /\ repo.tree[f] \in {h.tree[f], HeadTree(repo)[f]}
                               /\ repo.index[f] \in {h.index[f], HeadTree(repo)[f]}
      BY <3>1, <3>2, <3>3
    <3> QED BY <1>1, <1>4, <1>5, <2>2, <3>1, <3>2, <3>3, <3>4, <3>5, TreeCommit
  <2> QED BY <1>2, <2>1, <2>2
<1>7. CASE CommitIndex(r)
  <2> DEFINE h == WithCommit(repo, r, repo.index)
  <2>1. repo' = repo \/ repo' = h
    BY <1>7 DEF CommitIndex, Error, Step
  <2>2. CASE repo' = h
    <3>1. /\ IsCommit(repo, r, repo.index, h) /\ h.tree = repo.tree /\ h.index = repo.index
          /\ h.unmerged = repo.unmerged /\ h.stash = repo.stash
      BY <1>1, CommitFields, CommitLeaves
    <3> HIDE DEF h
    <3>2. \A f \in Files \ Selected(r) : /\ repo.tree[f] \in {h.tree[f], HeadTree(repo)[f]}
                                         /\ repo.index[f] \in {h.index[f], HeadTree(repo)[f]}
      BY <3>1
    <3> QED BY <1>1, <1>5, <2>2, <3>1, <3>2, TreeCommit
  <2> QED BY <1>2, <2>1, <2>2
<1> QED BY <1>6, <1>7

(* The requests that write, stage, restore or delete what they selected.   *)
LEMMA FilesTree ==
  ASSUME IInv, Typed(repo), NEW r \in Requests, OpInv(rq[r]), Goes(r),
         Add(r) \/ Restore(r) \/ DeleteOne(r) \/ Write(r)
  PROVE  TreeStep(repo, repo', Selected(r))
<1>1. RepoInv(repo) /\ RepoStep(repo, repo, r) /\ RepoStep(repo, repo', r)
  BY NoChange DEF IInv, Goes
<1>2. TreeStep(repo, repo, Selected(r))
  BY <1>1, TreeSame, TreeWider DEF Typed
<1>3. rq[r].pc \in {"add", "restore", "delete", "write"}
  BY DEF Add, Restore, DeleteOne, Write, At
<1>4. Selected(r) = rq[r].ask.files /\ rq[r].todo \subseteq rq[r].ask.files
  BY <1>3, Selects DEF OpInv
<1>5. HeadTree(repo) \in Trees /\ repo.tree \in Trees /\ repo.index \in Trees
      /\ Absent \in Versions /\ r \in Versions
  BY <1>1, HeadTyped DEF Typed, Versions, Commits
<1>6. ASSUME NEW t \in Trees, NEW i \in Trees, NEW u, u \subseteq Files,
             \A f \in Files \ Selected(r) : t[f] = repo.tree[f] /\ i[f] = repo.index[f],
             repo' = [repo EXCEPT !.tree = t, !.index = i, !.unmerged = u]
      PROVE  TreeStep(repo, repo', Selected(r))
  <2> DEFINE h == [repo EXCEPT !.tree = t, !.index = i, !.unmerged = u]
  <2>1. /\ h.store = repo.store /\ h.local = repo.local /\ h.remote = repo.remote
        /\ h.tracking = repo.tracking /\ h.tree = t /\ h.index = i /\ h.unmerged = u
        /\ h.stash = repo.stash
    BY <1>1 DEF RepoInv, IsRepo
  <2> HIDE DEF h
  <2>2. repo' = h
    BY <1>6 DEF h
  <2> QED BY <1>1, <1>6, <2>1, <2>2, TreeKept DEF Typed
<1>7. CASE Add(r)
  <2> DEFINE F == {f \in rq[r].ask.files : f \notin Ignored \/ repo.index[f] # Absent}
             i == [f \in Files |-> IF f \in F THEN repo.tree[f] ELSE repo.index[f]]
             u == repo.unmerged \ F
  <2>1. repo' = repo \/ repo' = [repo EXCEPT !.index = i, !.unmerged = u]
    BY <1>7 DEF Add, Error, Step
  <2>2. i \in Trees /\ u \subseteq Files /\ \A f \in Files \ Selected(r) : i[f] = repo.index[f]
    BY <1>4, <1>5 DEF Trees, Typed
  <2> HIDE DEF i, u
  <2>3. [repo EXCEPT !.index = i, !.unmerged = u]
          = [repo EXCEPT !.tree = repo.tree, !.index = i, !.unmerged = u]
    BY <1>1 DEF RepoInv, IsRepo
  <2> QED BY <1>2, <1>5, <1>6, <2>1, <2>2, <2>3
<1>8. CASE Restore(r)
  <2> DEFINE F == rq[r].todo
             k == HeadTree(repo)
             t == [f \in Files |-> IF f \in F THEN k[f] ELSE repo.tree[f]]
             i == [f \in Files |-> IF f \in F THEN k[f] ELSE repo.index[f]]
             u == repo.unmerged \ F
  <2>1. repo' = repo \/ repo' = [repo EXCEPT !.tree = t, !.index = i, !.unmerged = u]
    BY <1>8 DEF Restore, Error, Step
  <2>2. /\ t \in Trees /\ i \in Trees /\ u \subseteq Files
        /\ \A f \in Files \ Selected(r) : t[f] = repo.tree[f] /\ i[f] = repo.index[f]
    BY <1>4, <1>5 DEF Trees, Typed
  <2> HIDE DEF t, i, u, k, F
  <2>3. CASE repo' = [repo EXCEPT !.tree = t, !.index = i, !.unmerged = u]
    BY <1>6, <2>2, <2>3
  <2> QED BY <1>2, <2>1, <2>3
<1>9. CASE DeleteOne(r)
  <2>1. PICK d \in rq[r].todo : repo' = [repo EXCEPT !.tree[d] = Absent]
    BY <1>9 DEF DeleteOne, Step
  <2> DEFINE t == [repo.tree EXCEPT ![d] = Absent]
  <2>2. t \in Trees /\ \A f \in Files \ Selected(r) : t[f] = repo.tree[f]
    BY <1>4, <1>5, <2>1 DEF Trees
  <2>3. repo' = [repo EXCEPT !.tree = t, !.index = repo.index, !.unmerged = repo.unmerged]
    BY <1>1, <2>1 DEF RepoInv, IsRepo
  <2> HIDE DEF t
  <2> QED BY <1>5, <1>6, <2>2, <2>3 DEF Typed
<1>10. CASE Write(r)
  <2> DEFINE t == [f \in Files |-> IF f \in rq[r].ask.files THEN r ELSE repo.tree[f]]
  <2>1. repo' = [repo EXCEPT !.tree = t]
    BY <1>10 DEF Write, Step
  <2>2. t \in Trees /\ \A f \in Files \ Selected(r) : t[f] = repo.tree[f]
    BY <1>4, <1>5 DEF Trees
  <2> HIDE DEF t
  <2>3. repo' = [repo EXCEPT !.tree = t, !.index = repo.index, !.unmerged = repo.unmerged]
    BY <1>1, <2>1 DEF RepoInv, IsRepo
  <2> QED BY <1>5, <1>6, <2>2, <2>3 DEF Typed
<1> QED BY <1>7, <1>8, <1>9, <1>10


(* A stash keeps what it takes from workspace and index, and is applied    *)
(* where nothing was changed, or over hidden files.                        *)
LEMMA StashTree ==
  ASSUME IInv, Typed(repo), NEW r \in Requests, OpInv(rq[r]), Goes(r), Stash(r) \/ Apply(r)
  PROVE  TreeStep(repo, repo', Hidden(repo))
<1>1. RepoInv(repo) /\ RepoStep(repo, repo, r) /\ RepoStep(repo, repo', r)
  BY NoChange DEF IInv, Goes
<1>2. TreeStep(repo, repo, {})
  BY <1>1, TreeSame DEF Typed
<1>3. HeadTree(repo) \in Trees /\ repo.tree \in Trees /\ repo.index \in Trees
      /\ Marked \in Versions
  BY <1>1, HeadTyped DEF Typed, Versions
<1>4. CASE Stash(r)
  <2> DEFINE F == IF rq[r].ask.files = {} THEN Files ELSE rq[r].ask.files
             S == {f \in F \ Hidden(repo) : ~Clean(repo, f)}
             t == HeadTree(repo)
             s == [by |-> r, base |-> t, tree |-> [f \in S |-> repo.tree[f]],
                   index |-> [f \in S |-> repo.index[f]]]
             n == [f \in Files |-> IF f \in S THEN t[f] ELSE repo.tree[f]]
             i == [f \in Files |-> IF f \in S THEN t[f] ELSE repo.index[f]]
             m == IF rq[r].ask.files = {} THEN None ELSE repo.merging
             h == [repo EXCEPT !.stash = repo.stash \cup {s}, !.tree = n, !.index = i,
                               !.merging = m]
  <2>1. repo' = repo \/ repo' = h
    BY <1>4 DEF Stash, Error, Step
  <2>2. rq[r].ask \in Asks
    BY <1>4 DEF Stash, At, OpInv
  <2>3. S \subseteq Files
    BY <2>2, GitAssumption
  <2> HIDE DEF S
  <2>4. /\ DOMAIN s.tree = S
        /\ \A f \in S : /\ s.tree[f] = repo.tree[f] /\ s.tree[f] \in Versions
                        /\ s.index[f] = repo.index[f] /\ s.index[f] \in Versions
    BY <1>3, <2>3 DEF Trees
  <2>5. /\ n \in Trees /\ i \in Trees
        /\ \A f \in Files \ S : n[f] = repo.tree[f] /\ i[f] = repo.index[f]
    BY <1>3 DEF Trees
  <2>6. /\ h.store = repo.store /\ h.local = repo.local /\ h.remote = repo.remote
        /\ h.tracking = repo.tracking /\ h.tree = n /\ h.index = i
        /\ h.unmerged = repo.unmerged /\ h.stash = repo.stash \cup {s}
    BY <1>1 DEF RepoInv, IsRepo
  <2> HIDE DEF s, n, i, m, t, h
  <2>7. Typed(h)
    <3>1. Made(h) = Made(repo)
      BY <2>6 DEF Made, Log
    <3>2. \A x \in h.stash : /\ DOMAIN x.tree \subseteq Files
                             /\ \A f \in DOMAIN x.tree :
                                  x.tree[f] \in Versions /\ x.index[f] \in Versions
      BY <2>3, <2>4, <2>6 DEF Typed
    <3> QED BY <2>5, <2>6, <3>1, <3>2 DEF Typed
  <2>8. ASSUME NEW f \in Files PROVE repo.tree[f] \in Kept(h, f) /\ repo.index[f] \in Kept(h, f)
    <3>1. CASE f \in S
      <4>1. s \in {x \in h.stash : f \in DOMAIN x.tree}
        BY <2>4, <2>6, <3>1
      <4> QED BY <2>4, <3>1, <4>1 DEF Kept
    <3>2. CASE f \notin S
      BY <2>5, <2>6, <3>2 DEF Kept
    <3> QED BY <3>1, <3>2
  <2>9. TreeStep(repo, h, {})
    BY <2>6, <2>7, <2>8 DEF TreeStep
  <2> QED BY <1>2, <2>1, <2>9, TreeWider
<1>5. CASE Apply(r)
  <2>1. PICK s \in repo.stash :
          LET S == DOMAIN s.tree
              X == {f \in S : HeadTree(repo)[f] # s.base[f]}
          IN  /\ \A f \in S \ Hidden(repo) : Clean(repo, f)
              /\ repo' = [repo EXCEPT
                   !.tree  = [f \in Files |-> IF f \in X THEN Marked
                                              ELSE IF f \in S THEN s.tree[f]
                                              ELSE repo.tree[f]],
                   !.index = [f \in Files |-> IF f \in S \ X THEN s.index[f]
                                              ELSE repo.index[f]],
                   !.unmerged = X]
    BY <1>5 DEF Apply, Step
  <2> DEFINE S == DOMAIN s.tree
             X == {f \in S : HeadTree(repo)[f] # s.base[f]}
             n == [f \in Files |-> IF f \in X THEN Marked
                                   ELSE IF f \in S THEN s.tree[f] ELSE repo.tree[f]]
             i == [f \in Files |-> IF f \in S \ X THEN s.index[f] ELSE repo.index[f]]
             h == [repo EXCEPT !.tree = n, !.index = i, !.unmerged = X]
  <2>2. repo' = h
    BY <2>1
  <2>3. /\ S \subseteq Files
        /\ \A f \in S \ Hidden(repo) : /\ repo.tree[f] = HeadTree(repo)[f]
                                       /\ repo.index[f] = HeadTree(repo)[f]
    BY <2>1 DEF Clean, Typed
  <2>4. X \subseteq S /\ \A f \in S : s.tree[f] \in Versions /\ s.index[f] \in Versions
    BY DEF Typed
  <2> HIDE DEF S, X
  <2>5. /\ n \in Trees /\ i \in Trees
        /\ \A f \in Files \ S : n[f] = repo.tree[f] /\ i[f] = repo.index[f]
    BY <1>3, <2>4 DEF Trees
  <2> HIDE DEF n, i
  <2>6. /\ h.store = repo.store /\ h.local = repo.local /\ h.remote = repo.remote
        /\ h.tracking = repo.tracking /\ h.tree = n /\ h.index = i
        /\ h.unmerged = X /\ h.stash = repo.stash
    BY <1>1 DEF RepoInv, IsRepo
  <2> HIDE DEF h
  <2>7. \A f \in Files \ Hidden(repo) : /\ repo.tree[f] \in {h.tree[f], HeadTree(repo)[f]}
                                        /\ repo.index[f] \in {h.index[f], HeadTree(repo)[f]}
    BY <2>3, <2>5, <2>6
  <2>8. X \subseteq Files
    BY <2>3, <2>4
  <2> QED BY <1>1, <2>2, <2>5, <2>6, <2>7, <2>8, TreeKept DEF Typed
<1> QED BY <1>4, <1>5

(* So no request loses more than it was asked to, but for hidden files,    *)
(* ...                                                                     *)
LEMMA TreeGoes ==
  ASSUME IInv, Typed(repo), NEW r \in Requests, OpInv(rq[r]), Request(r)
  PROVE  TreeStep(repo, repo', Selected(r) \cup Hidden(repo))
<1>1. Goes(r)
  BY RequestGoes
<1>2. ASSUME NEW F \in {{}, Selected(r), Hidden(repo)}, TreeStep(repo, repo', F)
      PROVE  TreeStep(repo, repo', Selected(r) \cup Hidden(repo))
  BY <1>2, TreeWider
<1> QED BY <1>1, <1>2, AskTree, CheckoutTree, RemoteTree, CommitTreeStep, FilesTree, StashTree
        DEF Request

(* ... and neither do the colleague and the workspace's user break a tree. *)
LEMMA UserTree == ASSUME IInv, Typed(repo), Publish \/ Edit PROVE Typed(repo')
<1>1. RepoInv(repo) /\ RepoStep(repo, repo, None)
  BY NoChange DEF IInv
<1>2. ASSUME NEW h, h.store = repo.store, h.local = repo.local, h.tracking = repo.tracking,
             h.index = repo.index, h.unmerged = repo.unmerged, h.stash = repo.stash,
             h.remote \in Refs, h.tree \in Trees
      PROVE  Typed(h)
  <2>1. Made(h) = Made(repo)
    BY <1>2 DEF Made, Log
  <2> QED BY <1>2, <2>1 DEF Typed
<1>3. CASE Publish
  <2>1. PICK b \in Branches : repo' = [repo EXCEPT !.remote[b] = Theirs]
    BY <1>3 DEF Publish
  <2> DEFINE h == [repo EXCEPT !.remote[b] = Theirs]
             t == [repo.remote EXCEPT ![b] = Theirs]
  <2>2. t \in Refs
    BY DEF Typed, Refs, Commits
  <2>3. /\ h.store = repo.store /\ h.local = repo.local /\ h.tracking = repo.tracking
        /\ h.index = repo.index /\ h.unmerged = repo.unmerged /\ h.stash = repo.stash
        /\ h.remote = t /\ h.tree = repo.tree
    BY <1>1 DEF RepoInv, IsRepo
  <2> HIDE DEF h, t
  <2>4. Typed(h)
    BY <1>2, <2>2, <2>3 DEF Typed
  <2> QED BY <2>1, <2>4 DEF h
<1>4. CASE Edit
  <2>1. PICK f \in Files, v \in {Base, Local} : repo' = [repo EXCEPT !.tree[f] = v]
    BY <1>4 DEF Edit
  <2> DEFINE h == [repo EXCEPT !.tree[f] = v]
             t == [repo.tree EXCEPT ![f] = v]
  <2>2. t \in Trees
    BY DEF Typed, Trees, Versions, Commits
  <2>3. /\ h.store = repo.store /\ h.local = repo.local /\ h.tracking = repo.tracking
        /\ h.index = repo.index /\ h.unmerged = repo.unmerged /\ h.stash = repo.stash
        /\ h.remote = repo.remote /\ h.tree = t
    BY <1>1 DEF RepoInv, IsRepo
  <2> HIDE DEF h, t
  <2>4. Typed(h)
    BY <1>2, <2>2, <2>3 DEF Typed
  <2> QED BY <2>1, <2>4 DEF h
<1> QED BY <1>3, <1>4

-----------------------------------------------------------------------------
(* How a request goes on: it is the same request, makes progress, and      *)
(* stays among the steps of its operation.                                 *)
Flow(q, p) ==
  /\ q.pc \notin SnapPhases \cup {"new", "done"}
  /\ p.ask = q.ask /\ p.todo \subseteq q.todo \cup q.ask.files
  /\ p.pc # q.pc \/ p.todo # q.todo
  /\ p.ans \in {q.ans, "ok", "error"}
  /\ \/ p.pc \in {"refresh", "done"}
     \/ /\ q.pc \notin {"stash", "apply", "refresh"}
        /\ p.pc \notin SnapPhases \cup {"new", "stash", "apply"}

(* In most steps only its place changes, ...                               *)
LEMMA GotoFlow ==
  ASSUME NEW r, IsReq(rq[r]), rq[r].pc \notin SnapPhases \cup {"new", "done"},
         NEW p, rq'[r] = Goto(r, p), p # rq[r].pc,
         \/ p = "refresh"
         \/ /\ rq[r].pc \notin {"stash", "apply", "refresh"}
            /\ p \notin SnapPhases \cup {"new", "stash", "apply"}
  PROVE  Flow(rq[r], rq'[r])
<1>1. rq'[r].pc = p /\ rq'[r].ask = rq[r].ask /\ rq'[r].todo = rq[r].todo
      /\ rq'[r].ans = rq[r].ans
  BY DEF IsReq, Goto
<1> QED BY <1>1 DEF Flow

(* ... or it is answered.                                                  *)
LEMMA AnswerFlow ==
  ASSUME NEW r, IsReq(rq[r]), rq[r].pc \notin SnapPhases \cup {"new", "done"},
         NEW a \in {"ok", "error"}, rq'[r] = Answer(r, a)
  PROVE  Flow(rq[r], rq'[r])
<1>1. rq'[r].pc = "done" /\ rq'[r].ask = rq[r].ask /\ rq'[r].todo = rq[r].todo
      /\ rq'[r].ans = a
  BY DEF IsReq, Answer
<1> QED BY <1>1 DEF Flow

(* Every request after its start.                                          *)
LEMMA RequestFlow ==
  ASSUME IInv, NEW r \in Requests, Request(r), ~Dispatch(r), ~Refuse(r)
  PROVE  Flow(rq[r], rq'[r])
<1> DEFINE q == rq[r]
<1>1. IsReq(q)
  BY DEF IInv, ReqInv
<1>2. \A g, p : Step(r, g, p) => rq'[r] = p
  BY DEF Step
<1>3. ASSUME NEW p, rq'[r] = Goto(r, p), q.pc \notin SnapPhases \cup {"new", "done"}, p # q.pc,
             \/ p = "refresh"
             \/ /\ q.pc \notin {"stash", "apply", "refresh"}
                /\ p \notin SnapPhases \cup {"new", "stash", "apply"}
      PROVE  Flow(q, rq'[r])
  BY <1>1, <1>3, GotoFlow
<1>4. ASSUME NEW a \in {"ok", "error"}, rq'[r] = Answer(r, a), q.pc \notin SnapPhases \cup {"new", "done"}
      PROVE  Flow(q, rq'[r])
  BY <1>1, <1>4, AnswerFlow
<1>5. ASSUME CommandFails(r) PROVE Flow(q, rq'[r])
  BY <1>2, <1>4, <1>5 DEF CommandFails, Error, SnapPhases
<1>6. ASSUME Look(r) PROVE Flow(q, rq'[r])
  BY <1>2, <1>3, <1>6 DEF Look, AfterCheckout, At, SnapPhases
<1>7. ASSUME CheckoutLocal(r) PROVE Flow(q, rq'[r])
  <2>1. rq'[r] = Goto(r, AfterCheckout(r)) \/ rq'[r] = Answer(r, "error")
    BY <1>2, <1>7 DEF CheckoutLocal, Error
  <2> QED BY <1>3, <1>4, <1>7, <2>1 DEF CheckoutLocal, AfterCheckout, At, SnapPhases
<1>8. ASSUME CheckoutNew(r) PROVE Flow(q, rq'[r])
  <2>1. rq'[r] = Goto(r, AfterCheckout(r)) \/ rq'[r] = Answer(r, "error")
    BY <1>2, <1>8 DEF CheckoutNew, Error
  <2> QED BY <1>3, <1>4, <1>8, <2>1 DEF CheckoutNew, AfterCheckout, At, SnapPhases
<1>9. ASSUME FetchBranch(r) PROVE Flow(q, rq'[r])
  <2>1. \/ rq'[r] = [Goto(r, "merge") EXCEPT !.fetched = TRUE, !.tip = repo.remote[q.branch]]
        \/ rq'[r] = Goto(r, "checkout_new")
        \/ rq'[r] = Answer(r, "error")
    BY <1>2, <1>9 DEF FetchBranch, Error
  <2>2. q.pc = "fetch"
    BY <1>9 DEF FetchBranch, At
  <2>3. ASSUME rq'[r] = [Goto(r, "merge") EXCEPT !.fetched = TRUE, !.tip = repo.remote[q.branch]]
        PROVE  Flow(q, rq'[r])
    <3>1. rq'[r].pc = "merge" /\ rq'[r].ask = q.ask /\ rq'[r].todo = q.todo /\ rq'[r].ans = q.ans
      BY <1>1, <2>3 DEF IsReq, Goto
    <3> QED BY <2>2, <3>1 DEF Flow, SnapPhases
  <2> QED BY <1>3, <1>4, <2>1, <2>2, <2>3 DEF SnapPhases
<1>10. ASSUME Refresh(r) PROVE Flow(q, rq'[r])
  BY <1>2, <1>4, <1>10 DEF Refresh, At, SnapPhases
<1>11. ASSUME CreateLook(r) \/ CreateUnclaimed(r) \/ CreateNew(r) PROVE Flow(q, rq'[r])
  <2>1. \/ rq'[r] = Answer(r, "error")
        \/ q.pc = "create" /\ rq'[r] = Goto(r, "unclaimed")
        \/ q.pc = "unclaimed" /\ rq'[r] = Goto(r, "create_new")
        \/ q.pc = "create_new" /\ rq'[r] = Goto(r, "refresh")
    BY <1>2, <1>11 DEF CreateLook, CreateUnclaimed, CreateNew, At, Error
  <2>2. q.pc \in {"create", "unclaimed", "create_new"}
    BY <1>11 DEF CreateLook, CreateUnclaimed, CreateNew, At
  <2> QED BY <1>3, <1>4, <2>1, <2>2 DEF SnapPhases
<1>12. ASSUME Add(r) \/ Staged(r) PROVE Flow(q, rq'[r])
  <2>1. \/ rq'[r] = Answer(r, "error")
        \/ q.pc = "add" /\ \E p \in {"staged", "refresh"} : rq'[r] = Goto(r, p)
        \/ q.pc = "staged" /\ rq'[r] = Goto(r, "merge_head")
    BY <1>2, <1>12 DEF Add, Staged, At, Error
  <2>2. q.pc \in {"add", "staged"}
    BY <1>12 DEF Add, Staged, At
  <2> QED BY <1>3, <1>4, <2>1, <2>2 DEF SnapPhases
<1>13. ASSUME MergeHead(r) PROVE Flow(q, rq'[r])
  <2>1. PICK m : q.pc = "merge_head" /\ rq'[r] = [Goto(r, "commit") EXCEPT !.inMerge = m]
    BY <1>2, <1>13 DEF MergeHead, At
  <2>2. rq'[r].pc = "commit" /\ rq'[r].ask = q.ask /\ rq'[r].todo = q.todo /\ rq'[r].ans = q.ans
    BY <1>1, <2>1 DEF IsReq, Goto
  <2> QED BY <2>1, <2>2 DEF Flow, SnapPhases
<1>14. ASSUME CommitSelected(r) \/ CommitIndex(r) PROVE Flow(q, rq'[r])
  <2>1. \/ rq'[r] = Answer(r, "error") \/ rq'[r] = Answer(r, "ok")
    BY <1>2, <1>14 DEF CommitSelected, CommitIndex, Error
  <2>2. q.pc = "commit"
    BY <1>14 DEF CommitSelected, CommitIndex, At
  <2> QED BY <1>4, <2>1, <2>2 DEF SnapPhases
<1>15. ASSUME Sort(r) PROVE Flow(q, rq'[r])
  <2>1. PICK tracked \in SUBSET {f \in q.ask.files : HeadTree(repo)[f] # Absent} :
          /\ q.pc = "sort"
          /\ \/ rq'[r] = Answer(r, "error")
             \/ rq'[r] = [Goto(r, "restore") EXCEPT !.todo = tracked]
    BY <1>2, <1>15 DEF Sort, At, Error
  <2>2. tracked \subseteq q.ask.files
    OBVIOUS
  <2>3. ASSUME rq'[r] = [Goto(r, "restore") EXCEPT !.todo = tracked] PROVE Flow(q, rq'[r])
    <3>1. rq'[r].pc = "restore" /\ rq'[r].ask = q.ask /\ rq'[r].todo = tracked /\ rq'[r].ans = q.ans
      BY <1>1, <2>3 DEF IsReq, Goto
    <3> QED BY <2>1, <2>2, <3>1 DEF Flow, SnapPhases
  <2> QED BY <1>4, <2>1, <2>3 DEF SnapPhases
<1>16. ASSUME Restore(r) \/ DeleteEnd(r) \/ Write(r) PROVE Flow(q, rq'[r])
  <2>1. \/ rq'[r] = Answer(r, "error") \/ rq'[r] = Answer(r, "ok")
        \/ rq'[r] = Goto(r, "refresh")
    BY <1>2, <1>16 DEF Restore, DeleteEnd, Write, Error
  <2>2. q.pc \in {"restore", "delete", "write"}
    BY <1>16 DEF Restore, DeleteEnd, Write, At
  <2> QED BY <1>3, <1>4, <2>1, <2>2 DEF SnapPhases
<1>17. ASSUME DeleteOne(r) PROVE Flow(q, rq'[r])
  <2>1. PICK f \in q.todo : rq'[r] = [q EXCEPT !.todo = q.todo \ {f},
                                               !.did = q.did \/ repo.tree[f] # Absent]
    BY <1>2, <1>17 DEF DeleteOne
  <2>2. q.pc = "delete"
    BY <1>17 DEF DeleteOne, At
  <2>3. rq'[r].pc = "delete" /\ rq'[r].ask = q.ask /\ rq'[r].todo = q.todo \ {f} /\ rq'[r].ans = q.ans
    BY <1>1, <2>1, <2>2 DEF IsReq
  <2> QED BY <2>2, <2>3 DEF Flow, SnapPhases
<1>18. ASSUME CurrentForPush(r) \/ CurrentForPull(r) PROVE Flow(q, rq'[r])
  <2>1. \/ rq'[r] = Answer(r, "error")
        \/ \E p \in {"push", "pull"} : \/ rq'[r] = Goto(r, p)
                                       \/ rq'[r] = [Goto(r, p) EXCEPT !.branch = repo.head]
        \/ rq'[r] = Goto(r, "look")
    BY <1>2, <1>18 DEF CurrentForPush, CurrentForPull, Error
  <2>2. q.pc = "current"
    BY <1>18 DEF CurrentForPush, CurrentForPull, At
  <2>3. ASSUME NEW p \in {"push", "pull"}, rq'[r] = [Goto(r, p) EXCEPT !.branch = repo.head]
        PROVE  Flow(q, rq'[r])
    <3>1. rq'[r].pc = p /\ rq'[r].ask = q.ask /\ rq'[r].todo = q.todo /\ rq'[r].ans = q.ans
      BY <1>1, <2>3 DEF IsReq, Goto
    <3> QED BY <2>2, <3>1 DEF Flow, SnapPhases
  <2> QED BY <1>3, <1>4, <2>1, <2>2, <2>3 DEF SnapPhases
<1>19. ASSUME CurrentForMerge(r) \/ CurrentForMergeTo(r) PROVE Flow(q, rq'[r])
  <2>1. \/ rq'[r] = Answer(r, "error")
        \/ \E p \in {"fetch", "merge"} :
             rq'[r] = [Goto(r, p) EXCEPT !.target = repo.head, !.source = q.branch,
                                         !.tip = repo.local[q.branch]]
        \/ rq'[r] = [Goto(r, "look") EXCEPT !.target = q.branch, !.source = repo.head,
                                            !.tip = repo.local[repo.head]]
    BY <1>2, <1>19 DEF CurrentForMerge, CurrentForMergeTo, Error
  <2>2. q.pc = "current"
    BY <1>19 DEF CurrentForMerge, CurrentForMergeTo, At
  <2>3. ASSUME NEW p \in {"fetch", "merge"},
               rq'[r] = [Goto(r, p) EXCEPT !.target = repo.head, !.source = q.branch,
                                           !.tip = repo.local[q.branch]]
        PROVE  Flow(q, rq'[r])
    <3>1. rq'[r].pc = p /\ rq'[r].ask = q.ask /\ rq'[r].todo = q.todo /\ rq'[r].ans = q.ans
      BY <1>1, <2>3 DEF IsReq, Goto
    <3> QED BY <2>2, <3>1 DEF Flow, SnapPhases
  <2>4. ASSUME rq'[r] = [Goto(r, "look") EXCEPT !.target = q.branch, !.source = repo.head,
                                                !.tip = repo.local[repo.head]]
        PROVE  Flow(q, rq'[r])
    <3>1. rq'[r].pc = "look" /\ rq'[r].ask = q.ask /\ rq'[r].todo = q.todo /\ rq'[r].ans = q.ans
      BY <1>1, <2>4 DEF IsReq, Goto
    <3> QED BY <2>2, <3>1 DEF Flow, SnapPhases
  <2>5. rq'[r] = Answer(r, "error") => Flow(q, rq'[r])
    BY <1>4, <2>2 DEF SnapPhases
  <2> QED BY <2>1, <2>3, <2>4, <2>5
<1>20. ASSUME Push(r) \/ Pull(r) PROVE Flow(q, rq'[r])
  <2>1. \/ rq'[r] = Answer(r, "error") \/ rq'[r] = Answer(r, "ok")
        \/ rq'[r] = Goto(r, "refresh")
    BY <1>2, <1>20 DEF Push, Pull, Error
  <2>2. q.pc \in {"push", "pull"}
    BY <1>20 DEF Push, Pull, At
  <2> QED BY <1>3, <1>4, <2>1, <2>2 DEF SnapPhases
<1>21. ASSUME Merge(r) PROVE Flow(q, rq'[r])
  <2>1. rq'[r] \in {Answer(r, "error"), Answer(r, "ok"), Goto(r, "refresh")}
    BY <1>2, <1>21 DEF Merge, AfterMerge, Error
  <2>2. q.pc = "merge"
    BY <1>21 DEF Merge, At
  <2> QED BY <1>3, <1>4, <2>1, <2>2 DEF SnapPhases
<1>22. ASSUME Stash(r) \/ Apply(r) PROVE Flow(q, rq'[r])
  <2>1. rq'[r] \in {Answer(r, "error"), Goto(r, "refresh")}
    BY <1>2, <1>22 DEF Stash, Apply, Error
  <2>2. q.pc \in {"stash", "apply"}
    BY <1>22 DEF Stash, Apply, At
  <2> QED BY <1>3, <1>4, <2>1, <2>2 DEF SnapPhases
<1> QED BY <1>5, <1>6, <1>7, <1>8, <1>9, <1>10, <1>11, <1>12, <1>13, <1>14, <1>15, <1>16,
           <1>17, <1>18, <1>19, <1>20, <1>21, <1>22 DEF Request

(* The steps of an operation are its own.                                  *)
LEMMA FlowKeeps == ASSUME NEW q, NEW p, OpInv(q), Flow(q, p) PROVE OpInv(p)
  BY DEF OpInv, Flow, SnapPhases

FInv == Typed(repo) /\ edits \in Nat /\ \A r \in Requests : OpInv(rq[r])

Others(r) ==
  /\ edits' = edits
  /\ \A x \in Requests \ {r} : rq'[x] \in {rq[x], [rq[x] EXCEPT !.crossed = TRUE]}

(* A step of one request leaves the others where they are.                 *)
LEMMA StepOthers == ASSUME NEW r, NEW g, NEW q, Step(r, g, q) PROVE Others(r)
  BY DEF Step, Others

(* In all of its steps.                                                    *)
LEMMA RequestOthers == ASSUME NEW r \in Requests, Request(r) PROVE Others(r)
<1>1. ASSUME Dispatch(r) \/ Refuse(r) \/ CommandFails(r) \/ Look(r) PROVE Others(r)
  BY <1>1, StepOthers DEF Dispatch, Refuse, CommandFails, Look, Error
<1>2. ASSUME \/ CheckoutLocal(r) \/ FetchBranch(r) \/ CheckoutNew(r) \/ Refresh(r)
             \/ CreateLook(r) \/ CreateUnclaimed(r) \/ CreateNew(r)
      PROVE  Others(r)
  BY <1>2, StepOthers DEF CheckoutLocal, FetchBranch, CheckoutNew, Refresh, CreateLook,
                          CreateUnclaimed, CreateNew, Error
<1>3. ASSUME \/ Add(r) \/ Staged(r) \/ MergeHead(r) \/ CommitSelected(r) \/ CommitIndex(r)
             \/ Sort(r) \/ Restore(r) \/ DeleteOne(r) \/ DeleteEnd(r) \/ Write(r)
      PROVE  Others(r)
  BY <1>3, StepOthers DEF Add, Staged, MergeHead, CommitSelected, CommitIndex, Sort, Restore,
                          DeleteOne, DeleteEnd, Write, Error
<1>4. ASSUME \/ CurrentForPush(r) \/ CurrentForPull(r) \/ CurrentForMerge(r)
             \/ CurrentForMergeTo(r)
      PROVE  Others(r)
  BY <1>4, StepOthers DEF CurrentForPush, CurrentForPull, CurrentForMerge, CurrentForMergeTo,
                          Error
<1>5. ASSUME Push(r) \/ Pull(r) \/ Merge(r) \/ Stash(r) \/ Apply(r) PROVE Others(r)
  BY <1>5, StepOthers DEF Push, Pull, Merge, Stash, Apply, Error
<1> QED BY <1>1, <1>2, <1>3, <1>4, <1>5 DEF Request

(* So they keep to the steps of their operations.                          *)
LEMMA OthersOps ==
  ASSUME IInv, FInv, NEW r \in Requests, Others(r), OpInv(rq'[r])
  PROVE  \A x \in Requests : OpInv(rq'[x])
<1> SUFFICES ASSUME NEW x \in Requests, x # r PROVE OpInv(rq'[x])
  OBVIOUS
<1> DEFINE c == [rq[x] EXCEPT !.crossed = TRUE]
<1>1. IsReq(rq[x]) /\ OpInv(rq[x])
  BY DEF IInv, ReqInv, FInv
<1>2. c.pc = rq[x].pc /\ c.ask = rq[x].ask /\ c.todo = rq[x].todo
      /\ c.ans = rq[x].ans
  BY <1>1 DEF IsReq
<1>3. rq'[x] = c \/ rq'[x] = rq[x]
  BY DEF Others
<1> HIDE DEF c
<1>4. OpInv(c)
  BY <1>1, <1>2 DEF OpInv
<1> QED BY <1>1, <1>3, <1>4

(* So every step keeps it.                                                 *)
LEMMA NextFiles == ASSUME IInv, FInv, [Next]_vars PROVE FInv'
<1>1. ASSUME NEW r \in Requests, Dispatch(r) PROVE \A x \in Requests : OpInv(rq'[x])
  <2>1. PICK a \in Asks :
          Step(r, repo, [Idle EXCEPT !.pc = FirstStep[a.op], !.ask = a,
                                     !.branch = a.branch, !.todo = a.files])
    BY <1>1 DEF Dispatch
  <2> DEFINE p == [Idle EXCEPT !.pc = FirstStep[a.op], !.ask = a,
                               !.branch = a.branch, !.todo = a.files]
  <2>2. p.pc = FirstStep[a.op] /\ p.ask = a /\ p.todo = a.files /\ p.ans = "none"
    BY DEF Idle
  <2> HIDE DEF p
  <2>3. a.op \in DOMAIN FirstStep
    BY AskAssumption
  <2>4. OpInv(p)
    BY <2>2, <2>3 DEF OpInv, FirstStep
  <2>5. rq'[r] = p
    BY <2>1 DEF Step, p
  <2> QED BY <1>1, <2>4, <2>5, OthersOps, RequestOthers DEF Request
<1>2. ASSUME NEW r \in Requests, Refuse(r) PROVE \A x \in Requests : OpInv(rq'[x])
  <2>1. PICK a \in Asks :
          Step(r, repo, [Idle EXCEPT !.ask = a, !.pc = "done", !.ans = "error"])
    BY <1>2 DEF Refuse
  <2> DEFINE p == [Idle EXCEPT !.ask = a, !.pc = "done", !.ans = "error"]
  <2>2. p.pc = "done" /\ p.ask = a /\ p.todo = {} /\ p.ans = "error"
    BY DEF Idle
  <2> HIDE DEF p
  <2>3. OpInv(p)
    BY <2>2 DEF OpInv
  <2>4. rq'[r] = p
    BY <2>1 DEF Step, p
  <2> QED BY <1>2, <2>3, <2>4, OthersOps, RequestOthers DEF Request
<1>3. ASSUME NEW r \in Requests, Request(r), ~Dispatch(r), ~Refuse(r)
      PROVE  \A x \in Requests : OpInv(rq'[x])
  <2>1. Flow(rq[r], rq'[r])
    BY <1>3, RequestFlow
  <2>2. OpInv(rq'[r])
    BY <2>1, FlowKeeps DEF FInv
  <2> QED BY <1>3, <2>2, OthersOps, RequestOthers
<1>4. ASSUME NEW r \in Requests, Snapshot(r) \/ Source(r)
      PROVE  Typed(repo') /\ edits' \in Nat /\ \A x \in Requests : OpInv(rq'[x])
  <2>1. SnapMoves(r) /\ IsReq(rq[r]) /\ OpInv(rq[r])
    BY <1>4, SnapStep DEF IInv, ReqInv, FInv
  <2>2. \A p : Goto(r, p).pc = p /\ Goto(r, p).ask = rq[r].ask /\ Goto(r, p).todo = rq[r].todo
             /\ Goto(r, p).ans = rq[r].ans
    BY <2>1 DEF IsReq, Goto
  <2>3. \A a : Answer(r, a).pc = "done" /\ Answer(r, a).ask = rq[r].ask
               /\ Answer(r, a).todo = rq[r].todo /\ Answer(r, a).ans = a
    BY <2>1 DEF IsReq, Answer
  <2>4. ASSUME NEW p \in SnapPhases, p \in Reading <=> rq[r].pc \in Reading
        PROVE  OpInv(Goto(r, p))
    BY <2>1, <2>2, <2>4 DEF OpInv, SnapMoves, SnapPhases, Reading
  <2>5. ASSUME NEW a \in {"ok", "error"} PROVE OpInv(Answer(r, a))
    BY <2>1, <2>3 DEF OpInv, SnapMoves, SnapPhases
  <2>6. PICK q : Step(r, repo, q) /\ OpInv(q)
    BY <2>1, <2>4, <2>5 DEF SnapMoves
  <2>7. repo' = repo /\ rq'[r] = q
    BY <2>6 DEF Step
  <2> QED BY <2>6, <2>7, StepOthers, OthersOps DEF FInv, Others
<1>5. CASE \E r \in Requests : Request(r)
  <2>1. PICK r \in Requests : Request(r)
    BY <1>5
  <2>2. TreeStep(repo, repo', Selected(r) \cup Hidden(repo))
    BY <2>1, TreeGoes DEF FInv
  <2>3. edits' = edits
    BY <2>1, RequestOthers DEF Others
  <2> QED BY <1>1, <1>2, <1>3, <2>1, <2>2, <2>3 DEF FInv, TreeStep
<1>6. CASE \E r \in Requests : Snapshot(r) \/ Source(r)
  BY <1>4, <1>6 DEF FInv
<1>7. CASE Publish \/ Edit
  <2>1. rq' = rq /\ edits' = edits + 1
    BY <1>7 DEF Publish, Edit
  <2> QED BY <1>7, <2>1, UserTree DEF FInv
<1>8. CASE UNCHANGED vars
  BY <1>8 DEF vars, gitVars, FInv, Typed
<1> QED BY <1>5, <1>6, <1>7, <1>8 DEF Next, GitNext

(* The files of a workspace as it is found are typed.                      *)
LEMMA InitFInv == SnapInit => FInv
<1> SUFFICES ASSUME SnapInit PROVE FInv
  OBVIOUS
<1>1. /\ FirstTree \in Trees /\ Changed(OurFiles, Ours) \in Trees
      /\ Changed(TheirFiles, Theirs) \in Trees
  BY DEF FirstTree, Changed, Trees, Versions, Commits
<1>2. \A c \in Commits : FirstStore[c].tree \in Trees
  BY <1>1, GitAssumption DEF FirstStore, Commits
<1>3. /\ FirstStore[Base].tree = FirstTree /\ FirstStore[Ours].log = {Base, Ours}
      /\ FirstStore[Base].log = {Base} /\ FirstStore[Theirs].log = {Base, Theirs}
      /\ \A r \in Requests : FirstStore[r].tree = FirstTree
  BY GitAssumption DEF FirstStore, Commits
<1>4. \A c \in Commits \ Made(repo) : repo.store[c].tree = repo.store[Base].tree
  <2>1. {Base, Ours, Theirs} \subseteq Made(repo)
    BY <1>3, Found DEF Made, Log, Commits
  <2> QED BY <1>3, <2>1, Found DEF Commits
<1>5. HeadCommit(repo) \in Commits
  BY InitIInv DEF IInv, RepoInv, Made
<1>6. repo.local \in Refs /\ repo.remote \in Refs
  BY Found DEF Refs, Commits
<1>7. repo.tracking \in Refs
  BY Found DEF Refs, Commits
<1>8. repo.tree \in Trees
  BY Found DEF Trees, Versions, Commits
<1>9. Typed(repo)
  BY <1>2, <1>4, <1>5, <1>6, <1>7, <1>8, Found DEF Typed
<1>10. ASSUME NEW r \in Requests PROVE OpInv(rq[r])
  <2>1. rq[r] = Idle
    BY DEF SnapInit, Init
  <2>2. rq[r].pc = "new" /\ rq[r].ans = "none"
    BY <2>1 DEF Idle
  <2> QED BY <2>2 DEF OpInv
<1> QED BY <1>9, <1>10 DEF FInv, SnapInit, Init

(* Files, commits and stashes stay typed, and requests to their steps.     *)
THEOREM FilesInvariance == Spec => []FInv
<1>1. IInv /\ FInv /\ [Next]_vars => FInv'
  BY NextFiles
<1> QED BY <1>1, Invariance, InitFInv, PTL DEF Spec

(* The repository is typed, each branch names a commit that was made, and  *)
(* HEAD is a branch or a commit, however the commands interleave.          *)
THEOREM TypeCorrect == Spec => []TypeOK
<1>1. IInv /\ FInv => TypeOK
  <2> SUFFICES ASSUME IInv, FInv PROVE TypeOK
    OBVIOUS
  <2>1. RepoInv(repo) /\ Typed(repo) /\ \A r \in Requests : rq[r].ans \in {"none", "ok", "error"}
    BY DEF IInv, FInv, OpInv
  <2>2. HeadCommit(repo) # None /\ repo.head \in Commits \cup Branches
    BY <2>1, GitAssumption DEF RepoInv, Made, HeadCommit, Commits
  <2>3. \A b \in Branches : repo.local[b] # None => repo.local[b] \in Log(repo, repo.local[b])
    BY <2>1 DEF RepoInv, Made
  <2>4. repo.merging \in Commits \cup {None}
    BY <2>1 DEF RepoInv, Made
  <2> QED BY <2>1, <2>2, <2>3, <2>4 DEF TypeOK, Typed
<1> QED BY <1>1, Invariance, FilesInvariance, PTL

(* The last copy of a version of a file disappears only by a request that  *)
(* selected that very file, or by an edit: never by a checkout, a pull, a  *)
(* merge, a stash or the request of another file (resources.go).  The      *)
(* files that git does not track and .gitignore names are the exception.   *)
THEOREM NothingElseLost == Spec => OnlySelectedLost
<1> DEFINE Kind ==
             \A f \in Files :
               Kept(repo, f) \ {Absent, Marked} \subseteq Kept(repo', f)
               \/ f \in Hidden(repo)
               \/ edits' # edits
               \/ \E r \in Requests :
                    /\ rq'[r] \notin {rq[r], [rq[r] EXCEPT !.crossed = TRUE]}
                    /\ f \in rq[r].ask.files
                    /\ Op(r) \notin {"git_stash", "git_stash_apply"}
<1>1. ASSUME IInv, FInv, [Next]_vars PROVE Kind
  <2> DEFINE Lost(f) ==
               Kept(repo, f) \ {Absent, Marked} \subseteq Kept(repo', f)
               \/ f \in Hidden(repo)
               \/ edits' # edits
               \/ \E r \in Requests :
                    /\ rq'[r] \notin {rq[r], [rq[r] EXCEPT !.crossed = TRUE]}
                    /\ f \in rq[r].ask.files
                    /\ Op(r) \notin {"git_stash", "git_stash_apply"}
  <2> SUFFICES ASSUME NEW f \in Files PROVE Lost(f)
    OBVIOUS
  <2>1. CASE repo' = repo
    BY <2>1
  <2>2. CASE Publish \/ Edit
    <3>1. edits \in Nat /\ edits' = edits + 1
      BY <1>1, <2>2 DEF FInv, Publish, Edit
    <3>2. edits' # edits
      BY <3>1
    <3> QED BY <3>2
  <2>3. ASSUME NEW r \in Requests, Request(r) PROVE Lost(f)
    <3>1. RepoInv(repo) /\ Typed(repo) /\ RepoStep(repo, repo', r)
          /\ TreeStep(repo, repo', Selected(r) \cup Hidden(repo))
      BY <1>1, <2>3, RequestGoes, TreeGoes DEF IInv, FInv, Goes
    <3>2. CASE f \in Hidden(repo)
      BY <3>2
    <3>3. CASE f \notin Selected(r) \cup Hidden(repo)
      <4>1. Kept(repo, f) \subseteq Kept(repo', f)
        BY <3>1, <3>3, KeptOn
      <4> QED BY <4>1
    <3>4. CASE Dispatch(r) \/ Refuse(r)
      BY <2>1, <3>4 DEF Dispatch, Refuse, Step
    <3>5. CASE f \in Selected(r) /\ ~Dispatch(r) /\ ~Refuse(r)
      <4>1. IsReq(rq[r]) /\ Flow(rq[r], rq'[r])
        BY <1>1, <2>3, <3>5, RequestFlow DEF IInv, ReqInv
      <4> DEFINE c == [rq[r] EXCEPT !.crossed = TRUE]
      <4>2. c.pc = rq[r].pc /\ c.todo = rq[r].todo
        BY <4>1 DEF IsReq
      <4> HIDE DEF c
      <4>3. rq'[r] \notin {rq[r], c}
        BY <4>1, <4>2 DEF Flow
      <4>4. f \in rq[r].ask.files /\ Op(r) \notin {"git_stash", "git_stash_apply"}
        BY <3>5 DEF Selected
      <4> QED BY <4>3, <4>4 DEF c
    <3> QED BY <3>3, <3>4, <3>5, <3>2
  <2>4. CASE \E r \in Requests : Snapshot(r) \/ Source(r)
    BY <2>1, <2>4, SnapStep DEF SnapMoves, Step
  <2>5. CASE UNCHANGED vars
    BY <2>1, <2>5 DEF vars, gitVars
  <2> HIDE DEF Lost
  <2> QED BY <1>1, <2>2, <2>3, <2>4, <2>5 DEF Next, GitNext
<1> HIDE DEF Kind
<1>2. IInv /\ FInv /\ [Next]_vars => [Kind]_gitVars
  BY <1>1
<1>3. Spec => [][Kind]_gitVars
  BY <1>2, Invariance, FilesInvariance, PTL DEF Spec
<1> QED BY <1>3 DEF OnlySelectedLost, Kind

-----------------------------------------------------------------------------
(* The comparison that was locked                                          *)

(* Two names that are locked stand for two of these commits.               *)
LockedInv ==
  /\ locked.base \in Made(repo) /\ locked.head \in Made(repo)
  /\ Ours \in Made(repo) /\ Log(repo, Ours) = {Base, Ours}
  /\ IF WorkingTree
     THEN /\ locked.head = locked.base
          /\ DOMAIN locked.patch \subseteq
               {f \in Files : repo.store[locked.base].tree[f] # Absent}
     ELSE DOMAIN locked.patch = {}
  /\ locked.mode = "merge_base" => locked.base \in {Base, Ours} /\ locked.head \in {Base, Ours}

(* Their merge base is the older one.                                      *)
LEMMA OlderOne ==
  ASSUME NEW g, Log(g, Base) = {Base}, Log(g, Ours) = {Base, Ours},
         NEW c \in {Base, Ours}, NEW d \in {Base, Ours}
  PROVE  MergeBase(g, c, d) = IF c = Ours /\ d = Ours THEN Ours ELSE Base
<1> DEFINE I == Log(g, c) \cap Log(g, d)
           v == IF c = Ours /\ d = Ours THEN Ours ELSE Base
           Youngest(a) == \A x \in I : Cardinality(Log(g, x)) <= Cardinality(Log(g, a))
<1>1. Base # Ours
  BY GitAssumption
<1>2. Cardinality({Base}) = 1 /\ IsFiniteSet({Base})
  BY FS_Singleton
<1>3. Cardinality({Base} \cup {Ours}) = 2
  <2>1. Cardinality({Base} \cup {Ours}) = Cardinality({Base}) + 1
    BY <1>1, <1>2, FS_AddElement
  <2> QED BY <1>2, <2>1
<1>4. Cardinality(Log(g, Base)) = 1 /\ Cardinality(Log(g, Ours)) = 2
  <2>1. {Base, Ours} = {Base} \cup {Ours}
    OBVIOUS
  <2> QED BY <1>2, <1>3, <2>1
<1>5. I = IF c = Ours /\ d = Ours THEN {Base, Ours} ELSE {Base}
  BY <1>1
<1> HIDE DEF I
<1>6. v \in I /\ Youngest(v)
  BY <1>4, <1>5
<1>7. ASSUME NEW a \in I, Youngest(a) PROVE a = v
  <2>1. Cardinality(Log(g, v)) <= Cardinality(Log(g, a)) /\ a \in {Base, Ours}
    BY <1>5, <1>6, <1>7
  <2> QED BY <1>4, <1>5, <2>1
<1>8. MergeBase(g, c, d) = CHOOSE a \in I : Youngest(a)
  BY Zenon DEF MergeBase, I
<1> HIDE DEF Youngest, v
<1>9. (CHOOSE a \in I : Youngest(a)) \in I /\ Youngest(CHOOSE a \in I : Youngest(a))
  BY <1>6, Zenon
<1>10. (CHOOSE a \in I : Youngest(a)) = v
  BY <1>7, <1>9, Zenon
<1> QED BY <1>8, <1>10 DEF v

(* What a snapshot must hold, and the content of the two commits it may    *)
(* be compared with.                                                       *)
Comparison ==
  [want |-> Wanted, old |-> repo.store[locked.base].tree, base |-> repo.store[Compare].tree,
   work |-> WorkingTree]

(* All of that stays.                                                      *)
LEMMA LockedKept ==
  ASSUME IInv, LockedInv, locked' = locked, NEW r, RepoStep(repo, repo', r)
  PROVE  LockedInv' /\ Comparison' = Comparison
<1>1. \A c \in Made(repo) : repo'.store[c] = repo.store[c] /\ Log(repo', c) = Log(repo, c)
  BY DEF RepoStep, Made, Log
<1>2. Made(repo) \subseteq Made(repo')
  BY <1>1 DEF Made
<1>3. Base \in Made(repo) /\ Log(repo, Base) = {Base}
  BY DEF IInv, RepoInv, Made, Commits
<1>4. WorkingTree' = WorkingTree
  BY DEF WorkingTree
<1>5. LockedInv'
  BY <1>1, <1>2, <1>4 DEF LockedInv
<1>6. Compare' = Compare /\ Compare \in Made(repo)
  <2>1. CASE locked.mode # "merge_base"
    BY <2>1 DEF Compare, LockedInv
  <2>2. CASE locked.mode = "merge_base"
    <3> DEFINE v == IF locked.base = Ours /\ locked.head = Ours THEN Ours ELSE Base
    <3>1. locked.base \in {Base, Ours} /\ locked.head \in {Base, Ours}
          /\ Log(repo, Ours) = {Base, Ours} /\ Log(repo', Ours) = {Base, Ours}
          /\ Log(repo', Base) = {Base}
      BY <1>1, <1>3, <2>2 DEF LockedInv
    <3>2. MergeBase(repo, locked.base, locked.head) = v
      BY <1>3, <3>1, OlderOne
    <3>3. MergeBase(repo', locked.base, locked.head) = v
      BY <3>1, OlderOne
    <3>4. Compare = v /\ Compare' = v
      BY <2>2, <3>2, <3>3 DEF Compare
    <3> QED BY <1>3, <3>4 DEF LockedInv
  <2> QED BY <2>1, <2>2
<1>7. Wanted' = Wanted
  BY <1>1, <1>4 DEF Wanted, LockedInv
<1> QED BY <1>1, <1>4, <1>5, <1>6, <1>7 DEF LockedInv, Comparison

(* What ResolveAnalysisSelection answers is of this kind.                  *)
LEMMA InitLocked == ASSUME SnapInit PROVE LockedInv
<1>1. IInv
  BY InitIInv
<1>2. /\ HeadCommit(repo) \in Made(repo) /\ Base \in Made(repo) /\ Ours \in Made(repo)
      /\ Log(repo, Ours) = {Base, Ours}
  BY <1>1, Found, GitAssumption DEF IInv, RepoInv, Made, Log, FirstStore, Commits
<1>3. CASE locked \in WorkingTreeSelection
  <2> DEFINE paths == {f \in Files : /\ repo.index[f] # Absent
                                     /\ repo.tree[f] # HeadTree(repo)[f]}
             p == Patch(repo, paths)
  <2>1. locked = [mode |-> "working_tree", base |-> HeadCommit(repo), head |-> HeadCommit(repo),
                  patch |-> p]
    BY <1>3 DEF WorkingTreeSelection
  <2>2. DOMAIN p \subseteq {f \in Files : repo.store[HeadCommit(repo)].tree[f] # Absent}
    BY Found DEF Patch
  <2> HIDE DEF p
  <2> QED BY <1>2, <2>1, <2>2 DEF LockedInv, WorkingTree
<1>4. CASE locked \in BranchSelection
  <2>1. /\ locked.mode \in {"merge_base", "direct"} /\ locked.base \in {Base, Ours}
        /\ locked.head \in {Base, Ours} /\ locked.patch = <<>>
    BY <1>4 DEF BranchSelection
  <2>2. DOMAIN locked.patch = {}
    BY <2>1
  <2> QED BY <1>2, <2>1, <2>2 DEF LockedInv, WorkingTree
<1> QED BY <1>3, <1>4 DEF SnapInit

-----------------------------------------------------------------------------
(* A snapshot while it is made                                             *)

IsDir(d) ==
  d \in [git : {d.git}, alt : {d.alt}, head : {d.head}, tree : {d.tree},
         trees : {d.trees}, commits : {d.commits}, packed : {d.packed}]

IsMk(m) ==
  m \in [sha : {m.sha}, tree : {m.tree}, wiped : {m.wiped}, left : {m.left},
         from : {m.from}, content : {m.content}]

CommitPhases == {"reset", "pack", "detach", "verify", "revalidate", "materialized"}
PackPhases   == CommitPhases \ {"reset", "pack"}
MakePhases   == SnapPhases \ {"validate", "wipe", "source", "read"}
WorkPhases   == {"patch", "apply_patch", "stage"}

Created(q) == q.pc = "done" /\ q.ans = "ok"

(* What a creation has made: a commit on top of the one compared with.     *)
Making(q, m, k) ==
  /\ IsMk(m)
  /\ q.pc \in SnapPhases => q.ans = "none"
  /\ m.wiped => q.pc \in MakePhases \cup {"done"}
  /\ q.pc \in MakePhases \/ m.sha # None => m.wiped
  /\ q.pc \in WorkPhases => k.work
  /\ m.sha # None \/ q.pc \in CommitPhases \/ (m.wiped /\ Created(q))
       => m.sha.base = k.base

(* And where it stands, as long as the directory was left to it.           *)
Stage(q, m, d, k) ==
  /\ q.pc = "stage" => d.tree = k.want
  /\ q.pc = "commit_tree" => m.tree = k.want
  /\ m.sha # None \/ q.pc \in CommitPhases \/ Created(q) => m.sha.tree = k.want
  /\ q.pc \in PackPhases \/ Created(q) => m.sha \in d.packed
  /\ q.pc \in PackPhases \ {"detach"} \/ Created(q) => d.alt = FALSE
  /\ Created(q) => d # None /\ d.head = m.sha /\ d.tree = k.want
  /\ q.pc = "done" /\ ~Created(q) => d = None \/ m.left

MakeInv(r) ==
  /\ Making(rq[r], mk[r], Comparison)
  /\ mk[r].wiped /\ ~touched[r] => Stage(rq[r], mk[r], dir, Comparison)

(* A file that was read, but in the workspace.                             *)
AsLocked(f, m, k) ==
  m.from = "workspace" \/ m.content \in {k.want[f], k.old[f], k.base[f]}

Reads(f, q, m, k) ==
  q.ans = "ok" /\ q.ask.op = "git_analysis_source" => AsLocked(f, m, k)

(* From a creation that another one touched, anything may be read.         *)
FromTouched(m) == m.from \in Requests /\ touched[m.from]

SourceInv(r) == FromTouched(mk[r]) \/ Reads(FileOf(r), rq[r], mk[r], Comparison)

SInv == /\ LockedInv
        /\ dir = None \/ IsDir(dir)
        /\ DOMAIN mk = Requests /\ touched \in [Requests -> BOOLEAN]
        /\ \A r \in Requests : MakeInv(r) /\ SourceInv(r)

(* A request at the same place, and about the same files, says the same.   *)
LEMMA SamePlace ==
  ASSUME NEW q, NEW p, p.pc = q.pc, p.ans = q.ans, p.ask = q.ask,
         NEW m, NEW d, NEW f, NEW k
  PROVE  /\ Making(q, m, k) => Making(p, m, k)
         /\ Stage(q, m, d, k) => Stage(p, m, d, k)
         /\ Reads(f, q, m, k) => Reads(f, p, m, k)
  BY DEF Making, Stage, Reads, Created

(* A request another one steps aside of keeps what it may say.             *)
LEMMA AsideKept ==
  ASSUME IInv, SInv, locked' = locked, NEW s, RepoStep(repo, repo', s),
         NEW x \in Requests, rq'[x] \in {rq[x], [rq[x] EXCEPT !.crossed = TRUE]},
         mk'[x] = mk[x], \A y \in Requests : touched[y] => touched'[y],
         mk[x].wiped /\ ~touched'[x] => dir' = dir
  PROVE  MakeInv(x)' /\ SourceInv(x)'
<1> DEFINE q == rq[x]
           p == rq'[x]
           m == mk[x]
           f == FileOf(x)
<1>1. p.pc = q.pc /\ p.ans = q.ans /\ p.ask = q.ask
  BY DEF IInv, ReqInv, IsReq
<1>2. LockedInv /\ MakeInv(x) /\ SourceInv(x)
  BY DEF SInv
<1>3. FileOf(x)' = f /\ Comparison' = Comparison
  BY <1>1, <1>2, LockedKept DEF FileOf
<1> HIDE DEF p, q, m, f
<1>4. \A k : /\ Making(q, m, k) => Making(p, m, k)
             /\ Stage(q, m, dir, k) => Stage(p, m, dir, k)
             /\ Reads(f, q, m, k) => Reads(f, p, m, k)
  BY <1>1, SamePlace
<1>5. MakeInv(x)'
  BY <1>2, <1>3, <1>4 DEF MakeInv, p, q, m
<1>6. SourceInv(x)'
  BY <1>2, <1>3, <1>4 DEF SourceInv, FromTouched, p, q, m, f
<1> QED BY <1>5, <1>6

(* The requests of GitResources leave snapshots alone, ...                 *)
LEMMA GitKeeps ==
  ASSUME IInv, FInv, SInv, GitNext, UNCHANGED snapVars PROVE SInv'
<1>1. /\ locked' = locked /\ dir' = dir /\ mk' = mk /\ touched' = touched
  BY DEF snapVars
<1>2. LockedInv /\ \A x \in Requests : MakeInv(x) /\ SourceInv(x)
  BY DEF SInv
<1>3. ASSUME NEW s, RepoStep(repo, repo', s), NEW A,
             \A x \in Requests \ A : rq'[x] \in {rq[x], [rq[x] EXCEPT !.crossed = TRUE]},
             \A x \in Requests \cap A : MakeInv(x)' /\ SourceInv(x)'
      PROVE  SInv'
  <2>1. LockedInv'
    BY <1>1, <1>2, <1>3, LockedKept
  <2>2. ASSUME NEW x \in Requests \ A PROVE MakeInv(x)' /\ SourceInv(x)'
    BY <1>1, <1>3, <2>2, AsideKept
  <2> QED BY <1>1, <1>3, <2>1, <2>2 DEF SInv
<1>4. CASE Publish \/ Edit
  <2>1. RepoStep(repo, repo', None) /\ rq' = rq
    BY <1>4, UserGoes DEF Publish, Edit
  <2> DEFINE A == {}
  <2>2. /\ \A x \in Requests \ A : rq'[x] \in {rq[x], [rq[x] EXCEPT !.crossed = TRUE]}
        /\ \A x \in Requests \cap A : MakeInv(x)' /\ SourceInv(x)'
    BY <2>1
  <2> HIDE DEF A
  <2> QED BY <1>3, <2>1, <2>2
<1>5. ASSUME NEW r \in Requests, Request(r) PROVE SInv'
  <2> DEFINE q == rq[r]
             p == rq'[r]
             m == mk[r]
             k == Comparison
             A == {r}
  <2>1. /\ RepoStep(repo, repo', r) /\ Others(r) /\ ReqInv(repo, q, r) /\ ReqInv(repo', p, r)
        /\ OpInv(q) /\ Making(q, m, k)
    BY <1>2, <1>5, RequestGoes, RequestOthers DEF Goes, IInv, FInv, MakeInv
  <2>2. Comparison' = k
    BY <1>1, <1>2, <2>1, LockedKept
  <2>3. /\ q.pc \notin SnapPhases \cup {"done"}
        /\ p.pc \notin SnapPhases \/ (Dispatch(r) /\ p.ans = "none")
        /\ p.ans = "ok" => p.ask.op # "git_analysis_source"
    <3>1. CASE Dispatch(r)
      <4>1. \E a \in Asks : p = [Idle EXCEPT !.pc = FirstStep[a.op], !.ask = a,
                                             !.branch = a.branch, !.todo = a.files]
        BY <3>1 DEF Dispatch, Step
      <4>2. p.ans = "none" /\ q.pc = "new"
        BY <3>1, <4>1 DEF Dispatch, At, Idle
      <4> QED BY <3>1, <4>2 DEF SnapPhases
    <3>2. CASE Refuse(r)
      <4>1. \E a \in Asks : p = [Idle EXCEPT !.ask = a, !.pc = "done", !.ans = "error"]
        BY <3>2 DEF Refuse, Step
      <4>2. p.ans = "error" /\ p.pc = "done" /\ q.pc = "new"
        BY <3>2, <4>1 DEF Refuse, At, Idle
      <4> QED BY <4>2 DEF SnapPhases
    <3>3. CASE ~Dispatch(r) /\ ~Refuse(r)
      <4>1. Flow(q, p)
        BY <1>5, <3>3, RequestFlow
      <4> QED BY <2>1, <4>1 DEF Flow, OpInv, SnapPhases
    <3> QED BY <3>1, <3>2, <3>3
  <2>4. p.pc \notin MakePhases \cup {"read"}
    <3>1. CASE Dispatch(r)
      <4>1. PICK a \in Asks : p = [Idle EXCEPT !.pc = FirstStep[a.op], !.ask = a,
                                             !.branch = a.branch, !.todo = a.files]
        BY <3>1 DEF Dispatch, Step
      <4>2. p.pc = FirstStep[a.op] /\ a.op \in DOMAIN FirstStep
        BY <4>1, AskAssumption DEF Idle
      <4> QED BY <4>2 DEF FirstStep, MakePhases, SnapPhases
    <3>2. CASE p.pc \notin SnapPhases
      BY <3>2 DEF MakePhases, SnapPhases
    <3> QED BY <2>3, <3>1, <3>2
  <2> HIDE DEF q, p, m, k
  <2>5. ~m.wiped /\ ~(m.sha # None) /\ IsMk(m)
    BY <2>1, <2>3 DEF Making, MakePhases
  <2>6. Making(p, m, k)
    <3>1. p.pc \notin CommitPhases \cup WorkPhases
      BY <2>4 DEF CommitPhases, MakePhases, SnapPhases, WorkPhases
    <3> QED BY <2>3, <2>4, <2>5, <3>1 DEF Making
  <2>7. Reads(FileOf(r)', p, m, k)
    BY <2>3 DEF Reads
  <2>8. MakeInv(r)' /\ SourceInv(r)'
    BY <1>1, <2>2, <2>5, <2>6, <2>7 DEF MakeInv, SourceInv, q, p, m, k
  <2>9. \A x \in Requests \ A : rq'[x] \in {rq[x], [rq[x] EXCEPT !.crossed = TRUE]}
    BY <2>1 DEF Others
  <2>10. \A x \in Requests \cap A : MakeInv(x)' /\ SourceInv(x)'
    BY <2>8
  <2> HIDE DEF A
  <2> QED BY <1>3, <2>1, <2>9, <2>10
<1> QED BY <1>4, <1>5 DEF GitNext

(* ... and a step of a snapshot is judged by what it leaves.               *)
LEMMA SnapKeeps ==
  ASSUME IInv, SInv, NEW r \in Requests, NEW q, NEW d, NEW m, Snap(r, q, d, m),
         d = None \/ IsDir(d), q.ask = rq[r].ask, Making(q, m, Comparison),
         m.wiped /\ ~touched[r] => Stage(q, m, d, Comparison),
         FromTouched(m) \/ Reads(FileOf(r), q, m, Comparison)
  PROVE  SInv'
<1> DEFINE k == Comparison
           f == FileOf(r)
<1>1. /\ repo' = repo /\ rq'[r] = q /\ dir' = d /\ mk'[r] = m /\ locked' = locked
      /\ DOMAIN mk' = Requests /\ touched' \in [Requests -> BOOLEAN]
      /\ \A x \in Requests \ {r} : mk'[x] = mk[x]
      /\ \A x \in Requests : touched'[x] = (touched[x] \/ (x # r /\ mk[x].wiped /\ d # dir))
  BY DEF Snap, Step, SInv
<1>2. RepoStep(repo, repo', r) /\ LockedInv
  BY <1>1, NoChange DEF IInv, SInv
<1>3. LockedInv' /\ Comparison' = k /\ FileOf(r)' = f
  BY <1>1, <1>2, LockedKept DEF FileOf
<1>4. Others(r)
  BY StepOthers DEF Snap
<1>5. touched \in [Requests -> BOOLEAN]
  BY DEF SInv
<1>6. ASSUME NEW x \in Requests, x # r PROVE MakeInv(x)' /\ SourceInv(x)'
  <2>1. /\ rq'[x] \in {rq[x], [rq[x] EXCEPT !.crossed = TRUE]} /\ mk'[x] = mk[x]
        /\ \A y \in Requests : touched[y] => touched'[y]
        /\ mk[x].wiped /\ ~touched'[x] => dir' = dir
    BY <1>1, <1>4, <1>5, <1>6 DEF Others
  <2> QED BY <1>1, <1>2, <2>1, AsideKept
<1>7. touched'[r] = touched[r] /\ (FromTouched(m) => m.from \in Requests /\ touched'[m.from])
  BY <1>1, <1>5 DEF FromTouched
<1> HIDE DEF k, f
<1>8. MakeInv(r)'
  BY <1>1, <1>3, <1>7 DEF MakeInv, k
<1>9. SourceInv(r)'
  BY <1>1, <1>3, <1>7 DEF SourceInv, FromTouched, k, f
<1> QED BY <1>1, <1>3, <1>6, <1>8, <1>9 DEF SInv

(* While it is made nothing is read or answered.                           *)
LEMMA MakeKeeps ==
  ASSUME IInv, SInv, NEW r \in Requests, NEW p \in MakePhases \cup {"wipe"}, NEW d, NEW m,
         rq[r].pc \in SnapPhases, Snap(r, Goto(r, p), d, m), d = None \/ IsDir(d), IsMk(m),
         m.wiped <=> p # "wipe", m.sha # None => m.wiped,
         p \in WorkPhases => WorkingTree,
         m.sha # None \/ p \in CommitPhases => m.sha.base = Comparison.base,
         m.wiped /\ ~touched[r] =>
           /\ p = "stage" => d.tree = Comparison.want
           /\ p = "commit_tree" => m.tree = Comparison.want
           /\ m.sha # None \/ p \in CommitPhases => m.sha.tree = Comparison.want
           /\ p \in PackPhases => m.sha \in d.packed
           /\ p \in PackPhases \ {"detach"} => d.alt = FALSE
  PROVE  SInv'
<1> DEFINE q == Goto(r, p)
           k == Comparison
           f == FileOf(r)
<1>1. q.pc = p /\ q.ask = rq[r].ask /\ q.ans = "none"
  BY Fields DEF IInv, ReqInv, SInv, MakeInv, Making
<1> HIDE DEF q, k, f
<1>2. p \notin {"done", "read"} /\ ~Created(q) /\ (p \in CommitPhases \cup MakePhases => p # "wipe")
  BY <1>1 DEF MakePhases, SnapPhases, CommitPhases, Created
<1>3. Making(q, m, k)
  <2>1. k.work = WorkingTree
    BY DEF k, Comparison
  <2> QED BY <1>1, <1>2, <2>1 DEF Making, k
<1>4. m.wiped /\ ~touched[r] => Stage(q, m, d, k)
  BY <1>1, <1>2 DEF Stage, k
<1>5. Reads(f, q, m, k)
  BY <1>1, <1>2 DEF Reads
<1> QED BY <1>1, <1>3, <1>4, <1>5, SnapKeeps DEF q, k, f

(* It is given up: the clean-up is next.                                   *)
LEMMA UndoKeeps ==
  ASSUME IInv, SInv, NEW r \in Requests, rq[r].pc \in MakePhases, Undo(r) PROVE SInv'
<1> DEFINE m == mk[r]
           k == Comparison
           d == dir
<1>1. Making(rq[r], m, k) /\ (m.wiped /\ ~touched[r] => Stage(rq[r], m, d, k))
      /\ (d = None \/ IsDir(d))
  BY DEF SInv, MakeInv
<1>2. /\ "cleanup" \in MakePhases /\ rq[r].pc \in SnapPhases
      /\ "cleanup" \notin CommitPhases \cup PackPhases \cup WorkPhases
  BY DEF MakePhases, SnapPhases, CommitPhases, PackPhases, WorkPhases
<1>3. Snap(r, Goto(r, "cleanup"), d, m)
  BY DEF Undo
<1> HIDE DEF m, k, d
<1>4. /\ IsMk(m)
      /\ m.wiped
      /\ m.sha # None => m.sha.base = k.base
      /\ m.wiped /\ ~touched[r] /\ m.sha # None => m.sha.tree = k.want
  BY <1>1 DEF Making, Stage
<1> QED BY <1>1, <1>2, <1>3, <1>4, MakeKeeps DEF k

(* A command in the snapshot's repository.                                 *)
LEMMA CommandKeeps ==
  ASSUME IInv, SInv, NEW r \in Requests, NEW from \in MakePhases, NEW to \in MakePhases,
         NEW possible, NEW d, Command(r, from, possible, to, d),
         IsDir(dir) => IsDir(d), to # "commit_tree",
         to \in CommitPhases => from \in CommitPhases,
         to \in WorkPhases => from \in WorkPhases \/ WorkingTree,
         dir # None /\ possible /\ mk[r].wiped /\ ~touched[r] =>
           /\ to = "stage" => d.tree = Comparison.want
           /\ to \in PackPhases => mk[r].sha \in d.packed
           /\ to \in PackPhases \ {"detach"} => d.alt = FALSE
  PROVE  SInv'
<1> DEFINE m == mk[r]
           k == Comparison
<1>1. Making(rq[r], m, k) /\ (m.wiped /\ ~touched[r] => Stage(rq[r], m, dir, k))
      /\ (dir = None \/ IsDir(dir)) /\ rq[r].pc = from
  BY DEF SInv, MakeInv, Command, At
<1>2. MakePhases \subseteq SnapPhases
  BY DEF MakePhases
<1>3. CASE Undo(r)
  BY <1>1, <1>3, UndoKeeps
<1>4. CASE dir # None /\ possible /\ Snap(r, Goto(r, to), d, m)
  <2> HIDE DEF m, k
  <2>1. /\ IsMk(m)
        /\ m.wiped
        /\ m.sha # None \/ to \in CommitPhases => m.sha.base = k.base
        /\ m.wiped /\ ~touched[r] /\ (m.sha # None \/ to \in CommitPhases) => m.sha.tree = k.want
    BY <1>1 DEF Making, Stage
  <2>2. m.wiped /\ ~touched[r] =>
          /\ to = "stage" => d.tree = k.want
          /\ to \in PackPhases => m.sha \in d.packed
          /\ to \in PackPhases \ {"detach"} => d.alt = FALSE
    BY <1>4 DEF m, k
  <2>3. IsDir(d) /\ rq[r].pc \in SnapPhases
    BY <1>1, <1>2, <1>4
  <2>4. to # "wipe"
    BY DEF MakePhases
  <2>5. to \in WorkPhases => WorkingTree
    BY <1>1 DEF Making, k, Comparison
  <2> QED BY <1>4, <2>1, <2>2, <2>3, <2>4, <2>5, MakeKeeps DEF k
<1> QED BY <1>3, <1>4 DEF Command

(* A request that has not made anything is answered.                       *)
LEMMA AnswerKeeps ==
  ASSUME IInv, SInv, NEW r \in Requests, ~mk[r].wiped, NEW a, NEW d, NEW m,
         d = None \/ IsDir(d), IsMk(m), ~m.wiped, ~(m.sha # None), Snap(r, Answer(r, a), d, m),
         a = "ok" /\ rq[r].ask.op = "git_analysis_source" =>
           FromTouched(m) \/ AsLocked(FileOf(r), m, Comparison)
  PROVE  SInv'
<1> DEFINE q == Answer(r, a)
           k == Comparison
           f == FileOf(r)
<1>1. q.pc = "done" /\ q.ask = rq[r].ask /\ q.ans = a
  BY Fields DEF IInv, ReqInv
<1> HIDE DEF q, k, f
<1>2. Making(q, m, k)
  BY <1>1 DEF Making, MakePhases, CommitPhases, SnapPhases, WorkPhases
<1>3. FromTouched(m) \/ Reads(f, q, m, k)
  BY <1>1 DEF Reads, k, f
<1> QED BY <1>1, <1>2, <1>3, SnapKeeps DEF q, k, f

(* CreateAnalysisSnapshot, command by command.                             *)
LEMMA CreationKeeps ==
  ASSUME IInv, FInv, SInv, NEW r \in Requests, Snapshot(r) PROVE SInv'
<1> DEFINE m == mk[r]
           k == Comparison
<1>1. /\ Making(rq[r], m, k) /\ (m.wiped /\ ~touched[r] => Stage(rq[r], m, dir, k))
      /\ dir = None \/ IsDir(dir)
      /\ IsMk(m)
  BY DEF SInv, MakeInv, Making
<1>2. k.want = Wanted /\ k.base = repo.store[Compare].tree
  BY DEF Comparison
<1>3. IsDir(Empty)
  BY DEF Empty, IsDir
<1>4. ASSUME NEW d PROVE /\ IsDir(d) => IsDir([d EXCEPT !.git = TRUE]) /\ IsDir([d EXCEPT !.alt = TRUE])
                         /\ IsDir(d) => IsDir([d EXCEPT !.alt = FALSE])
  BY DEF IsDir
<1>5. rq[r].pc \in SnapPhases /\ MakePhases \subseteq SnapPhases /\ "done" \notin SnapPhases
  BY SnapStep DEF SnapMoves, MakePhases, SnapPhases
<1> HIDE DEF m, k
<1>6. ASSUME rq[r].pc \in MakePhases, Undo(r) PROVE SInv'
  BY <1>6, UndoKeeps
<1>7. /\ rq[r].pc \in MakePhases \/ m.sha # None => m.wiped
      /\ rq[r].pc \in WorkPhases => WorkingTree
      /\ m.sha # None \/ rq[r].pc \in CommitPhases => m.sha.base = k.base
      /\ m.wiped /\ ~touched[r] =>
           /\ rq[r].pc = "stage" => dir.tree = k.want
           /\ rq[r].pc = "commit_tree" => m.tree = k.want
           /\ m.sha # None \/ rq[r].pc \in CommitPhases => m.sha.tree = k.want
           /\ rq[r].pc \in PackPhases => m.sha \in dir.packed
           /\ rq[r].pc \in PackPhases \ {"detach"} => dir.alt = FALSE
  <2>1. k.work = WorkingTree
    BY DEF k, Comparison
  <2> QED BY <1>1, <2>1 DEF Making, Stage
<1>8. rq[r].pc \notin MakePhases \cup {"done"} => ~m.wiped /\ ~(m.sha # None)
  BY <1>1 DEF Making
<1>9. \A d \in Remains : d = None \/ IsDir(d)
  BY <1>1, <1>3 DEF Remains
<1>10. CASE Validate(r)
  <2>1. rq[r].pc = "validate"
    BY <1>10 DEF Validate, At
  <2>2. ~m.wiped /\ ~(m.sha # None)
    BY <1>8, <2>1 DEF MakePhases, SnapPhases
  <2>3. Snap(r, Goto(r, "wipe"), dir, m) \/ Snap(r, Answer(r, "error"), dir, m)
    BY <1>10 DEF Validate, m
  <2>4. "wipe" \notin CommitPhases \cup PackPhases \cup WorkPhases
    BY DEF CommitPhases, PackPhases, WorkPhases
  <2>5. CASE Snap(r, Goto(r, "wipe"), dir, m)
    BY <1>1, <1>5, <2>2, <2>4, <2>5, MakeKeeps
  <2>6. CASE Snap(r, Answer(r, "error"), dir, m)
    BY <1>1, <2>2, <2>6, AnswerKeeps DEF m
  <2> QED BY <2>3, <2>5, <2>6
<1>11. CASE Wipe(r)
  <2>1. rq[r].pc = "wipe"
    BY <1>11 DEF Wipe, At
  <2>2. ~m.wiped /\ ~(m.sha # None)
    BY <1>8, <2>1 DEF MakePhases, SnapPhases
  <2> DEFINE n == [m EXCEPT !.wiped = TRUE]
  <2>3. \/ Snap(r, Goto(r, "mkdir"), None, n)
        \/ \E d \in Remains : Snap(r, Answer(r, "error"), d, m)
    BY <1>11 DEF Wipe, m
  <2>4. IsMk(n) /\ n.wiped = TRUE /\ n.sha = m.sha
    BY <1>1 DEF IsMk
  <2> HIDE DEF n
  <2>5. CASE Snap(r, Goto(r, "mkdir"), None, n)
    <3>1. "mkdir" \in MakePhases /\ "mkdir" \notin CommitPhases \cup PackPhases \cup WorkPhases
      BY DEF MakePhases, SnapPhases, CommitPhases, PackPhases, WorkPhases
    <3> QED BY <1>5, <2>2, <2>4, <2>5, <3>1, MakeKeeps
  <2>6. ASSUME NEW d \in Remains, Snap(r, Answer(r, "error"), d, m) PROVE SInv'
    BY <1>1, <1>9, <2>2, <2>6, AnswerKeeps DEF m
  <2> QED BY <2>3, <2>5, <2>6
<1>12. CASE MkDir(r) \/ Borrow(r)
  <2> DEFINE e == IF dir = None THEN Empty ELSE dir
             b == [e EXCEPT !.alt = TRUE]
  <2>1. rq[r].pc \in MakePhases
    BY <1>12 DEF MkDir, Borrow, At, MakePhases, SnapPhases
  <2>2. Snap(r, Goto(r, "init"), e, m) \/ Snap(r, Goto(r, "check_out"), b, m)
    BY <1>12 DEF MkDir, Borrow, m
  <2>3. IsDir(e)
    BY <1>1, <1>3
  <2> HIDE DEF e
  <2>4. IsDir(b)
    BY <1>4, <2>3
  <2> HIDE DEF b
  <2>5. ASSUME NEW p \in {"init", "check_out"}, NEW d, IsDir(d), Snap(r, Goto(r, p), d, m)
        PROVE  SInv'
    <3>1. /\ p \in MakePhases \ {"wipe", "stage", "commit_tree"}
          /\ p \notin CommitPhases \cup PackPhases \cup WorkPhases
      BY <2>5 DEF MakePhases, SnapPhases, CommitPhases, PackPhases, WorkPhases
    <3> QED BY <1>1, <1>5, <1>7, <2>1, <2>5, <3>1, MakeKeeps DEF k
  <2> QED BY <2>2, <2>3, <2>4, <2>5
<1>13. CASE GitInit(r)
  <2> DEFINE d == [dir EXCEPT !.git = TRUE]
  <2>1. /\ "init" \in MakePhases /\ "borrow" \in MakePhases
        /\ "borrow" \notin CommitPhases \cup PackPhases \cup WorkPhases
    BY DEF MakePhases, SnapPhases, CommitPhases, PackPhases, WorkPhases
  <2>2. Command(r, "init", TRUE, "borrow", d)
    BY <1>13 DEF GitInit
  <2>3. IsDir(dir) => IsDir(d)
    BY <1>4
  <2> HIDE DEF d
  <2> QED BY <2>1, <2>2, <2>3, CommandKeeps
<1>14. CASE Checkout(r)
  <2> DEFINE to == IF WorkingTree THEN "patch" ELSE "tree"
             t == repo.store[Start].tree
             d == [dir EXCEPT !.head = Start, !.tree = t]
             poss == dir.git /\ dir.alt /\ dir.tree \in {NoTree, t}
  <2>1. /\ "check_out" \in MakePhases /\ to \in MakePhases \ {"stage", "commit_tree"}
        /\ to \notin CommitPhases \cup PackPhases
        /\ to \in WorkPhases => WorkingTree
    BY DEF MakePhases, SnapPhases, CommitPhases, PackPhases, WorkPhases
  <2>2. Command(r, "check_out", poss, to, d)
    BY <1>14, Zenon DEF Checkout
  <2>3. IsDir(dir) => IsDir(d)
    BY DEF IsDir
  <2> HIDE DEF d, to, poss
  <2> QED BY <2>1, <2>2, <2>3, CommandKeeps
<1>15. CASE ReadPatch(r)
  <2>1. /\ rq[r].pc = "patch" /\ "patch" \in MakePhases /\ "apply_patch" \in MakePhases
        /\ "apply_patch" \notin CommitPhases \cup PackPhases /\ "patch" \in WorkPhases
    BY <1>15 DEF ReadPatch, At, MakePhases, SnapPhases, CommitPhases, PackPhases, WorkPhases
  <2>2. Undo(r) \/ Snap(r, Goto(r, "apply_patch"), dir, m)
    BY <1>15 DEF ReadPatch, m
  <2>3. CASE Snap(r, Goto(r, "apply_patch"), dir, m)
    BY <1>1, <1>5, <1>7, <2>1, <2>3, MakeKeeps DEF k
  <2> QED BY <1>6, <2>1, <2>2, <2>3
<1>16. CASE ApplyPatch(r)
  <2> DEFINE d == [dir EXCEPT !.tree = Wanted]
             poss == dir.git /\ dir.tree = repo.store[locked.base].tree
  <2>1. /\ "apply_patch" \in MakePhases \cap WorkPhases /\ "stage" \in MakePhases
        /\ "stage" \notin CommitPhases \cup PackPhases
    BY DEF MakePhases, SnapPhases, CommitPhases, PackPhases, WorkPhases
  <2>2. Command(r, "apply_patch", poss, "stage", d)
    BY <1>16, Zenon DEF ApplyPatch
  <2>3. /\ IsDir(dir) => IsDir(d)
        /\ IsDir(dir) => d.tree = k.want
    BY <1>2 DEF IsDir
  <2> HIDE DEF d, poss
  <2> QED BY <1>1, <2>1, <2>2, <2>3, CommandKeeps DEF k
<1>17. CASE WriteTree(r)
  <2> DEFINE d == [dir EXCEPT !.trees = @ \cup {Staging}]
             n == [m EXCEPT !.tree = Staging]
  <2>1. /\ rq[r].pc = "stage" /\ "stage" \in MakePhases \cap WorkPhases
        /\ "commit_tree" \in MakePhases
        /\ "commit_tree" \notin CommitPhases \cup PackPhases \cup WorkPhases
    BY <1>17 DEF WriteTree, At, MakePhases, SnapPhases, CommitPhases, PackPhases, WorkPhases
  <2>2. Undo(r) \/ (dir # None /\ Snap(r, Goto(r, "commit_tree"), d, n))
    BY <1>17 DEF WriteTree, m
  <2>3. IsMk(n) /\ n.tree = Staging /\ n.sha = m.sha /\ n.wiped = m.wiped
    BY <1>1 DEF IsMk
  <2>4. IsDir(dir) => IsDir(d)
    BY DEF IsDir
  <2>5. dir.tree = k.want => Staging = k.want
    <3> SUFFICES ASSUME dir.tree = Wanted PROVE Staging = Wanted
      BY <1>2
    <3> DEFINE old == repo.store[locked.base].tree
    <3>1. /\ WorkingTree
          /\ DOMAIN locked.patch \subseteq {f \in Files : old[f] # Absent}
      BY <1>7, <2>1 DEF SInv, LockedInv
    <3>2. Wanted = [f \in Files |-> IF f \in DOMAIN locked.patch THEN locked.patch[f] ELSE old[f]]
      BY <3>1 DEF Wanted
    <3>3. Staging = [f \in Files |-> IF f \in Ignored /\ old[f] = Absent THEN Absent
                                     ELSE Wanted[f]]
      BY DEF Staging
    <3> HIDE DEF old
    <3>4. \A f \in Files : f \in Ignored /\ old[f] = Absent => Wanted[f] = Absent
      BY <3>1, <3>2
    <3> QED BY <3>2, <3>3, <3>4
  <2> HIDE DEF d, n
  <2>6. CASE dir # None /\ Snap(r, Goto(r, "commit_tree"), d, n)
    BY <1>1, <1>5, <1>7, <2>1, <2>3, <2>4, <2>5, <2>6, MakeKeeps DEF k
  <2> QED BY <1>6, <2>1, <2>2, <2>6
<1>18. CASE HeadTreeOf(r)
  <2> DEFINE n == [m EXCEPT !.tree = Wanted]
  <2>1. /\ rq[r].pc = "tree" /\ "tree" \in MakePhases /\ "commit_tree" \in MakePhases
        /\ "commit_tree" \notin CommitPhases \cup PackPhases \cup WorkPhases
    BY <1>18 DEF HeadTreeOf, At, MakePhases, SnapPhases, CommitPhases, PackPhases, WorkPhases
  <2>2. Undo(r) \/ Snap(r, Goto(r, "commit_tree"), dir, n)
    BY <1>18 DEF HeadTreeOf, m
  <2>3. IsMk(n) /\ n.tree = k.want /\ n.sha = m.sha /\ n.wiped = m.wiped
    BY <1>1, <1>2 DEF IsMk
  <2> HIDE DEF n
  <2>4. CASE Snap(r, Goto(r, "commit_tree"), dir, n)
    BY <1>1, <1>5, <1>7, <2>1, <2>3, <2>4, MakeKeeps DEF k
  <2> QED BY <1>6, <2>1, <2>2, <2>4
<1>19. CASE CommitTree(r)
  <2>1. /\ rq[r].pc = "commit_tree" /\ "commit_tree" \in MakePhases /\ "reset" \in MakePhases
        /\ "reset" \notin PackPhases \cup WorkPhases
    BY <1>19 DEF CommitTree, At, MakePhases, SnapPhases, CommitPhases, PackPhases, WorkPhases
  <2> DEFINE sha(s) == [tree |-> m.tree, stamp |-> s, base |-> repo.store[Compare].tree]
  <2>2. Undo(r) \/ (/\ dir # None
                    /\ \E s \in Stamps : Snap(r, Goto(r, "reset"),
                                              [dir EXCEPT !.commits = @ \cup {sha(s)}],
                                              [m EXCEPT !.sha = sha(s)]))
    BY <1>19 DEF CommitTree, m
  <2>3. ASSUME NEW s, dir # None, Snap(r, Goto(r, "reset"),
                                       [dir EXCEPT !.commits = @ \cup {sha(s)}],
                                       [m EXCEPT !.sha = sha(s)])
        PROVE  SInv'
    <3> DEFINE c == sha(s)
               d == [dir EXCEPT !.commits = @ \cup {c}]
               n == [m EXCEPT !.sha = c]
    <3>1. c.tree = m.tree /\ c.base = k.base
      BY <1>2
    <3>2. Snap(r, Goto(r, "reset"), d, n)
      BY <2>3
    <3> HIDE DEF c
    <3>3. IsMk(n) /\ n.sha = c /\ n.wiped = m.wiped
      BY <1>1 DEF IsMk
    <3>4. IsDir(d)
      BY <1>1, <2>3 DEF IsDir
    <3> HIDE DEF d, n
    <3>5. m.wiped /\ ~touched[r] => c.tree = k.want
      BY <1>7, <2>1, <3>1
    <3>6. m.wiped => n.sha.base = k.base
      BY <3>1, <3>3
    <3> QED BY <1>5, <1>7, <2>1, <3>1, <3>2, <3>3, <3>4, <3>5, <3>6, MakeKeeps DEF k
  <2> QED BY <1>6, <2>1, <2>2, <2>3
<1>20. CASE Reset(r)
  <2> DEFINE d == [dir EXCEPT !.head = m.sha, !.tree = m.sha.tree]
             poss == dir.git /\ m.sha \in dir.commits
  <2>1. /\ "reset" \in MakePhases \cap CommitPhases /\ "pack" \in MakePhases
        /\ "pack" \notin PackPhases \cup WorkPhases
    BY DEF MakePhases, SnapPhases, CommitPhases, PackPhases, WorkPhases
  <2>2. Command(r, "reset", poss, "pack", d)
    BY <1>20, Zenon DEF Reset, m
  <2>3. IsDir(dir) => IsDir(d)
    BY DEF IsDir
  <2> HIDE DEF d, poss
  <2> QED BY <2>1, <2>2, <2>3, CommandKeeps
<1>21. CASE Pack(r)
  <2> DEFINE d == [dir EXCEPT !.packed = @ \cup {m.sha}]
             poss == dir.git /\ m.sha \in dir.commits
  <2>1. /\ "pack" \in MakePhases \cap CommitPhases /\ "detach" \in MakePhases \ WorkPhases
    BY DEF MakePhases, SnapPhases, CommitPhases, WorkPhases
  <2>2. Command(r, "pack", poss, "detach", d)
    BY <1>21, Zenon DEF Pack, m
  <2>3. /\ IsDir(dir) => IsDir(d)
        /\ IsDir(dir) => m.sha \in d.packed
    BY DEF IsDir
  <2> HIDE DEF d, poss
  <2> QED BY <1>1, <2>1, <2>2, <2>3, CommandKeeps DEF m
<1>22. CASE Detach(r)
  <2> DEFINE d == [dir EXCEPT !.alt = FALSE]
  <2>1. /\ "detach" \in MakePhases \cap PackPhases /\ "verify" \in MakePhases \ WorkPhases
        /\ "detach" \in CommitPhases
    BY DEF MakePhases, SnapPhases, CommitPhases, PackPhases, WorkPhases
  <2>2. Command(r, "detach", dir.alt, "verify", d) /\ rq[r].pc = "detach"
    BY <1>22 DEF Detach, Command, At
  <2>3. /\ IsDir(dir) => IsDir(d)
        /\ IsDir(dir) => d.alt = FALSE /\ d.packed = dir.packed
    BY DEF IsDir
  <2> HIDE DEF d
  <2>4. dir # None /\ m.wiped /\ ~touched[r] => m.sha \in d.packed /\ d.alt = FALSE
    BY <1>1, <1>7, <2>1, <2>2, <2>3
  <2> QED BY <2>1, <2>2, <2>3, <2>4, CommandKeeps DEF m
<1>23. CASE Verify(r)
  <2> DEFINE poss == dir.git /\ m.sha \in dir.commits
  <2>1. /\ "verify" \in MakePhases \cap (PackPhases \ {"detach"})
        /\ "revalidate" \in MakePhases \ WorkPhases
        /\ "verify" \in CommitPhases
    BY DEF MakePhases, SnapPhases, CommitPhases, PackPhases, WorkPhases
  <2>2. Command(r, "verify", poss, "revalidate", dir)
    BY <1>23, Zenon DEF Verify, m
  <2>3. rq[r].pc = "verify"
    BY <1>23 DEF Verify, Command, At
  <2> HIDE DEF poss
  <2>4. m.wiped /\ ~touched[r] => m.sha \in dir.packed /\ dir.alt = FALSE
    BY <1>7, <2>1, <2>3
  <2> QED BY <2>1, <2>2, <2>4, CommandKeeps DEF m
<1>24. CASE Revalidate(r)
  <2>1. /\ rq[r].pc = "revalidate" /\ "revalidate" \in PackPhases \ {"detach"}
        /\ "materialized" \in MakePhases /\ "revalidate" \in MakePhases \cap CommitPhases
        /\ "materialized" \notin WorkPhases \cup {"wipe", "commit_tree"}
    BY <1>24 DEF Revalidate, At, MakePhases, SnapPhases, CommitPhases, PackPhases, WorkPhases
  <2>2. Undo(r) \/ Snap(r, Goto(r, "materialized"), dir, m)
    BY <1>24 DEF Revalidate, m
  <2>3. CASE Snap(r, Goto(r, "materialized"), dir, m)
    BY <1>1, <1>5, <1>7, <2>1, <2>3, MakeKeeps DEF k
  <2> QED BY <1>6, <2>1, <2>2, <2>3
<1>25. CASE Materialized(r)
  <2>1. /\ rq[r].pc = "materialized" /\ "materialized" \in PackPhases \ {"detach"}
        /\ "materialized" \in MakePhases \cap CommitPhases
    BY <1>25 DEF Materialized, At, MakePhases, SnapPhases, CommitPhases, PackPhases
  <2>2. Undo(r) \/ (/\ dir # None /\ dir.head = m.sha /\ dir.tree = m.sha.tree
                    /\ Snap(r, Answer(r, "ok"), dir, m))
    BY <1>25 DEF Materialized, m
  <2>3. CASE dir # None /\ dir.head = m.sha /\ dir.tree = m.sha.tree
             /\ Snap(r, Answer(r, "ok"), dir, m)
    <3> DEFINE q == Answer(r, "ok")
    <3>1. q.pc = "done" /\ q.ask = rq[r].ask /\ q.ans = "ok"
      BY Fields DEF IInv, ReqInv
    <3>2. q.ask.op # "git_analysis_source"
      BY <2>1, <3>1 DEF FInv, OpInv
    <3> HIDE DEF q
    <3>3. Making(q, m, k) /\ Reads(FileOf(r), q, m, k)
      BY <1>1, <1>7, <2>1, <3>1, <3>2
         DEF Making, Reads, CommitPhases, SnapPhases, MakePhases, WorkPhases
    <3>4. m.wiped /\ ~touched[r] => Stage(q, m, dir, k)
      BY <1>7, <2>1, <2>3, <3>1 DEF Stage, CommitPhases, PackPhases, Created
    <3> QED BY <1>1, <2>3, <3>1, <3>3, <3>4, SnapKeeps DEF q, k
  <2> QED BY <1>6, <2>1, <2>2, <2>3
<1>26. CASE SnapFails(r)
  <2>1. rq[r].pc \in MakePhases
    BY <1>26 DEF SnapFails, MakePhases, SnapPhases
  <2> QED BY <1>6, <1>26, <2>1 DEF SnapFails
<1>27. CASE Cleanup(r)
  <2> DEFINE q == Answer(r, "error")
  <2>1. /\ rq[r].pc = "cleanup"
        /\ \E d \in Remains : Snap(r, q, d, [m EXCEPT !.left = d # None])
    BY <1>27 DEF Cleanup, At, m
  <2>2. q.pc = "done" /\ q.ask = rq[r].ask /\ q.ans = "error"
    BY Fields DEF IInv, ReqInv
  <2> HIDE DEF q
  <2>3. /\ q.pc \notin SnapPhases \cup CommitPhases \cup PackPhases \cup WorkPhases
        /\ ~Created(q) /\ q.ans # "ok" /\ rq[r].pc \in MakePhases
    BY <2>1, <2>2 DEF Created, CommitPhases, PackPhases, MakePhases, SnapPhases, WorkPhases
  <2>4. ASSUME NEW d \in Remains, Snap(r, q, d, [m EXCEPT !.left = d # None]) PROVE SInv'
    <3> DEFINE n == [m EXCEPT !.left = d # None]
    <3>1. IsMk(n) /\ n.left = (d # None) /\ n.sha = m.sha /\ n.wiped = m.wiped
      BY <1>1 DEF IsMk
    <3>2. Snap(r, q, d, n)
      BY <2>4
    <3> HIDE DEF n
    <3>3. d = None \/ n.left
      BY <3>1, Zenon
    <3>4. Making(q, n, k) /\ Reads(FileOf(r), q, n, k)
      BY <1>5, <1>7, <2>2, <2>3, <3>1 DEF Making, Reads
    <3>5. n.wiped /\ ~touched[r] => Stage(q, n, d, k)
      BY <1>7, <2>2, <2>3, <3>1, <3>3 DEF Stage
    <3> QED BY <1>9, <2>2, <3>2, <3>4, <3>5, SnapKeeps DEF k
  <2> QED BY <2>1, <2>4
<1> QED BY <1>10, <1>11, <1>12, <1>13, <1>14, <1>15, <1>16, <1>17, <1>18, <1>19, <1>20, <1>21,
           <1>22, <1>23, <1>24, <1>25, <1>26, <1>27 DEF Snapshot

(* A file is answered: out of the workspace, from a creation another one   *)
(* touched, or as a side of the comparison has it.                         *)
LEMMA ReadKeeps ==
  ASSUME IInv, SInv, NEW r \in Requests, rq[r].pc \in {"source", "read"}, NEW p, NEW C,
         Read(r, p, C),
         \/ p = "workspace"
         \/ p \in Requests /\ touched[p]
         \/ \A v \in C : v \in {Comparison.want[FileOf(r)], Comparison.old[FileOf(r)],
                                Comparison.base[FileOf(r)]}
  PROVE  SInv'
<1> DEFINE n(v) == [mk[r] EXCEPT !.from = p, !.content = v]
           k == Comparison
           f == FileOf(r)
<1>1. PICK v \in C : Snap(r, Answer(r, "ok"), dir, n(v))
  BY DEF Read
<1>2. Making(rq[r], mk[r], k) /\ (dir = None \/ IsDir(dir))
  BY DEF SInv, MakeInv
<1>3. IsMk(mk[r]) /\ ~mk[r].wiped /\ ~(mk[r].sha # None)
  BY <1>2 DEF Making, MakePhases
<1>4. /\ IsMk(n(v)) /\ n(v).wiped = mk[r].wiped /\ n(v).sha = mk[r].sha
      /\ n(v).from = p /\ n(v).content = v
  BY <1>3 DEF IsMk
<1> HIDE DEF n, k, f
<1>5. FromTouched(n(v)) \/ AsLocked(f, n(v), k)
  BY <1>4 DEF FromTouched, AsLocked, k, f
<1> QED BY <1>1, <1>2, <1>3, <1>4, <1>5, AnswerKeeps DEF k, f

(* AnalysisSource, step by step.                                           *)
LEMMA SourceKeeps ==
  ASSUME IInv, FInv, SInv, NEW r \in Requests, Source(r) PROVE SInv'
<1> DEFINE k == Comparison
           f == FileOf(r)
           m == mk[r]
<1>1. /\ k.want = Wanted /\ k.old = repo.store[locked.base].tree
      /\ k.base = repo.store[Compare].tree
  BY DEF Comparison
<1>2. rq[r].pc \in {"source", "read"}
  BY DEF Source, SourceOfSnapshot, SourceOfCommit, SourceCheck, SourceRead, SourceFails, At
<1>3. BaseSource(r) = k.old[f]
  BY <1>1 DEF BaseSource
<1>4. /\ Making(rq[r], m, k) /\ LockedInv
      /\ dir = None \/ IsDir(dir)
  BY DEF SInv, MakeInv
<1>5. IsMk(m) /\ ~m.wiped /\ ~(m.sha # None)
  BY <1>2, <1>4 DEF Making, MakePhases
<1> HIDE DEF k, f, m
<1>6. ASSUME Snap(r, Answer(r, "error"), dir, m) PROVE SInv'
  BY <1>4, <1>5, <1>6, AnswerKeeps DEF m
<1>7. CASE SourceFails(r)
  BY <1>6, <1>7 DEF SourceFails, m
<1>8. CASE SourceOfSnapshot(r)
  <2>1. PICK x \in Requests :
          /\ rq[x].ans = "ok" /\ mk[x].sha # None
          /\ \/ Read(r, x, {mk[x].sha.tree[f], mk[x].sha.base[f]})
             \/ Snap(r, Answer(r, "error"), dir, m)
    BY <1>8 DEF SourceOfSnapshot, f, m
  <2>2. /\ mk[x].sha.base = k.base
        /\ touched[x] \/ mk[x].sha.tree = k.want
    BY <2>1 DEF SInv, MakeInv, Making, Stage, k
  <2> DEFINE C == {mk[x].sha.tree[f], mk[x].sha.base[f]}
  <2>3. touched[x] \/ \A v \in C : v \in {k.want[f], k.old[f], k.base[f]}
    BY <2>2
  <2> HIDE DEF C
  <2>4. CASE Read(r, x, C)
    BY <1>2, <2>3, <2>4, ReadKeeps DEF k, f
  <2> QED BY <1>6, <2>1, <2>4 DEF C
<1>9. CASE SourceOfCommit(r)
  <2> DEFINE C == {repo.store[locked.head].tree[f], BaseSource(r)}
  <2>1. Read(r, "commit", C)
    BY <1>9 DEF SourceOfCommit, f
  <2>2. repo.store[locked.head].tree \in {k.want, k.old}
    BY <1>1, <1>4 DEF LockedInv, Wanted
  <2>3. \A v \in C : v \in {k.want[f], k.old[f], k.base[f]}
    BY <1>3, <2>2
  <2> HIDE DEF C
  <2> QED BY <1>2, <2>1, <2>3, ReadKeeps DEF k, f
<1>10. CASE SourceCheck(r)
  <2> DEFINE q == Goto(r, "read")
  <2>1. rq[r].pc = "source"
    BY <1>10 DEF SourceCheck, At
  <2>2. Snap(r, q, dir, m) \/ Snap(r, Answer(r, "error"), dir, m)
    BY <1>10 DEF SourceCheck, m
  <2>3. q.pc = "read" /\ q.ask = rq[r].ask /\ q.ans = "none"
    BY <1>4, <2>1, Fields DEF IInv, ReqInv, Making, SnapPhases
  <2>4. CASE Snap(r, q, dir, m)
    <3> HIDE DEF q
    <3>1. Making(q, m, k) /\ Reads(f, q, m, k)
      BY <1>5, <2>3 DEF Making, Reads, MakePhases, SnapPhases, CommitPhases, WorkPhases
    <3> QED BY <1>4, <1>5, <2>3, <2>4, <3>1, SnapKeeps DEF k, f
  <2> QED BY <1>6, <2>2, <2>4
<1>11. CASE SourceRead(r)
  <2>1. \E C : Read(r, "workspace", C)
    BY <1>11 DEF SourceRead
  <2> QED BY <1>2, <2>1, ReadKeeps
<1> QED BY <1>7, <1>8, <1>9, <1>10, <1>11 DEF Source

(* Nothing is made before the first request is.                            *)
LEMMA InitSInv == SnapInit => SInv
<1> SUFFICES ASSUME SnapInit PROVE SInv
  OBVIOUS
<1> DEFINE m0 == [sha |-> None, tree |-> NoTree, wiped |-> FALSE, left |-> FALSE,
                  from |-> None, content |-> None]
<1>1. /\ mk = [r \in Requests |-> m0] /\ touched = [r \in Requests |-> FALSE]
      /\ dir = None \/ IsDir(dir)
  BY DEF SnapInit, Empty, IsDir
<1>2. m0.sha = None /\ m0.wiped = FALSE /\ IsMk(m0)
  BY DEF IsMk
<1> HIDE DEF m0
<1>3. ASSUME NEW r \in Requests PROVE MakeInv(r) /\ SourceInv(r)
  <2>1. mk[r] = m0 /\ rq[r] = Idle
    BY <1>1 DEF SnapInit, Init
  <2>2. rq[r].pc = "new" /\ rq[r].ans = "none"
    BY <2>1 DEF Idle
  <2>3. Making(rq[r], mk[r], Comparison)
    BY <1>2, <2>1, <2>2 DEF Making, SnapPhases, MakePhases, CommitPhases, WorkPhases
  <2>4. Reads(FileOf(r), rq[r], mk[r], Comparison)
    BY <2>2 DEF Reads
  <2> QED BY <1>2, <2>1, <2>3, <2>4 DEF MakeInv, SourceInv
<1> QED BY <1>1, <1>3, InitLocked DEF SInv

(* Every step keeps what the snapshots are.                                *)
LEMMA NextSnap == ASSUME IInv, FInv, SInv, [Next]_vars PROVE SInv'
<1>1. CASE GitNext /\ UNCHANGED snapVars
  BY <1>1, GitKeeps
<1>2. CASE \E r \in Requests : Snapshot(r) \/ Source(r)
  BY <1>2, CreationKeeps, SourceKeeps
<1>3. CASE UNCHANGED vars
  <2>1. /\ repo' = repo /\ rq' = rq /\ locked' = locked /\ dir' = dir /\ mk' = mk
        /\ touched' = touched
    BY <1>3 DEF vars, gitVars, snapVars
  <2>2. LockedInv' /\ \A x \in Requests : MakeInv(x)' /\ SourceInv(x)'
    <3>1. RepoStep(repo, repo', None) /\ LockedInv
      BY <2>1, NoChange DEF IInv, SInv
    <3>2. LockedInv'
      BY <2>1, <3>1, LockedKept
    <3> QED BY <2>1, <3>1, <3>2, AsideKept
  <2> QED BY <2>1, <2>2 DEF SInv
<1> QED BY <1>1, <1>2, <1>3 DEF Next

(* Each creation and each reading is where its step says, while the source *)
(* changes and other requests come in between.                             *)
THEOREM SnapshotInvariance == Spec => []SInv
<1>1. IInv /\ FInv /\ SInv /\ [Next]_vars => SInv'
  BY NextSnap
<1> QED BY <1>1, Invariance, FilesInvariance, InitSInv, PTL DEF Spec

(* While no other creation of its id worked in the directory: a snapshot   *)
(* answered as created holds the comparison that was locked, complete and  *)
(* detached from the source, and a failed creation leaves no directory but *)
(* one it could not remove.  What is read from a commit or from such a     *)
(* snapshot is a side of the comparison (CreateAnalysisSnapshot,           *)
(* AnalysisSource).                                                        *)
THEOREM SnapshotsSound == Spec => []SnapshotSound
<1>1. IInv /\ FInv /\ SInv => SnapshotSound
  <2> SUFFICES ASSUME IInv, FInv, SInv, NEW r \in Requests
               PROVE  /\ mk[r].wiped /\ ~touched[r] => CreatedSound(r)
                      /\ rq[r].ans = "ok" /\ Op(r) = "git_analysis_source" => SourceSound(r)
    BY DEF SnapshotSound
  <2> DEFINE q == rq[r]
             m == mk[r]
             k == Comparison
  <2>1. /\ Making(q, m, k) /\ SourceInv(r)
        /\ m.wiped /\ ~touched[r] => Stage(q, m, dir, k)
        /\ q.ans = "ok" => q.pc = "done"
    BY DEF SInv, MakeInv, IInv, ReqInv
  <2>2. /\ k.want = Wanted /\ k.base = repo.store[Compare].tree
        /\ k.old[FileOf(r)] = BaseSource(r)
    BY DEF Comparison, BaseSource
  <2> HIDE DEF k
  <2>3. ASSUME m.wiped, ~touched[r] PROVE CreatedSound(r)
    <3>1. CASE q.ans = "error"
      <4>1. q.pc = "done" /\ ~Created(q)
        BY <2>1, <2>3, <3>1 DEF Making, MakePhases, Created
      <4> QED BY <2>1, <2>3, <3>1, <4>1 DEF Stage, CreatedSound
    <3>2. CASE q.ans = "ok"
      <4>1. Created(q)
        BY <2>1, <3>2 DEF Created
      <4> QED BY <2>1, <2>2, <2>3, <3>2, <4>1 DEF Making, Stage, CreatedSound
    <3> QED BY <3>1, <3>2 DEF CreatedSound
  <2>4. ASSUME q.ans = "ok", q.ask.op = "git_analysis_source" PROVE SourceSound(r)
    <3>1. FromTouched(m) \/ AsLocked(FileOf(r), m, k)
      BY <2>1, <2>4 DEF SourceInv, Reads, k
    <3> QED BY <2>2, <3>1 DEF AsLocked, FromTouched, SourceSound
  <2> QED BY <2>3, <2>4 DEF Op
<1> QED BY <1>1, Invariance, FilesInvariance, SnapshotInvariance, PTL
=============================================================================
