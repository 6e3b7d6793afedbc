---------------------------- MODULE RunnerQAProofs ----------------------------
(***************************************************************************)
(* Proofs about RunnerQA, for any number of requests, ids, sessions, roots  *)
(* and repositories, and any inbox.  The invariants the runs check are not  *)
(* inductive by themselves; IInv adds what the phase of a request says of   *)
(* its record, of its hold on the gate and of the events it has sent.       *)
(***************************************************************************)
EXTENDS RunnerQA, TLAPS

(* The phases after the body of handleQARequest. *)
Gone == {"leaving", "released", "returned"}

ReqKnown == \A r \in Requests : pc[r] = "new" <=> req[r] = None

EndingsInv ==
  \A r \in Requests :
    /\ pc[r] \notin Gone => endings[r] = 0
    /\ pc[r] \in Gone => endings[r] \in {0, 1} /\ (r \notin cancelled => endings[r] = 1)
    /\ late[r] \subseteq {"heartbeat"}

(* Who asked for the gate, who owns it, and that owners differ in their key. *)
WorkspaceInv ==
  /\ \A r \in Requests :
       /\ want[r] # None => Shared(r) /\ want[r] = req[r].root
       /\ pc[r] \in {"new", "delivered", "registered", "released", "returned"} => want[r] = None
       /\ Shared(r) /\ pc[r] \in {"ready", "starting", "running"} => r \in inside
       /\ pc[r] = "leaving" /\ want[r] # None => r \in inside
       /\ r \in inside => want[r] # None
  /\ \A r, s \in inside : r # s => want[r] # want[s]

(* Whoever set a branch has been delivered, so its record does not change.  *)
BranchInv ==
  /\ \A p \in Repos : head[p].by # None => pc[head[p].by] # "new"
  /\ OwnBranch

(* Those a stop still has to cancel are named by its message, and were in   *)
(* qaRunning when it was handled.                                           *)
StopInv ==
  \A r \in stop : /\ asked # None
                  /\ Names(asked.id, asked.session, r)
                  /\ \E i \in Ids : asked.holders[i] = r

(* A process outlives its handler only if that was stopped. *)
ProcsInv == \A r \in procs : pc[r] = "running" \/ r \in cancelled

IInv ==
  /\ TypeOK
  /\ ReqKnown
  /\ EndingsInv
  /\ WorkspaceInv
  /\ EntryIsLive
  /\ StopInv
  /\ ProcsInv
  /\ BranchInv

(* NewDaemon leaves nothing running, queued or announced.                   *)
LEMMA InitIInv == Init => IInv
  BY RunnerAssumption DEF Init, Gate!Init, IInv, TypeOK, Phases, ReqKnown, EndingsInv,
     Gone, WorkspaceInv, Shared, EntryIsLive, StopInv, ProcsInv, BranchInv, OwnBranch

(* BranchInv outlives a step that leaves the records and the heads alone    *)
(* and lets no request with a branch into its executor.                     *)
LEMMA BranchUntouched ==
  ASSUME TypeOK, BranchInv, req' = req, head' = head,
         \A s \in Requests :
           /\ pc[s] # "new" => pc'[s] # "new"
           /\ pc'[s] \in {"starting", "running"} /\ Shared(s) /\ req[s].branch # None
              => pc[s] \in {"starting", "running"}
  PROVE  BranchInv'
<1>1. ASSUME NEW p \in Repos, head'[p].by # None PROVE pc'[head'[p].by] # "new"
  BY <1>1 DEF BranchInv, TypeOK
<1>2. OwnBranch'
  <2> SUFFICES ASSUME NEW r \in Requests, Shared(r), req[r].branch # None,
                      pc'[r] \in {"starting", "running"}
               PROVE  LET h == head[Repo(r)] IN
                      \/ h.branch = req[r].branch
                      \/ h.by = None
                      \/ ~Shared(h.by)
                      \/ req[h.by].root # req[r].root
    BY DEF OwnBranch, Shared, Repo
  <2>1. pc[r] \in {"starting", "running"}
    OBVIOUS
  <2> QED BY <2>1 DEF BranchInv, OwnBranch
<1> QED BY <1>1, <1>2 DEF BranchInv

(* After r has set the branch of its own repository, no request for its     *)
(* workspace runs that wants another one; every other request keeps what    *)
(* BranchInv said of it, or sees r as the one who set its branch.           *)
LEMMA BranchSetBy ==
  ASSUME RunnerAssumption, TypeOK, BranchInv, req' = req,
         NEW r \in Requests, req[r] \in Record, req[r].branch # None,
         head' = [head EXCEPT ![Repo(r)] = [branch |-> req[r].branch, by |-> r]],
         pc[r] # "new", NEW q \in Phases, q # "new", pc' = [pc EXCEPT ![r] = q],
         \A s \in Requests : s # r /\ Shared(s) /\ Shared(r) /\ req[s].root = req[r].root
                            => pc[s] \notin {"starting", "running"}
  PROVE  BranchInv'
<1>1. Repo(r) \in Repos /\ r # None
  BY DEF Repo, Record, RunnerAssumption
<1>2. ASSUME NEW p \in Repos, head'[p].by # None PROVE pc'[head'[p].by] # "new"
  <2>1. CASE p = Repo(r)
    BY <1>1, <2>1 DEF TypeOK
  <2>2. CASE p # Repo(r)
    <3>1. head'[p] = head[p] /\ head[p].by \in Requests
      BY <1>2, <2>2 DEF TypeOK
    <3> QED BY <1>2, <3>1 DEF BranchInv, TypeOK
  <2> QED BY <2>1, <2>2
<1>3. OwnBranch'
  <2> SUFFICES ASSUME NEW s \in Requests, Shared(s), req[s].branch # None,
                      pc'[s] \in {"starting", "running"}
               PROVE  LET h == head'[Repo(s)] IN
                      \/ h.branch = req[s].branch
                      \/ h.by = None
                      \/ ~Shared(h.by)
                      \/ req[h.by].root # req[s].root
    BY DEF OwnBranch, Shared, Repo
  <2>1. Repo(s) \in Repos
    BY DEF Shared, Repo, RunnerAssumption, TypeOK, Record
  <2>2. CASE s = r
    BY <1>1, <2>2 DEF TypeOK
  <2>3. CASE s # r /\ Repo(s) = Repo(r)
    <3>1. pc[s] \in {"starting", "running"}
      BY <2>3 DEF TypeOK
    <3>2. head'[Repo(s)].by = r
      BY <1>1, <2>3 DEF TypeOK
    <3> QED BY <2>3, <3>1, <3>2
  <2>4. CASE s # r /\ Repo(s) # Repo(r)
    <3>1. pc[s] \in {"starting", "running"}
      BY <2>4 DEF TypeOK
    <3>2. head'[Repo(s)] = head[Repo(s)]
      BY <2>1, <2>4 DEF TypeOK
    <3> QED BY <3>1, <3>2 DEF BranchInv, OwnBranch
  <2> QED BY <2>2, <2>3, <2>4
<1> QED BY <1>2, <1>3 DEF BranchInv

(* No step of a handler, a stop, a heartbeat or a resource request breaks   *)
(* IInv.  One step per action, and under it one per group of conjuncts.      *)
LEMMA StepIInv == IInv /\ [Next]_vars => IInv'
<1> SUFFICES ASSUME IInv, [Next]_vars PROVE IInv'
  OBVIOUS
<1> USE RunnerAssumption DEF IInv, Send, Goto, gate, stops, host, sends
<1>1. ASSUME NEW r \in Requests, NEW m \in Inbox, Deliver(r, m) PROVE IInv'
  <2>1. (TypeOK /\ ReqKnown)'
    BY <1>1 DEF Deliver, TypeOK, Phases, ReqKnown, Record
  <2>2. EndingsInv'
    BY <1>1 DEF Deliver, EndingsInv, Gone, TypeOK
  <2>3. WorkspaceInv'
    BY <1>1 DEF Deliver, WorkspaceInv, Shared, TypeOK, ReqKnown, Record
  <2>4. (EntryIsLive /\ StopInv /\ ProcsInv)'
    BY <1>1 DEF Deliver, EntryIsLive, StopInv, Names, ProcsInv, TypeOK, ReqKnown
  <2>5. BranchInv'
    <3>1. \A p \in Repos : head[p].by # None => head[p].by # r /\ head[p].by \in Requests
      BY <1>1 DEF Deliver, BranchInv, TypeOK
    <3>2. \A s \in Requests : s # r => req'[s] = req[s] /\ pc'[s] = pc[s]
      BY <1>1 DEF Deliver, TypeOK
    <3>3. pc'[r] = "delivered" /\ head' = head
      BY <1>1 DEF Deliver, TypeOK
    <3>4. \A p \in Repos : head'[p].by # None => pc'[head'[p].by] # "new"
      BY <3>1, <3>2, <3>3 DEF BranchInv
    <3>5. OwnBranch'
      <4> SUFFICES ASSUME NEW s \in Requests, Shared(s)', req'[s].branch # None,
                          pc'[s] \in {"starting", "running"}
                   PROVE  (LET h == head[Repo(s)] IN
                           \/ h.branch = req[s].branch
                           \/ h.by = None
                           \/ ~Shared(h.by)
                           \/ req[h.by].root # req[s].root)'
        BY DEF OwnBranch
      <4>1. s # r /\ req'[s] = req[s] /\ pc'[s] = pc[s]
        BY <3>2, <3>3
      <4>2. Repo(s) \in Repos /\ Repo(s)' = Repo(s) /\ Shared(s)
        BY <4>1 DEF Repo, Shared, TypeOK, Record
      <4>3. head[Repo(s)].by # None => req'[head[Repo(s)].by] = req[head[Repo(s)].by]
        BY <3>1, <3>2, <4>2
      <4> QED BY <3>3, <4>1, <4>2, <4>3 DEF BranchInv, OwnBranch, Shared
    <3> QED BY <3>4, <3>5 DEF BranchInv
  <2> QED BY <2>1, <2>2, <2>3, <2>4, <2>5
<1>2. ASSUME NEW i \in Ids \cup {None}, NEW s \in Sessions, handleQAStop(i, s) PROVE IInv'
  <2>1. (TypeOK /\ ReqKnown)'
    <3>1. asked' \in Lookup \cup {None}
      <4>1. asked' = None \/ asked' = [id |-> i, session |-> s, holders |-> qaRunning]
        BY <1>2 DEF handleQAStop
      <4> QED BY <4>1 DEF Lookup, TypeOK
    <3>2. stop' \subseteq Requests
      BY <1>2 DEF handleQAStop, Targets
    <3> QED BY <1>2, <3>1, <3>2 DEF handleQAStop, TypeOK, ReqKnown
  <2>2. EndingsInv'
    BY <1>2 DEF handleQAStop, Targets, Names, Active, EndingsInv, Gone, TypeOK
  <2>3. WorkspaceInv'
    BY <1>2 DEF handleQAStop, Targets, Names, Active, WorkspaceInv, Shared, TypeOK,
       ReqKnown, Record
  <2>4. (EntryIsLive /\ StopInv /\ ProcsInv)'
    <3>1. EntryIsLive'
      BY <1>2 DEF handleQAStop, EntryIsLive
    <3>2. ProcsInv'
      BY <1>2 DEF handleQAStop, ProcsInv
    <3>3. ASSUME NEW r \in Targets(i, s)
          PROVE  r \in Requests /\ Names(i, s, r) /\ \E j \in Ids : qaRunning[j] = r
      BY DEF Targets, TypeOK, Record
    <3>4. StopInv'
      <4>1. /\ stop' = Targets(i, s) /\ req' = req
            /\ stop' # {} => asked' = [id |-> i, session |-> s, holders |-> qaRunning]
        BY <1>2 DEF handleQAStop
      <4>2. stop' # {} => asked' \in Lookup
        BY <4>1 DEF TypeOK, Lookup
      <4>3. \A r \in Requests : Names(i, s, r)' <=> Names(i, s, r)
        BY <4>1 DEF Names
      <4> QED BY <3>3, <4>1, <4>2, <4>3 DEF StopInv
    <3> QED BY <3>1, <3>2, <3>4
  <2>5. BranchInv'
    BY <1>2, BranchUntouched DEF handleQAStop, TypeOK, Shared
  <2> QED BY <2>1, <2>2, <2>3, <2>4, <2>5
<1>3. ASSUME NEW r \in Requests, CancelNext(r) PROVE IInv'
  <2>1. (TypeOK /\ ReqKnown)'
    BY <1>3 DEF CancelNext, TypeOK, Phases, ReqKnown, Record
  <2>2. EndingsInv'
    BY <1>3 DEF CancelNext, EndingsInv, Gone, TypeOK
  <2>3. WorkspaceInv'
    BY <1>3 DEF CancelNext, WorkspaceInv, Shared, TypeOK, ReqKnown, Record
  <2>4. (EntryIsLive /\ StopInv /\ ProcsInv)'
    BY <1>3 DEF CancelNext, EntryIsLive, StopInv, Names, ProcsInv, TypeOK, ReqKnown
  <2>5. BranchInv'
    BY <1>3, BranchUntouched DEF CancelNext, TypeOK, Shared
  <2> QED BY <2>1, <2>2, <2>3, <2>4, <2>5
<1>4. ASSUME NEW r \in Requests, Register(r) PROVE IInv'
  <2>1. (TypeOK /\ ReqKnown)'
    BY <1>4 DEF Register, TypeOK, Phases, ReqKnown, Record
  <2>2. EndingsInv'
    BY <1>4 DEF Register, EndingsInv, Gone, TypeOK
  <2>3. WorkspaceInv'
    BY <1>4 DEF Register, WorkspaceInv, Shared, TypeOK, ReqKnown, Record
  <2>4. (EntryIsLive /\ StopInv /\ ProcsInv)'
    BY <1>4 DEF Register, EntryIsLive, StopInv, Names, ProcsInv, TypeOK, ReqKnown
  <2>5. BranchInv'
    BY <1>4, BranchUntouched DEF Register, TypeOK, Shared
  <2> QED BY <2>1, <2>2, <2>3, <2>4, <2>5
<1>5. ASSUME NEW r \in Requests, Fail(r) PROVE IInv'
  <2>1. (TypeOK /\ ReqKnown)'
    BY <1>5 DEF Fail, TypeOK, Phases, ReqKnown, Record
  <2>2. EndingsInv'
    BY <1>5 DEF Fail, EndingsInv, Gone, TypeOK
  <2>3. WorkspaceInv'
    BY <1>5 DEF Fail, WorkspaceInv, Shared, TypeOK, ReqKnown, Record
  <2>4. (EntryIsLive /\ StopInv /\ ProcsInv)'
    BY <1>5 DEF Fail, EntryIsLive, StopInv, Names, ProcsInv, TypeOK, ReqKnown
  <2>5. BranchInv'
    BY <1>5, BranchUntouched DEF Fail, TypeOK, Shared
  <2> QED BY <2>1, <2>2, <2>3, <2>4, <2>5
<1>6. ASSUME NEW r \in Requests, UseSnapshot(r) PROVE IInv'
  <2>1. (TypeOK /\ ReqKnown)'
    BY <1>6 DEF UseSnapshot, TypeOK, Phases, ReqKnown, Record
  <2>2. EndingsInv'
    BY <1>6 DEF UseSnapshot, EndingsInv, Gone, TypeOK
  <2>3. WorkspaceInv'
    BY <1>6 DEF UseSnapshot, WorkspaceInv, Shared, TypeOK, ReqKnown, Record
  <2>4. (EntryIsLive /\ StopInv /\ ProcsInv)'
    BY <1>6 DEF UseSnapshot, EntryIsLive, StopInv, Names, ProcsInv, TypeOK, ReqKnown
  <2>5. BranchInv'
    BY <1>6, BranchUntouched DEF UseSnapshot, TypeOK, Shared
  <2> QED BY <2>1, <2>2, <2>3, <2>4, <2>5
<1>7. ASSUME NEW r \in Requests, UseIsolated(r) PROVE IInv'
  <2>1. (TypeOK /\ ReqKnown)'
    BY <1>7 DEF UseIsolated, TypeOK, Phases, ReqKnown, Record
  <2>2. EndingsInv'
    BY <1>7 DEF UseIsolated, EndingsInv, Gone, TypeOK
  <2>3. WorkspaceInv'
    BY <1>7 DEF UseIsolated, WorkspaceInv, Shared, TypeOK, ReqKnown, Record
  <2>4. (EntryIsLive /\ StopInv /\ ProcsInv)'
    BY <1>7 DEF UseIsolated, EntryIsLive, StopInv, Names, ProcsInv, TypeOK, ReqKnown
  <2>5. BranchInv'
    BY <1>7, BranchUntouched DEF UseIsolated, TypeOK, Shared
  <2> QED BY <2>1, <2>2, <2>3, <2>4, <2>5
<1>8. ASSUME NEW r \in Requests, AskForWorkspace(r) PROVE IInv'
  <2>1. req[r] \in Record
    BY <1>8 DEF AskForWorkspace, TypeOK, ReqKnown
  <2>2. (TypeOK /\ ReqKnown)'
    BY <1>8, <2>1 DEF AskForWorkspace, Gate!Request, TypeOK, Phases, ReqKnown, Record
  <2>3. EndingsInv'
    BY <1>8, <2>1 DEF AskForWorkspace, Gate!Request, EndingsInv, Gone, TypeOK
  <2>4. WorkspaceInv'
    BY <1>8, <2>1 DEF AskForWorkspace, Gate!Request, WorkspaceInv, Shared, TypeOK,
       ReqKnown, Record
  <2>5. (EntryIsLive /\ StopInv /\ ProcsInv)'
    BY <1>8, <2>1 DEF AskForWorkspace, Gate!Request, EntryIsLive, StopInv, Names, ProcsInv,
       TypeOK, ReqKnown
  <2>6. BranchInv'
    BY <1>8, BranchUntouched DEF AskForWorkspace, TypeOK, Shared
  <2> QED BY <2>2, <2>3, <2>4, <2>5, <2>6
<1>9. ASSUME NEW r \in Requests, GateEnter(r) PROVE IInv'
  <2>1. (TypeOK /\ ReqKnown)'
    BY <1>9 DEF GateEnter, Gate!Enter, Gate!Waits, Gate!Free, TypeOK, Phases, ReqKnown,
       Record
  <2>2. EndingsInv'
    BY <1>9 DEF GateEnter, Gate!Enter, Gate!Waits, Gate!Free, EndingsInv, Gone, TypeOK
  <2>3. WorkspaceInv'
    BY <1>9 DEF GateEnter, Gate!Enter, Gate!Waits, Gate!Free, WorkspaceInv, Shared,
       TypeOK, ReqKnown, Record
  <2>4. (EntryIsLive /\ StopInv /\ ProcsInv)'
    BY <1>9 DEF GateEnter, Gate!Enter, Gate!Waits, Gate!Free, EntryIsLive,
       StopInv, Names, ProcsInv, TypeOK, ReqKnown
  <2>5. BranchInv'
    BY <1>9, BranchUntouched DEF GateEnter, TypeOK, Shared
  <2> QED BY <2>1, <2>2, <2>3, <2>4, <2>5
<1>10. ASSUME NEW r \in Requests, Acquired(r) PROVE IInv'
  <2>1. (TypeOK /\ ReqKnown)'
    BY <1>10 DEF Acquired, TypeOK, Phases, ReqKnown, Record
  <2>2. EndingsInv'
    BY <1>10 DEF Acquired, EndingsInv, Gone, TypeOK
  <2>3. WorkspaceInv'
    BY <1>10 DEF Acquired, WorkspaceInv, Shared, TypeOK, ReqKnown, Record
  <2>4. (EntryIsLive /\ StopInv /\ ProcsInv)'
    BY <1>10 DEF Acquired, EntryIsLive, StopInv, Names, ProcsInv, TypeOK, ReqKnown
  <2>5. BranchInv'
    BY <1>10, BranchUntouched DEF Acquired, TypeOK, Shared
  <2> QED BY <2>1, <2>2, <2>3, <2>4, <2>5
<1>11. ASSUME NEW r \in Requests, WaitCancelled(r) PROVE IInv'
  <2>1. (TypeOK /\ ReqKnown)'
    BY <1>11 DEF WaitCancelled, Gate!GiveUp, Gate!Waits, TypeOK, Phases, ReqKnown,
       Record
  <2>2. EndingsInv'
    BY <1>11 DEF WaitCancelled, Gate!GiveUp, Gate!Waits, EndingsInv, Gone, TypeOK
  <2>3. WorkspaceInv'
    BY <1>11 DEF WaitCancelled, Gate!GiveUp, Gate!Waits, WorkspaceInv, Shared, TypeOK,
       ReqKnown, Record
  <2>4. (EntryIsLive /\ StopInv /\ ProcsInv)'
    BY <1>11 DEF WaitCancelled, Gate!GiveUp, Gate!Waits, EntryIsLive, StopInv, Names, ProcsInv,
       TypeOK, ReqKnown
  <2>5. BranchInv'
    BY <1>11, BranchUntouched DEF WaitCancelled, TypeOK, Shared
  <2> QED BY <2>1, <2>2, <2>3, <2>4, <2>5
<1>12. ASSUME NEW r \in Requests, SkipCheckout(r) PROVE IInv'
  <2>1. (TypeOK /\ ReqKnown)'
    BY <1>12 DEF SkipCheckout, TypeOK, Phases, ReqKnown, Record
  <2>2. EndingsInv'
    BY <1>12 DEF SkipCheckout, EndingsInv, Gone, TypeOK
  <2>3. WorkspaceInv'
    BY <1>12 DEF SkipCheckout, WorkspaceInv, Shared, TypeOK, ReqKnown, Record
  <2>4. (EntryIsLive /\ StopInv /\ ProcsInv)'
    BY <1>12 DEF SkipCheckout, EntryIsLive, StopInv, Names, ProcsInv, TypeOK, ReqKnown
  <2>5. BranchInv'
    BY <1>12, BranchUntouched DEF SkipCheckout, NeedsCheckout, TypeOK, Shared
  <2> QED BY <2>1, <2>2, <2>3, <2>4, <2>5
<1>13. ASSUME NEW r \in Requests, Checkout(r) PROVE IInv'
  <2>1. req[r] \in Record
    BY <1>13 DEF Checkout, TypeOK, ReqKnown
  <2>2. (TypeOK /\ ReqKnown)'
    BY <1>13, <2>1 DEF Checkout, NeedsCheckout, Repo, TypeOK, Phases, ReqKnown, Record
  <2>3. EndingsInv'
    BY <1>13, <2>1 DEF Checkout, NeedsCheckout, Repo, EndingsInv, Gone, TypeOK
  <2>4. WorkspaceInv'
    BY <1>13, <2>1 DEF Checkout, NeedsCheckout, Repo, WorkspaceInv, Shared, TypeOK,
       ReqKnown, Record
  <2>5. (EntryIsLive /\ StopInv /\ ProcsInv)'
    BY <1>13, <2>1 DEF Checkout, NeedsCheckout, Repo, EntryIsLive, StopInv, Names, ProcsInv,
       TypeOK, ReqKnown
  <2>6. BranchInv'
    <3>1. \A s \in Requests : s # r /\ Shared(s) /\ Shared(r) /\ req[s].root = req[r].root
                             => pc[s] \notin {"starting", "running"}
      BY <1>13 DEF Checkout, WorkspaceInv
    <3>2. req' = req /\ pc[r] = "ready" /\ pc' = [pc EXCEPT ![r] = "starting"]
          /\ req[r].branch # None
      BY <1>13 DEF Checkout, NeedsCheckout
    <3>3. CASE head[Repo(r)].branch = req[r].branch
      <4>1. head' = head
        BY <1>13, <3>3 DEF Checkout
      <4>2. \A p \in Repos : head'[p].by # None => pc'[head'[p].by] # "new"
        BY <3>2, <4>1 DEF BranchInv, TypeOK
      <4>3. OwnBranch'
        <5> SUFFICES ASSUME NEW s \in Requests, Shared(s), req[s].branch # None,
                            pc'[s] \in {"starting", "running"}
                     PROVE  LET h == head[Repo(s)] IN
                            \/ h.branch = req[s].branch
                            \/ h.by = None
                            \/ ~Shared(h.by)
                            \/ req[h.by].root # req[s].root
          BY <3>2, <4>1 DEF OwnBranch, Shared, Repo
        <5>1. s = r \/ pc[s] \in {"starting", "running"}
          BY <3>2 DEF TypeOK
        <5> QED BY <3>3, <5>1 DEF BranchInv, OwnBranch
      <4> QED BY <4>2, <4>3 DEF BranchInv
    <3>4. CASE head[Repo(r)].branch # req[r].branch
      <4>1. head' = [head EXCEPT ![Repo(r)] = [branch |-> req[r].branch, by |-> r]]
        BY <1>13, <3>4 DEF Checkout
      <4> QED BY <2>1, <3>1, <3>2, <4>1, BranchSetBy DEF Phases
    <3> QED BY <3>3, <3>4
  <2> QED BY <2>2, <2>3, <2>4, <2>5, <2>6
<1>14. ASSUME NEW r \in Requests, CheckoutFails(r) PROVE IInv'
  <2>1. req[r] \in Record
    BY <1>14 DEF CheckoutFails, TypeOK, ReqKnown
  <2>2. (TypeOK /\ ReqKnown)'
    <3>1. head' \in [Repos -> [branch : Branches \cup {None}, by : Requests \cup {None}]]
      BY <1>14, <2>1 DEF CheckoutFails, Repo, TypeOK, Record
    <3> QED BY <1>14, <3>1 DEF CheckoutFails, TypeOK, Phases, ReqKnown
  <2>3. EndingsInv'
    BY <1>14, <2>1 DEF CheckoutFails, NeedsCheckout, Repo, EndingsInv, Gone, TypeOK
  <2>4. WorkspaceInv'
    BY <1>14, <2>1 DEF CheckoutFails, NeedsCheckout, Repo, WorkspaceInv, Shared, TypeOK,
       ReqKnown, Record
  <2>5. (EntryIsLive /\ StopInv /\ ProcsInv)'
    BY <1>14, <2>1 DEF CheckoutFails, NeedsCheckout, Repo, EntryIsLive,
       StopInv, Names, ProcsInv, TypeOK, ReqKnown
  <2>6. BranchInv'
    <3>1. \A s \in Requests : s # r /\ Shared(s) /\ Shared(r) /\ req[s].root = req[r].root
                             => pc[s] \notin {"starting", "running"}
      BY <1>14 DEF CheckoutFails, WorkspaceInv
    <3>2. req' = req /\ pc[r] = "ready" /\ pc' = [pc EXCEPT ![r] = "leaving"]
          /\ req[r].branch # None
      BY <1>14 DEF CheckoutFails, NeedsCheckout
    <3>3. CASE UNCHANGED head
      BY <3>2, <3>3, BranchUntouched DEF TypeOK
    <3>4. CASE head' = [head EXCEPT ![Repo(r)] = [branch |-> req[r].branch, by |-> r]]
      BY <2>1, <3>1, <3>2, <3>4, BranchSetBy DEF Phases
    <3> QED BY <1>14, <3>3, <3>4 DEF CheckoutFails
  <2> QED BY <2>2, <2>3, <2>4, <2>5, <2>6
<1>15. ASSUME NEW r \in Requests, Start(r) PROVE IInv'
  <2>1. (TypeOK /\ ReqKnown)'
    BY <1>15 DEF Start, TypeOK, Phases, ReqKnown, Record
  <2>2. EndingsInv'
    BY <1>15 DEF Start, EndingsInv, Gone, TypeOK
  <2>3. WorkspaceInv'
    BY <1>15 DEF Start, WorkspaceInv, Shared, TypeOK, ReqKnown, Record
  <2>4. (EntryIsLive /\ StopInv /\ ProcsInv)'
    BY <1>15 DEF Start, EntryIsLive, StopInv, Names, ProcsInv, TypeOK, ReqKnown
  <2>5. BranchInv'
    BY <1>15, BranchUntouched DEF Start, TypeOK, Shared
  <2> QED BY <2>1, <2>2, <2>3, <2>4, <2>5
<1>16. ASSUME NEW r \in Requests, Output(r) PROVE IInv'
  <2>1. (TypeOK /\ ReqKnown)'
    BY <1>16 DEF Output, TypeOK, Phases, ReqKnown, Record
  <2>2. EndingsInv'
    BY <1>16 DEF Output, EndingsInv, Gone, TypeOK
  <2>3. WorkspaceInv'
    BY <1>16 DEF Output, WorkspaceInv, Shared, TypeOK, ReqKnown, Record
  <2>4. (EntryIsLive /\ StopInv /\ ProcsInv)'
    BY <1>16 DEF Output, EntryIsLive, StopInv, Names, ProcsInv, TypeOK, ReqKnown
  <2>5. BranchInv'
    BY <1>16, BranchUntouched DEF Output, TypeOK, Shared
  <2> QED BY <2>1, <2>2, <2>3, <2>4, <2>5
<1>17. ASSUME NEW r \in Requests, Finish(r) PROVE IInv'
  <2>1. (TypeOK /\ ReqKnown)'
    BY <1>17 DEF Finish, TypeOK, Phases, ReqKnown, Record
  <2>2. EndingsInv'
    BY <1>17 DEF Finish, EndingsInv, Gone, TypeOK
  <2>3. WorkspaceInv'
    BY <1>17 DEF Finish, WorkspaceInv, Shared, TypeOK, ReqKnown, Record
  <2>4. (EntryIsLive /\ StopInv /\ ProcsInv)'
    BY <1>17 DEF Finish, EntryIsLive, StopInv, Names, ProcsInv, TypeOK, ReqKnown
  <2>5. BranchInv'
    BY <1>17, BranchUntouched DEF Finish, TypeOK, Shared
  <2> QED BY <2>1, <2>2, <2>3, <2>4, <2>5
<1>18. ASSUME NEW r \in Requests, FinishStopped(r) PROVE IInv'
  <2>1. (TypeOK /\ ReqKnown)'
    BY <1>18 DEF FinishStopped, TypeOK, Phases, ReqKnown, Record
  <2>2. EndingsInv'
    BY <1>18 DEF FinishStopped, EndingsInv, Gone, TypeOK
  <2>3. WorkspaceInv'
    BY <1>18 DEF FinishStopped, WorkspaceInv, Shared, TypeOK, ReqKnown, Record
  <2>4. (EntryIsLive /\ StopInv /\ ProcsInv)'
    BY <1>18 DEF FinishStopped, EntryIsLive, StopInv, Names, ProcsInv, TypeOK, ReqKnown
  <2>5. BranchInv'
    BY <1>18, BranchUntouched DEF FinishStopped, TypeOK, Shared
  <2> QED BY <2>1, <2>2, <2>3, <2>4, <2>5
<1>19. ASSUME NEW r \in Requests, ReleaseWorkspace(r) PROVE IInv'
  <2>1. (TypeOK /\ ReqKnown)'
    BY <1>19 DEF ReleaseWorkspace, Gate!Leave, Gate!HandOver, Gate!Waits, TypeOK,
       Phases, ReqKnown, Record
  <2>2. EndingsInv'
    BY <1>19 DEF ReleaseWorkspace, Gate!Leave, Gate!HandOver, Gate!Waits, EndingsInv,
       Gone, TypeOK
  <2>3. WorkspaceInv'
    BY <1>19 DEF ReleaseWorkspace, Gate!Leave, Gate!HandOver, Gate!Waits, WorkspaceInv,
       Shared, TypeOK, ReqKnown, Record
  <2>4. (EntryIsLive /\ StopInv /\ ProcsInv)'
    BY <1>19 DEF ReleaseWorkspace, Gate!Leave, Gate!HandOver, Gate!Waits, EntryIsLive,
       StopInv, Names, ProcsInv, TypeOK, ReqKnown
  <2>5. BranchInv'
    BY <1>19, BranchUntouched DEF ReleaseWorkspace, TypeOK, Shared
  <2> QED BY <2>1, <2>2, <2>3, <2>4, <2>5
<1>20. ASSUME NEW r \in Requests, Deregister(r) PROVE IInv'
  <2>1. (TypeOK /\ ReqKnown)'
    BY <1>20 DEF Deregister, TypeOK, Phases, ReqKnown, Record
  <2>2. EndingsInv'
    BY <1>20 DEF Deregister, EndingsInv, Gone, TypeOK
  <2>3. WorkspaceInv'
    BY <1>20 DEF Deregister, WorkspaceInv, Shared, TypeOK, ReqKnown, Record
  <2>4. (EntryIsLive /\ StopInv /\ ProcsInv)'
    BY <1>20 DEF Deregister, EntryIsLive, StopInv, Names, ProcsInv, TypeOK, ReqKnown
  <2>5. BranchInv'
    BY <1>20, BranchUntouched DEF Deregister, TypeOK, Shared
  <2> QED BY <2>1, <2>2, <2>3, <2>4, <2>5
<1>21. ASSUME NEW r \in Requests, Heartbeat(r) PROVE IInv'
  <2>1. (TypeOK /\ ReqKnown)'
    BY <1>21 DEF Heartbeat, TypeOK, Phases, ReqKnown, Record
  <2>2. EndingsInv'
    BY <1>21 DEF Heartbeat, EndingsInv, Gone, TypeOK
  <2>3. WorkspaceInv'
    BY <1>21 DEF Heartbeat, WorkspaceInv, Shared, TypeOK, ReqKnown, Record
  <2>4. (EntryIsLive /\ StopInv /\ ProcsInv)'
    BY <1>21 DEF Heartbeat, EntryIsLive, StopInv, Names, ProcsInv, TypeOK, ReqKnown
  <2>5. BranchInv'
    BY <1>21, BranchUntouched DEF Heartbeat, TypeOK, Shared
  <2> QED BY <2>1, <2>2, <2>3, <2>4, <2>5
<1>22. ASSUME NEW r \in Requests, HeartbeatEnds(r) PROVE IInv'
  <2>1. (TypeOK /\ ReqKnown)'
    BY <1>22 DEF HeartbeatEnds, TypeOK, Phases, ReqKnown, Record
  <2>2. EndingsInv'
    BY <1>22 DEF HeartbeatEnds, EndingsInv, Gone, TypeOK
  <2>3. WorkspaceInv'
    BY <1>22 DEF HeartbeatEnds, WorkspaceInv, Shared, TypeOK, ReqKnown, Record
  <2>4. (EntryIsLive /\ StopInv /\ ProcsInv)'
    BY <1>22 DEF HeartbeatEnds, EntryIsLive, StopInv, Names, ProcsInv, TypeOK, ReqKnown
  <2>5. BranchInv'
    BY <1>22, BranchUntouched DEF HeartbeatEnds, TypeOK, Shared
  <2> QED BY <2>1, <2>2, <2>3, <2>4, <2>5
<1>23. ASSUME NEW p \in Repos, NEW b \in ResourceBranches, ResourceCheckout(p, b) PROVE IInv'
  <2>1. (TypeOK /\ ReqKnown)'
    BY <1>23 DEF ResourceCheckout, TypeOK, Phases, ReqKnown, Record
  <2>2. EndingsInv'
    BY <1>23 DEF ResourceCheckout, EndingsInv, Gone, TypeOK
  <2>3. WorkspaceInv'
    BY <1>23 DEF ResourceCheckout, WorkspaceInv, Shared, TypeOK, ReqKnown, Record
  <2>4. (EntryIsLive /\ StopInv /\ ProcsInv)'
    BY <1>23 DEF ResourceCheckout, EntryIsLive, StopInv, Names, ProcsInv, TypeOK, ReqKnown
  <2>5. BranchInv'
    <3>1. req' = req /\ pc' = pc
          /\ head' = [head EXCEPT ![p] = [branch |-> b, by |-> None]]
      BY <1>23 DEF ResourceCheckout
    <3>2. \A t \in Repos : head'[t].by # None => head'[t] = head[t]
      BY <3>1 DEF TypeOK
    <3>3. \A t \in Repos : head'[t].by # None => pc'[head'[t].by] # "new"
      BY <3>1, <3>2 DEF BranchInv
    <3>4. OwnBranch'
      <4> SUFFICES ASSUME NEW s \in Requests, Shared(s), req[s].branch # None,
                          pc[s] \in {"starting", "running"}, head'[Repo(s)].by # None
                   PROVE  LET h == head'[Repo(s)] IN
                          \/ h.branch = req[s].branch
                          \/ ~Shared(h.by)
                          \/ req[h.by].root # req[s].root
        BY <3>1 DEF OwnBranch, Shared, Repo
      <4>1. Repo(s) \in Repos
        BY DEF Repo, Shared, TypeOK, Record
      <4> QED BY <3>2, <4>1 DEF BranchInv, OwnBranch
    <3> QED BY <3>3, <3>4 DEF BranchInv
  <2> QED BY <2>1, <2>2, <2>3, <2>4, <2>5
<1>24. ASSUME NEW r \in Requests, ProcessDies(r) PROVE IInv'
  <2>1. (TypeOK /\ ReqKnown)'
    BY <1>24 DEF ProcessDies, TypeOK, Phases, ReqKnown, Record
  <2>2. EndingsInv'
    BY <1>24 DEF ProcessDies, EndingsInv, Gone, TypeOK
  <2>3. WorkspaceInv'
    BY <1>24 DEF ProcessDies, WorkspaceInv, Shared, TypeOK, ReqKnown, Record
  <2>4. (EntryIsLive /\ StopInv /\ ProcsInv)'
    BY <1>24 DEF ProcessDies, EntryIsLive, StopInv, Names, ProcsInv, TypeOK, ReqKnown
  <2>5. BranchInv'
    BY <1>24, BranchUntouched DEF ProcessDies, TypeOK, Shared
  <2> QED BY <2>1, <2>2, <2>3, <2>4, <2>5
<1>25. CASE UNCHANGED vars
  <2>1. (TypeOK /\ ReqKnown /\ EndingsInv /\ EntryIsLive /\ StopInv /\ ProcsInv)'
    BY <1>25 DEF vars, TypeOK, ReqKnown, EndingsInv, EntryIsLive, StopInv, Names, ProcsInv
  <2>2. WorkspaceInv'
    BY <1>25 DEF vars, WorkspaceInv, Shared
  <2>3. BranchInv'
    BY <1>25, BranchUntouched DEF vars
  <2> QED BY <2>1, <2>2, <2>3
<1> QED
  BY <1>1, <1>2, <1>3, <1>4, <1>5, <1>6, <1>7, <1>8, <1>9, <1>10, <1>11, <1>12, <1>13,
     <1>14, <1>15, <1>16, <1>17, <1>18, <1>19, <1>20, <1>21, <1>22, <1>23, <1>25,
     <1>24
  DEF Next, Work, Step

(* IInv holds in every reachable state. *)
THEOREM Invariance == Spec => []IInv
  BY InitIInv, StepIInv, PTL DEF Spec

(* Type correctness of the handler, its stops and the gate it uses. *)
THEOREM TypeCorrect == Spec => []TypeOK
  BY Invariance, PTL DEF IInv

(* One ending: a request that is not stopped ends with exactly one done or  *)
(* error on every way out of handleQARequest, and none ever ends with two.  *)
THEOREM RequestsEndOnce == Spec => []OneEnding
<1>1. IInv => OneEnding
  BY DEF IInv, TypeOK, EndingsInv, Gone, OneEnding
<1> QED BY <1>1, Invariance, PTL

(* After a done or error nothing is sent for a request but heartbeats, as   *)
(* many as their goroutine gets in before it sees the end.                  *)
THEOREM QuietAfterEnd == Spec => []NothingAfterEnding
<1>1. IInv => NothingAfterEnding
  BY DEF IInv, TypeOK, EndingsInv, NothingAfterEnding
<1> QED BY <1>1, Invariance, PTL

(* A request runs in a real workspace only while it owns the gate for it,   *)
(* gives it back on every way out, and its executor is gone by then unless  *)
(* a stop has killed it; no other request runs there with it.               *)
THEOREM WorkspaceOwned == Spec => [](OwnsWorkspace /\ OneRunPerRoot)
<1>1. IInv => OwnsWorkspace
  <2> SUFFICES ASSUME IInv, NEW r \in Requests
               PROVE  /\ Shared(r) /\ pc[r] \in {"ready", "starting", "running"} => r \in inside
                      /\ Shared(r) /\ r \in procs => r \in inside \/ r \in cancelled
                      /\ pc[r] \in {"released", "returned"} => want[r] = None
    BY DEF OwnsWorkspace
  <2> QED BY DEF IInv, WorkspaceInv, ProcsInv
<1>2. IInv => OneRunPerRoot
  <2> SUFFICES ASSUME IInv,
                      NEW r \in Requests, NEW s \in Requests, r # s, Shared(r), Shared(s),
                      pc[r] \in {"ready", "starting", "running"},
                      pc[s] \in {"ready", "starting", "running"}
               PROVE  req[r].root # req[s].root
    BY DEF OneRunPerRoot
  <2>1. r \in inside /\ s \in inside
    BY DEF IInv, WorkspaceInv
  <2>2. want[r] = req[r].root /\ want[s] = req[s].root
    BY <2>1 DEF IInv, WorkspaceInv
  <2> QED BY <2>1, <2>2 DEF IInv, WorkspaceInv
<1> QED BY <1>1, <1>2, Invariance, PTL

(* No two requests are at work in one real workspace at a time.             *)
COROLLARY OneRunAtATime == Spec => []OneRunPerRoot
  BY WorkspaceOwned, PTL

(* A request keeps its branch against every other request that goes through *)
(* the gate for the same workspace.                                         *)
THEOREM BranchKept == Spec => []OwnBranch
  BY Invariance, PTL DEF IInv, BranchInv

(* A stop cancels those whom its message names and who were in qaRunning    *)
(* when it was handled, whoever registers or returns before it cancels.     *)
THEOREM StopsAreExact == Spec => StopHitsOnlyNamed
<1> DEFINE Exact == \A r \in cancelled' \ cancelled :
                      /\ asked # None
                      /\ Names(asked.id, asked.session, r)
                      /\ \E i \in Ids : asked.holders[i] = r
<1>1. IInv /\ [Next]_vars => [Exact]_vars
  <2> SUFFICES ASSUME IInv, Next PROVE Exact
    OBVIOUS
  <2>1. cancelled' = cancelled \/ \E r \in Requests : CancelNext(r)
    BY DEF Next, Work, Step, Deliver, handleQAStop, Register, Fail, UseSnapshot,
       UseIsolated, AskForWorkspace, GateEnter, Acquired, WaitCancelled, SkipCheckout,
       Checkout, CheckoutFails, Start, Output, Finish, FinishStopped, ProcessDies,
       ReleaseWorkspace, Deregister, Heartbeat, HeartbeatEnds, ResourceCheckout, stops
  <2> QED BY <2>1 DEF CancelNext, IInv, StopInv
<1> QED BY <1>1, Invariance, PTL DEF Spec, StopHitsOnlyNamed

(* An entry of qaRunning leads to a live execution under its own id.        *)
THEOREM EntriesAreLive == Spec => []EntryIsLive
  BY Invariance, PTL DEF IInv

(* An execution loses its entry only by returning or to a later request.    *)
THEOREM EntriesStay == Spec => EntryLeavesWithItsRequest
<1> DEFINE Stays == \A i \in Ids : qaRunning[i] # None /\ qaRunning'[i] = None
                                   => pc'[qaRunning[i]] = "returned"
<1>1. IInv /\ [Next]_vars => [Stays]_vars
  <2> SUFFICES ASSUME IInv, Next, NEW i \in Ids,
                      qaRunning[i] # None, qaRunning'[i] = None
               PROVE  pc'[qaRunning[i]] = "returned"
    OBVIOUS
  <2>1. PICK r \in Requests : Register(r) \/ Deregister(r)
    BY DEF Next, Work, Step, Deliver, handleQAStop, CancelNext, Fail, UseSnapshot,
       UseIsolated,
       AskForWorkspace, GateEnter, Acquired, WaitCancelled, SkipCheckout, Checkout,
       CheckoutFails, Start, Output, Finish, FinishStopped, ProcessDies,
       ReleaseWorkspace, Heartbeat, HeartbeatEnds, ResourceCheckout
  <2>2. ~Register(r)
    BY RunnerAssumption DEF Register, IInv, TypeOK
  <2> QED BY <2>1, <2>2 DEF Deregister, Goto, IInv, TypeOK
<1> QED BY <1>1, Invariance, PTL DEF Spec, EntryLeavesWithItsRequest
=============================================================================
