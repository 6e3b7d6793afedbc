------------------------------- MODULE RunnerQA -------------------------------
(***************************************************************************)
(* QA requests on the runner (src/internal/runner/daemon.go): one goroutine *)
(* runs handleQARequest for each request the client's reader delivered; the *)
(* reader itself runs handleQAStop; a heartbeat goroutine goes with each    *)
(* request.  They share d.qaRunning, the workspace gate and, through git,   *)
(* the branch that is checked out in a repository.                          *)
(*                                                                         *)
(* The gate is used through its abstract specification, KeyedMutex, which   *)
(* WorkspaceGate implements.                                               *)
(***************************************************************************)
EXTENDS Naturals, FiniteSets

CONSTANTS Requests,          \* invocations of handleQARequest
          Inbox,             \* what a QARequest may ask for: see Record
          Ids,               \* QARequest.ID
          Sessions,          \* QARequest.SessionID
          Roots,             \* project.LocalPath joined with RepoAppPath
          Repos,             \* git repositories
          RepoOf,            \* the repository a root lies in
          Branches,
          ResourceBranches,  \* what checkout_branch resource requests ask for
          None

(* IsolatedWorkdir and AnalysisComparison tell the three kinds apart: the   *)
(* executor runs in the workspace, or elsewhere with the workspace to read, *)
(* or in a materialized snapshot.                                           *)
Record == [id : Ids \cup {None}, session : Sessions, root : Roots,
           branch : Branches \cup {None}, kind : {"shared", "isolated", "snapshot"}]

(* A stop, and who is in qaRunning when it is handled. *)
Lookup == [id : Ids \cup {None}, session : Sessions, holders : [Ids -> Requests \cup {None}]]

ASSUME RunnerAssumption ==
  /\ Inbox \subseteq Record
  /\ RepoOf \in [Roots -> Repos]
  /\ ResourceBranches \subseteq Branches
  /\ None \notin Requests \cup Inbox \cup Ids \cup Roots \cup Branches \cup Lookup

VARIABLES req,        \* what each invocation was asked, None before that
          pc,         \* where in handleQARequest it is
          qaRunning,  \* d.qaRunning: request id to execution
          cancelled,  \* executions whose cancel function a stop has called
          stop,       \* handleQAStop: the executions it still has to cancel
          asked,      \* history: the stop under way, and who was in qaRunning
                      \*          when it was handled
          want,       \* the gate: the root each invocation asked for,
          inside,     \*           and who holds its root
          head,       \* branch checked out in a repository, and by whom
          procs,      \* invocations whose executor process is alive
          beats,      \* invocations whose heartbeat goroutine runs
          endings,    \* done and error events sent for each request
          late        \* kinds of events sent after the first of them

Gate == INSTANCE KeyedMutex WITH Callers <- Requests, Keys <- Roots, NoKey <- None

gate  == <<want, inside>>
stops == <<cancelled, stop, asked>>
host  == <<head, procs>>
sends == <<endings, late>>
vars  == <<req, pc, qaRunning, stops, gate, host, beats, sends>>

(***************************************************************************)
(* new         not received                                                *)
(* delivered   `go c.onQARequest` ran; not yet in qaRunning                 *)
(* registered  in qaRunning, about to resolve project and workdir           *)
(* acquiring   in workspaceQA.acquire                                       *)
(* ready       owns the workspace or needs none; before CheckoutBranch      *)
(* starting    before the executor                                         *)
(* running     in runCodexQAExec or runClaudeQAExec                         *)
(* leaving     returned from the body: the deferred calls run, last first   *)
(* released    the workspace is released                                    *)
(* returned    all deferred calls have run                                  *)
(***************************************************************************)
Phases == {"new", "delivered", "registered", "acquiring", "ready", "starting",
           "running", "leaving", "released", "returned"}

Active(r) == pc[r] \notin {"new", "returned"}
Shared(r) == req[r] # None /\ req[r].kind = "shared"
Repo(r)   == RepoOf[req[r].root]
Goto(r, p) == pc' = [pc EXCEPT ![r] = p]

Init ==
  /\ req = [r \in Requests |-> None]
  /\ pc = [r \in Requests |-> "new"]
  /\ qaRunning = [i \in Ids |-> None]
  /\ cancelled = {} /\ stop = {} /\ asked = None
  /\ Gate!Init
  /\ head = [p \in Repos |-> [branch |-> None, by |-> None]]
  /\ procs = {}
  /\ beats = {}
  /\ endings = [r \in Requests |-> 0]
  /\ late = [r \in Requests |-> {}]

(* SendQAEvent: a lost connection is no concern of the handler's. *)
Send(r, kind) ==
  /\ endings' = IF kind = "final" THEN [endings EXCEPT ![r] = @ + 1] ELSE endings
  /\ late' = IF endings[r] > 0 THEN [late EXCEPT ![r] = @ \cup {kind}] ELSE late

-----------------------------------------------------------------------------
(* The client's reader: handleMessage *)

(* It starts a goroutine for a request, and goes on to the next message. *)
Deliver(r, m) ==
  /\ stop = {}
  /\ pc[r] = "new"
  /\ req' = [req EXCEPT ![r] = m]
  /\ Goto(r, "delivered")
  /\ UNCHANGED <<qaRunning, stops, gate, host, beats, sends>>

Names(i, s, r) == IF i # None THEN req[r].id = i ELSE req[r].session = s

(* The executions handleQAStop collects under d.mu: by request id if the    *)
(* message has one, else by session.                                        *)
Targets(i, s) ==
  {r \in Requests : req[r] # None /\ req[r].id # None /\ qaRunning[req[r].id] = r
                    /\ Names(i, s, r)}

handleQAStop(i, s) ==
  /\ stop = {}
  /\ stop' = Targets(i, s)
  /\ asked' = IF stop' = {} THEN None
              ELSE [id |-> i, session |-> s, holders |-> qaRunning]
  /\ UNCHANGED <<req, pc, qaRunning, cancelled, gate, host, beats, sends>>

(* Mutant: looks the id up again when it comes to cancel it. *)
CancelHolder(r) ==
  /\ r \in stop
  /\ stop' = stop \ {r}
  /\ cancelled' = cancelled \cup ({qaRunning[req[r].id]} \ {None})
  /\ asked' = IF stop' = {} THEN None ELSE asked
  /\ UNCHANGED <<req, pc, qaRunning, gate, host, beats, sends>>

(* It cancels them one by one after it has unlocked d.mu. *)
CancelNext(r) ==
  /\ r \in stop
  /\ stop' = stop \ {r}
  /\ cancelled' = cancelled \cup {r}
  /\ asked' = IF stop' = {} THEN None ELSE asked
  /\ UNCHANGED <<req, pc, qaRunning, gate, host, beats, sends>>

-----------------------------------------------------------------------------
(* handleQARequest *)

(* Announces the request, starts its heartbeat, enters qaRunning. *)
Register(r) ==
  /\ pc[r] = "delivered"
  /\ Send(r, "activity")
  /\ beats' = beats \cup {r}
  /\ qaRunning' = IF req[r].id = None THEN qaRunning
                  ELSE [qaRunning EXCEPT ![req[r].id] = r]
  /\ Goto(r, "registered")
  /\ UNCHANGED <<req, stops, gate, host>>

(* sendQAError, and out: no such project or workdir, a bad snapshot, an     *)
(* unknown executor.                                                        *)
Fail(r) ==
  /\ pc[r] \in {"registered", "starting"}
  /\ Send(r, "final")
  /\ Goto(r, "leaving")
  /\ UNCHANGED <<req, qaRunning, stops, gate, host, beats>>

(* The snapshot was resolved and validated; it needs no gate. *)
UseSnapshot(r) ==
  /\ pc[r] = "registered" /\ req[r].kind = "snapshot"
  /\ Send(r, "activity")
  /\ Goto(r, "ready")
  /\ UNCHANGED <<req, qaRunning, stops, gate, host, beats>>

(* Mutant: only an execution without a branch of its own takes the gate. *)
UseIsolatedForBranch(r) ==
  /\ pc[r] = "registered"
  /\ req[r].kind = "isolated" \/ (req[r].kind = "shared" /\ req[r].branch # None)
  /\ Goto(r, "ready")
  /\ UNCHANGED <<req, qaRunning, stops, gate, host, beats, sends>>

(* An isolated execution does not take the gate. *)
UseIsolated(r) ==
  /\ pc[r] = "registered" /\ req[r].kind = "isolated"
  /\ Goto(r, "ready")
  /\ UNCHANGED <<req, qaRunning, stops, gate, host, beats, sends>>

AskForWorkspace(r) ==
  /\ pc[r] = "registered" /\ req[r].kind = "shared"
  /\ Gate!Request(r, req[r].root)
  /\ Goto(r, "acquiring")
  /\ UNCHANGED <<req, qaRunning, stops, host, beats, sends>>

GateEnter(r) ==
  /\ pc[r] = "acquiring"
  /\ Gate!Enter(r)
  /\ UNCHANGED <<req, pc, qaRunning, stops, host, beats, sends>>

(* acquire returned nil; "queued" may have been announced before. *)
Acquired(r) ==
  /\ pc[r] = "acquiring"
  /\ r \in inside
  /\ Send(r, "activity")
  /\ Goto(r, "ready")
  /\ UNCHANGED <<req, qaRunning, stops, gate, host, beats>>

(* Mutant: the error of acquire is not looked at. *)
WaitCancelledRunsOn(r) ==
  /\ pc[r] = "acquiring"
  /\ r \in cancelled
  /\ Gate!GiveUp(r)
  /\ Goto(r, "ready")
  /\ UNCHANGED <<req, qaRunning, stops, host, beats, sends>>

(* Mutant: acquire waits on the client's context, which no stop cancels. *)
WaitUncancellable(r) == FALSE /\ UNCHANGED vars

(* acquire returned ctx.Err(): out, and nothing is said. *)
WaitCancelled(r) ==
  /\ pc[r] = "acquiring"
  /\ r \in cancelled
  /\ Gate!GiveUp(r)
  /\ Goto(r, "leaving")
  /\ UNCHANGED <<req, qaRunning, stops, host, beats, sends>>

NeedsCheckout(r) == req[r].branch # None /\ req[r].kind # "snapshot"

SkipCheckout(r) ==
  /\ pc[r] = "ready" /\ ~NeedsCheckout(r)
  /\ Goto(r, "starting")
  /\ UNCHANGED <<req, qaRunning, stops, gate, host, beats, sends>>

(* gitops.CheckoutBranch: the branch is current already or becomes current. *)
Checkout(r) ==
  /\ pc[r] = "ready" /\ NeedsCheckout(r)
  /\ head' = IF head[Repo(r)].branch = req[r].branch THEN head
             ELSE [head EXCEPT ![Repo(r)] = [branch |-> req[r].branch, by |-> r]]
  /\ Goto(r, "starting")
  /\ UNCHANGED <<req, qaRunning, stops, gate, procs, beats, sends>>

(* Mutant: the request runs on after the error was sent. *)
CheckoutFailsRunsOn(r) ==
  /\ pc[r] = "ready" /\ NeedsCheckout(r)
  /\ Send(r, "final")
  /\ Goto(r, "starting")
  /\ UNCHANGED <<req, qaRunning, stops, gate, host, beats>>

(* It failed, before or (in its last call, Branches) after the switch. *)
CheckoutFails(r) ==
  /\ pc[r] = "ready" /\ NeedsCheckout(r)
  /\ \/ UNCHANGED head
     \/ head' = [head EXCEPT ![Repo(r)] = [branch |-> req[r].branch, by |-> r]]
  /\ Send(r, "final")
  /\ Goto(r, "leaving")
  /\ UNCHANGED <<req, qaRunning, stops, gate, procs, beats>>

Start(r) ==
  /\ pc[r] = "starting"
  /\ Send(r, "activity")
  /\ procs' = procs \cup {r}
  /\ Goto(r, "running")
  /\ UNCHANGED <<req, qaRunning, stops, gate, head, beats>>

(* Any event of the executor's output. *)
Output(r) ==
  /\ pc[r] = "running"
  /\ Send(r, "output")
  /\ UNCHANGED <<req, pc, qaRunning, stops, gate, host, beats>>

(* Mutant: the executor is not waited for. *)
FinishUnwaited(r) ==
  /\ pc[r] = "running"
  /\ Send(r, "final")
  /\ UNCHANGED procs
  /\ Goto(r, "leaving")
  /\ UNCHANGED <<req, qaRunning, stops, gate, head, beats>>

(* The executor's one done or error; a stopped one may still get that far.  *)
(* Its process has been waited for.                                         *)
Finish(r) ==
  /\ pc[r] = "running"
  /\ Send(r, "final")
  /\ procs' = procs \ {r}
  /\ Goto(r, "leaving")
  /\ UNCHANGED <<req, qaRunning, stops, gate, head, beats>>

(* It returns without a word where it sees that it was cancelled.  Claude's *)
(* process has been waited for by then; Codex's has been killed, and may    *)
(* still be alive.                                                          *)
FinishStopped(r) ==
  /\ pc[r] = "running"
  /\ r \in cancelled
  /\ procs' = procs \/ procs' = procs \ {r}
  /\ Goto(r, "leaving")
  /\ UNCHANGED <<req, qaRunning, stops, gate, head, beats, sends>>

(* The killed process is gone. *)
ProcessDies(r) ==
  /\ r \in procs /\ pc[r] # "running"
  /\ procs' = procs \ {r}
  /\ UNCHANGED <<req, pc, qaRunning, stops, gate, head, beats, sends>>

(* releaseWorkspace, if it was deferred; it may wake a waiter. *)
ReleaseWorkspace(r) ==
  /\ pc[r] = "leaving"
  /\ IF r \in inside
     THEN Gate!Leave(r) \/ \E d \in Requests : Gate!HandOver(r, d)
     ELSE UNCHANGED gate
  /\ Goto(r, "released")
  /\ UNCHANGED <<req, qaRunning, stops, host, beats, sends>>

(* Mutant: deletes the entry of its id, whosever execution it holds. *)
DeregisterAnyone(r) ==
  /\ pc[r] = "released"
  /\ qaRunning' = IF req[r].id = None THEN qaRunning
                  ELSE [qaRunning EXCEPT ![req[r].id] = None]
  /\ Goto(r, "returned")
  /\ UNCHANGED <<req, stops, gate, host, beats, sends>>

(* Mutant: leaves its entry behind. *)
DeregisterNever(r) ==
  /\ pc[r] = "released"
  /\ Goto(r, "returned")
  /\ UNCHANGED <<req, qaRunning, stops, gate, host, beats, sends>>

(* Leaves qaRunning, unless a later request has taken over the id; then     *)
(* close(heartbeatDone) and qaCancel.                                       *)
Deregister(r) ==
  /\ pc[r] = "released"
  /\ qaRunning' = [i \in Ids |-> IF qaRunning[i] = r THEN None ELSE qaRunning[i]]
  /\ Goto(r, "returned")
  /\ UNCHANGED <<req, stops, gate, host, beats, sends>>

-----------------------------------------------------------------------------
(* sendQAHeartbeats, and the rest of the runner *)

(* A tick may win over done and ctx.Done() in the select, and one send may  *)
(* be in progress when they close.                                          *)
Heartbeat(r) ==
  /\ r \in beats
  /\ Send(r, "heartbeat")
  /\ UNCHANGED <<req, pc, qaRunning, stops, gate, host, beats>>

HeartbeatEnds(r) ==
  /\ r \in beats
  /\ r \in cancelled \/ pc[r] = "returned"
  /\ beats' = beats \ {r}
  /\ UNCHANGED <<req, pc, qaRunning, stops, gate, host, sends>>

(* A checkout_branch resource request; it has its own goroutine and does    *)
(* not take the gate.                                                       *)
ResourceCheckout(p, b) ==
  /\ head[p].branch # b
  /\ head' = [head EXCEPT ![p] = [branch |-> b, by |-> None]]
  /\ UNCHANGED <<req, pc, qaRunning, stops, gate, procs, beats, sends>>

Step(r) ==
  \/ Register(r)
  \/ Fail(r)
  \/ UseSnapshot(r)
  \/ UseIsolated(r)
  \/ AskForWorkspace(r)
  \/ GateEnter(r)
  \/ Acquired(r)
  \/ WaitCancelled(r)
  \/ SkipCheckout(r)
  \/ Checkout(r)
  \/ CheckoutFails(r)
  \/ Start(r)
  \/ Finish(r)
  \/ FinishStopped(r)
  \/ ReleaseWorkspace(r)
  \/ Deregister(r)

(* Everything but the handling of a stop. *)
Work ==
  \/ \E r \in Requests, m \in Inbox : Deliver(r, m)
  \/ \E r \in Requests : CancelNext(r)
  \/ \E r \in Requests : Step(r)
  \/ \E r \in Requests : Output(r)
  \/ \E r \in Requests : ProcessDies(r)
  \/ \E r \in Requests : Heartbeat(r)
  \/ \E r \in Requests : HeartbeatEnds(r)
  \/ \E p \in Repos, b \in ResourceBranches : ResourceCheckout(p, b)

Next ==
  \/ \E i \in Ids \cup {None}, s \in Sessions : handleQAStop(i, s)
  \/ Work

Spec == Init /\ [][Next]_vars

(* A goroutine that can go on does, and git and a cancelled executor come   *)
(* to an end.  Nothing is assumed of an executor that is not cancelled, and *)
(* a waiter is not promised the gate.                                       *)
Fairness ==
  \A r \in Requests : WF_vars(Step(r) /\ (pc[r] = "running" => r \in cancelled))

FairSpec == Spec /\ Fairness

-----------------------------------------------------------------------------
(* Types of the variables. *)
TypeOK ==
  /\ req \in [Requests -> Inbox \cup {None}]
  /\ pc \in [Requests -> Phases]
  /\ qaRunning \in [Ids -> Requests \cup {None}]
  /\ cancelled \subseteq Requests /\ stop \subseteq Requests
  /\ want \in [Requests -> Roots \cup {None}] /\ inside \subseteq Requests
  /\ asked \in Lookup \cup {None}
  /\ head \in [Repos -> [branch : Branches \cup {None}, by : Requests \cup {None}]]
  /\ procs \subseteq Requests
  /\ beats \subseteq Requests
  /\ endings \in [Requests -> Nat]
  /\ late \in [Requests -> SUBSET {"activity", "output", "final", "heartbeat"}]

(* The server hears of the end of a request once, and always, unless it has *)
(* asked for the end itself: exactly one done or error is sent on every way *)
(* out of handleQARequest, none or one if the execution was cancelled.      *)
OneEnding ==
  \A r \in Requests :
    /\ endings[r] <= 1
    /\ pc[r] \in {"leaving", "released", "returned"} /\ r \notin cancelled => endings[r] = 1

(* After done or error nothing but a heartbeat follows: the hub has closed  *)
(* the channel, and a later event would go to whoever reuses the id.        *)
NothingAfterEnding == \A r \in Requests : late[r] \subseteq {"heartbeat"}

(* A request that runs in the real workspace owns it, from before its       *)
(* checkout until its handler is done, and gives it back on every way out.  *)
(* Its executor is gone by then, unless a stop has killed it: that one may  *)
(* outlive the handler (see OneWriterPerRoot).                              *)
OwnsWorkspace ==
  \A r \in Requests :
    /\ Shared(r) /\ pc[r] \in {"ready", "starting", "running"} => r \in inside
    /\ Shared(r) /\ r \in procs => r \in inside \/ r \in cancelled
    /\ pc[r] \in {"released", "returned"} => want[r] = None

(* No two requests run in one real workspace at a time, as far as their     *)
(* handlers go.                                                             *)
OneRunPerRoot ==
  \A r, s \in Requests :
    /\ r # s /\ Shared(r) /\ Shared(s)
    /\ pc[r] \in {"ready", "starting", "running"}
    /\ pc[s] \in {"ready", "starting", "running"}
    => req[r].root # req[s].root

(* qaRunning leads to executions that can still be stopped, under their id. *)
EntryIsLive ==
  \A i \in Ids : qaRunning[i] # None =>
    LET r == qaRunning[i] IN
    req[r].id = i /\ pc[r] \notin {"new", "delivered", "returned"}

(* An execution loses its entry by returning or to a later request with its *)
(* id, never because an earlier one with that id returns.                   *)
EntryLeavesWithItsRequest ==
  [][\A i \in Ids : qaRunning[i] # None /\ qaRunning'[i] = None
                      => pc'[qaRunning[i]] = "returned"]_vars

(* A stop cancels those whom its message names, by request id or else by    *)
(* session, and who were in qaRunning when it was handled: not the siblings *)
(* in the session (workspace_gate_test.go:61), and not whoever has taken    *)
(* the id over since, while handleQAStop was between its lookup and its     *)
(* calls of cancel.                                                         *)
StopHitsOnlyNamed ==
  [][\A r \in cancelled' \ cancelled :
       /\ asked # None
       /\ Names(asked.id, asked.session, r)
       /\ \E i \in Ids : asked.holders[i] = r]_vars

(* While a request runs in the real workspace, its branch stays checked out *)
(* as far as the other requests for that workspace are concerned.           *)
OwnBranch ==
  \A r \in Requests :
    Shared(r) /\ req[r].branch # None /\ pc[r] \in {"starting", "running"} =>
      LET h == head[Repo(r)] IN
      \/ h.branch = req[r].branch
      \/ h.by = None
      \/ ~Shared(h.by)
      \/ req[h.by].root # req[r].root

(* A stop does not linger: a cancelled request returns, whether it is queued *)
(* behind another, in git or in its executor (workspace_gate.go:36).  Both  *)
(* are for good, so that it is enough to come true again and again.         *)
StopEndsRun ==
  \A r \in Requests : []<>(r \in cancelled => pc[r] = "returned")

(* "serializes operations that can checkout or write the same real          *)
(* workspace" (workspace_gate.go:9): there is one executor at a time that   *)
(* may write in a workspace.                                                *)
OneWriterPerRoot ==
  \A r, s \in procs : r # s /\ Shared(r) /\ Shared(s) => req[r].root # req[s].root
=============================================================================
