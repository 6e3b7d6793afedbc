------------------------------ MODULE CloudRuns -------------------------------
(***************************************************************************)
(* Runs that the runner fetches from the server and executes in tmux:       *)
(* src/internal/runner/cloud_daemon.go over cloud_client.go.                *)
(*                                                                         *)
(* One goroutine polls and claims; it sends into `sem`, a channel with room *)
(* for Cap executions.  Each execution starts tmux, whose script writes the *)
(* terminal log, then the exit file, then becomes a shell; waitRunTerminal  *)
(* watches the exit file and the session, and a goroutine uploads the log.  *)
(*                                                                         *)
(* tmux, the exit file and the log outlive the process; sem, running and    *)
(* the executions do not.  Every HTTP call may fail before or after the     *)
(* server has acted.                                                        *)
(***************************************************************************)
EXTENDS Integers, FiniteSets

CONSTANTS Runs,         \* runs of the server; one tmux session and directory each
          Regranted,    \* runs the server grants to their runner a second time
          Execs,        \* identities of executeRun goroutines, reused
          Cap,          \* cap(d.sem), cfg.MaxConcurrentRuns
          MaxLines,     \* bound: lines of the terminal log of each run
          MaxLives,     \* bound: starts of the process
          None

ASSUME CloudAssumption ==
  /\ Regranted \subseteq Runs
  /\ IsFiniteSet(Execs)
  /\ Cap \in Nat \ {0} /\ MaxLines \in [Runs -> Nat] /\ MaxLives \in Nat
  /\ None \notin Runs \cup Execs

VARIABLES poll,      \* the polling goroutine: "down" when there is no process
          offer,     \* what is left of the list it is going through
          claimed,   \* the run it has claimed and not started
          lives,
          pc, run,   \* the executions and their runs
          failed,    \* execErr # nil
          blank,     \* ReadFile of the exit file gave nothing
          code,      \* how the executor that an execution started exited
          running,   \* keys of d.running
          shared,     \* history: runs whose files an execution shared with another
                     \* one, or with a session that was left behind
          tail, off, \* tailRunTerminalLog of an execution, and its offset
          missed,    \* history: tails that did not upload all they went past
          sess,      \* session of a run: state, and the execution that started it
          exit,      \* executor.exit
          log,       \* lines in terminal.log
          server     \* what the server holds of a run

pollVars == <<poll, offer, claimed, lives, server>>
execVars == <<pc, run, failed, blank, running, shared>>
tailVars == <<tail, off, missed>>
diskVars == <<sess, exit, log, code>>
vars == <<pollVars, execVars, tailVars, diskVars>>

(***************************************************************************)
(* prepare   before setRuntime              launch   files reset, before   *)
(* start     before the files are reset               tmux new-session     *)
(* wait      between two ticks              read     the exit file exists  *)
(* probe     it does not                    report   before SendResult     *)
(* clear     before clearRuntime            release  before <-d.sem        *)
(***************************************************************************)
Phases == {"free", "prepare", "start", "launch", "wait", "read", "probe",
           "report", "clear", "release"}
Waiting == {"wait", "read", "probe"}

Slots      == {e \in Execs : pc[e] # "free"}      \* len(d.sem)
HasSlot    == Cardinality(Slots) < Cap
Goto(e, p) == pc' = [pc EXCEPT ![e] = p]
Alive(r)   == sess[r].st # "none"
NoSession  == [st |-> "none", by |-> None]

Init ==
  /\ poll = "down" /\ offer = {} /\ claimed = None /\ lives = 0
  /\ pc = [e \in Execs |-> "free"] /\ run = [e \in Execs |-> None]
  /\ failed = [e \in Execs |-> FALSE] /\ blank = [e \in Execs |-> FALSE]
  /\ code = [e \in Execs |-> "none"]
  /\ running = {} /\ shared = {}
  /\ tail = [e \in Execs |-> "off"] /\ off = [e \in Execs |-> 0] /\ missed = {}
  /\ sess = [r \in Runs |-> NoSession]
  /\ exit = [r \in Runs |-> "absent"] /\ log = [r \in Runs |-> 0]
  /\ server = [r \in Runs |-> "queued"]
-----------------------------------------------------------------------------
(* The process *)

(* RunContext, when Register succeeds; without it nothing is polled. *)
Start ==
  /\ poll = "down" /\ lives < MaxLives
  /\ poll' = "idle" /\ lives' = lives + 1
  /\ UNCHANGED <<offer, claimed, server, execVars, tailVars, diskVars>>

(* The process ends: killed, or by RunContext of either daemon returning.   *)
(* Executions have a context of their own and are not waited for.           *)
Stop ==
  /\ poll # "down"
  /\ poll' = "down" /\ offer' = {} /\ claimed' = None
  /\ pc' = [e \in Execs |-> "free"] /\ run' = [e \in Execs |-> None]
  /\ failed' = [e \in Execs |-> FALSE] /\ blank' = [e \in Execs |-> FALSE]
  /\ code' = [e \in Execs |-> "none"]
  /\ running' = {} /\ shared' = {}
  /\ tail' = [e \in Execs |-> "off"] /\ off' = [e \in Execs |-> 0] /\ missed' = {}
  /\ sess' = [r \in Runs |-> [sess[r] EXCEPT !.by = None]]
  /\ UNCHANGED <<lives, exit, log, server>>
-----------------------------------------------------------------------------
(* pollOnce *)

(* The server offers what is not over; line 104 expects runs among them     *)
(* that are under way.                                                      *)
PollRuns ==
  /\ poll = "idle" /\ HasSlot
  /\ \E rs \in SUBSET {r \in Runs : server[r] \in {"queued", "claimed"}} :
        /\ rs # {} /\ offer' = rs
  /\ poll' = "list"
  /\ UNCHANGED <<claimed, lives, server, execVars, tailVars, diskVars>>

(* The list is done, or there is no room for more. *)
EndPoll ==
  /\ poll = "list"
  /\ offer = {} \/ ~HasSlot
  /\ poll' = "idle" /\ offer' = {}
  /\ UNCHANGED <<claimed, lives, server, execVars, tailVars, diskVars>>

(* A run of the list is passed over: it is running here, or the claim or    *)
(* its answer is lost, or the server refuses.                               *)
PassOver(r) ==
  /\ poll = "list" /\ r \in offer /\ HasSlot
  /\ offer' = offer \ {r}
  /\ \/ UNCHANGED server
     \/ /\ r \notin running /\ server[r] = "queued"
        /\ server' = [server EXCEPT ![r] = "claimed"]
  /\ UNCHANGED <<poll, claimed, lives, execVars, tailVars, diskVars>>

(* Mutant: pollOnce claims without a second look at the slots. *)
EagerClaim(r) ==
  /\ poll = "list" /\ r \in offer
  /\ r \notin running
  /\ server[r] = "queued" \/ (server[r] = "claimed" /\ r \in Regranted)
  /\ server' = [server EXCEPT ![r] = "claimed"]
  /\ offer' = offer \ {r}
  /\ poll' = "send" /\ claimed' = r
  /\ UNCHANGED <<lives, execVars, tailVars, diskVars>>

Claim(r) ==
  /\ poll = "list" /\ r \in offer /\ HasSlot
  /\ r \notin running
  /\ server[r] = "queued" \/ (server[r] = "claimed" /\ r \in Regranted)
  /\ server' = [server EXCEPT ![r] = "claimed"]
  /\ offer' = offer \ {r}
  /\ poll' = "send" /\ claimed' = r
  /\ UNCHANGED <<lives, execVars, tailVars, diskVars>>

(* d.sem <- struct{}{}, which blocks when there is no slot; go executeRun. *)
Spawn(e) ==
  /\ poll = "send" /\ HasSlot
  /\ pc[e] = "free" /\ run[e] = None
  /\ Goto(e, "prepare")
  /\ run' = [run EXCEPT ![e] = claimed]
  /\ shared' = IF Alive(claimed) \/ claimed \in {run[f] : f \in Execs}
              THEN shared \cup {claimed} ELSE shared
  /\ poll' = "list" /\ claimed' = None
  /\ UNCHANGED <<offer, lives, server, failed, blank, running, tailVars, diskVars>>
-----------------------------------------------------------------------------
(* executeRun and runExecutor *)

(* A failed event or a result, which says failed or completed as failed[e]  *)
(* does.  It is sent once, and an error of doJSON at most logged.           *)
Upload(r) ==
  \/ UNCHANGED server
  \/ /\ server[r] \in {"queued", "claimed"}
     /\ server' = [server EXCEPT ![r] = "over"]

(* No project, run directory or workdir: an event, no result. *)
Refuse(e) ==
  /\ pc[e] = "prepare"
  /\ Upload(run[e])
  /\ Goto(e, "release")
  /\ UNCHANGED <<poll, offer, claimed, lives, run, failed, blank, running, shared, tailVars, diskVars>>

Register(e) ==
  /\ pc[e] = "prepare"
  /\ running' = running \cup {run[e]}
  /\ Goto(e, "start")
  /\ UNCHANGED <<pollVars, run, failed, blank, shared, tailVars, diskVars>>

(* No such executor, or the prompt cannot be written. *)
NoExecutor(e) ==
  /\ pc[e] = "start"
  /\ failed' = [failed EXCEPT ![e] = TRUE]
  /\ Goto(e, "report")
  /\ UNCHANGED <<pollVars, run, blank, running, shared, tailVars, diskVars>>

(* Mutant: runExecutor leaves the exit file of an earlier execution. *)
KeepExitFile(e) ==
  /\ pc[e] = "start"
  /\ log' = [log EXCEPT ![run[e]] = 0]
  /\ Goto(e, "launch")
  /\ UNCHANGED <<pollVars, run, failed, blank, running, shared, tailVars, sess, exit, code>>

ResetFiles(e) ==
  /\ pc[e] = "start"
  /\ exit' = [exit EXCEPT ![run[e]] = "absent"]
  /\ log' = [log EXCEPT ![run[e]] = 0]
  /\ Goto(e, "launch")
  /\ UNCHANGED <<pollVars, run, failed, blank, running, shared, tailVars, sess, code>>

(* new-session fails when the session exists, or for a reason of its own. *)
LaunchFails(e) ==
  /\ pc[e] = "launch"
  /\ failed' = [failed EXCEPT ![e] = TRUE]
  /\ Goto(e, "report")
  /\ UNCHANGED <<pollVars, run, blank, running, shared, tailVars, diskVars>>

(* new-session, setRuntime, and go tailRunTerminalLog. *)
Launch(e) ==
  /\ pc[e] = "launch" /\ ~Alive(run[e])
  /\ sess' = [sess EXCEPT ![run[e]] = [st |-> "busy", by |-> e]]
  /\ running' = running \cup {run[e]}
  /\ tail' = [tail EXCEPT ![e] = "on"] /\ off' = [off EXCEPT ![e] = 0]
  /\ missed' = missed \ {e}
  /\ Goto(e, "wait")
  /\ UNCHANGED <<pollVars, run, failed, blank, shared, exit, log, code>>

(* waitRunTerminal: a tick looks for the exit file ... *)
Tick(e) ==
  /\ pc[e] = "wait"
  /\ Goto(e, IF exit[run[e]] = "absent" THEN "probe" ELSE "read")
  /\ UNCHANGED <<pollVars, run, failed, blank, running, shared, tailVars, diskVars>>

(* ... and, as errors of ReadFile and Atoi are dropped, takes an empty or   *)
(* vanished one for a zero.  close(tailDone) comes with the return.         *)
ReadExit(e) ==
  /\ pc[e] = "read"
  /\ failed' = [failed EXCEPT ![e] = exit[run[e]] = "nonzero"]
  /\ blank' = [blank EXCEPT ![e] = exit[run[e]] \in {"absent", "empty"}]
  /\ tail' = [tail EXCEPT ![e] = "stop"]
  /\ Goto(e, "report")
  /\ UNCHANGED <<pollVars, run, running, shared, off, missed, diskVars>>

(* Mutant: waitRunTerminal returns nil when the session is gone. *)
ForgivingProbe(e) ==
  /\ pc[e] = "probe"
  /\ IF Alive(run[e])
     THEN Goto(e, "wait") /\ UNCHANGED tail
     ELSE /\ tail' = [tail EXCEPT ![e] = "stop"]
          /\ Goto(e, "report")
  /\ UNCHANGED <<pollVars, run, failed, blank, running, shared, off, missed, diskVars>>

(* Mutant: waitRunTerminal looks at the exit file only. *)
TrustingProbe(e) ==
  /\ pc[e] = "probe"
  /\ Goto(e, "wait")
  /\ UNCHANGED <<pollVars, run, failed, blank, running, shared, tailVars, diskVars>>

(* Without an exit file, has-session decides whether to go on.  Whatever    *)
(* its error, the terminal counts as closed, also when it is not.           *)
Probe(e) ==
  /\ pc[e] = "probe"
  /\ \/ Alive(run[e]) /\ Goto(e, "wait") /\ UNCHANGED <<failed, tail>>
     \/ /\ failed' = [failed EXCEPT ![e] = TRUE]
        /\ tail' = [tail EXCEPT ![e] = "stop"]
        /\ Goto(e, "report")
  /\ UNCHANGED <<pollVars, run, blank, running, shared, off, missed, diskVars>>

SendResult(e) ==
  /\ pc[e] = "report"
  /\ Upload(run[e])
  /\ Goto(e, "clear")
  /\ UNCHANGED <<poll, offer, claimed, lives, run, failed, blank, running, shared, tailVars, diskVars>>

(* The deferred calls. *)
clearRuntime(e) ==
  /\ pc[e] = "clear"
  /\ running' = running \ {run[e]}
  /\ Goto(e, "release")
  /\ UNCHANGED <<pollVars, run, failed, blank, shared, tailVars, diskVars>>

Release(e) ==
  /\ pc[e] = "release"
  /\ Goto(e, "free")
  /\ failed' = [failed EXCEPT ![e] = FALSE] /\ blank' = [blank EXCEPT ![e] = FALSE]
  /\ code' = [code EXCEPT ![e] = "none"]
  /\ sess' = [r \in Runs |-> IF sess[r].by = e THEN [sess[r] EXCEPT !.by = None] ELSE sess[r]]
  /\ run' = [run EXCEPT ![e] = IF tail[e] = "off" THEN None ELSE @]
  /\ UNCHANGED <<pollVars, running, shared, tailVars, exit, log>>

(* tailRunTerminalLog: readNew goes from the offset to the end of the file; *)
(* an offset past the end stays.                                            *)
readNew(e) ==
  /\ off' = [off EXCEPT ![e] = IF log[run[e]] > @ THEN log[run[e]] ELSE @]
  /\ UNCHANGED missed

(* A line whose SendLog fails is passed over all the same, and the scanner  *)
(* stops behind the first megabyte of a longer line.                        *)
readSome(e) ==
  \E n \in (off[e] + 1)..log[run[e]] :
    off' = [off EXCEPT ![e] = n] /\ missed' = missed \cup {e}

(* The log cannot be opened. *)
readNone(e) ==
  /\ missed' = IF log[run[e]] > off[e] THEN missed \cup {e} ELSE missed
  /\ UNCHANGED off

TailTick(e) ==
  /\ tail[e] \in {"on", "stop"}
  /\ log[run[e]] > off[e]
  /\ readNew(e) \/ readSome(e)
  /\ UNCHANGED <<pollVars, execVars, tail, diskVars>>

(* Mutant: the tail returns without the last readNew. *)
HastyTailEnd(e) ==
  /\ tail[e] = "stop"
  /\ tail' = [tail EXCEPT ![e] = "off"]
  /\ run' = [run EXCEPT ![e] = IF pc[e] = "free" THEN None ELSE @]
  /\ UNCHANGED <<pollVars, pc, failed, blank, running, shared, off, missed, diskVars>>

(* Told to stop, it reads once more. *)
TailEnd(e) ==
  /\ tail[e] = "stop"
  /\ readNew(e) \/ readSome(e) \/ readNone(e)
  /\ tail' = [tail EXCEPT ![e] = "off"]
  /\ run' = [run EXCEPT ![e] = IF pc[e] = "free" THEN None ELSE @]
  /\ UNCHANGED <<pollVars, pc, failed, blank, running, shared, diskVars>>
-----------------------------------------------------------------------------
(* The session: the script of buildTmuxExecutorScript, and its user *)

Script(r, from, to) ==
  /\ sess[r].st = from
  /\ sess' = [sess EXCEPT ![r].st = to]
  /\ UNCHANGED <<pollVars, execVars, tailVars, log>>

(* tee -a *)
Output(r) ==
  /\ sess[r].st = "busy" /\ log[r] < MaxLines[r]
  /\ log' = [log EXCEPT ![r] = @ + 1]
  /\ UNCHANGED <<pollVars, execVars, tailVars, sess, exit, code>>

(* The pipeline, executor and tee, is over. *)
Finish(r) ==
  \E c \in {"zero", "nonzero"} :
    /\ Script(r, "busy", "over")
    /\ code' = IF sess[r].by = None THEN code ELSE [code EXCEPT ![sess[r].by] = c]
    /\ UNCHANGED exit

(* The redirection creates the file ... *)
CreateExit(r) ==
  /\ Script(r, "over", "writing")
  /\ exit' = [exit EXCEPT ![r] = "empty"]
  /\ UNCHANGED code

(* ... and printf fills it, unless it has been unlinked.  The exit code of  *)
(* an executor left by an earlier life is any.                              *)
WriteExit(r) ==
  /\ Script(r, "writing", "shell")
  /\ IF exit[r] # "empty" THEN UNCHANGED exit
     ELSE \E c \in {"zero", "nonzero"} :
            /\ sess[r].by # None => c = code[sess[r].by]
            /\ exit' = [exit EXCEPT ![r] = c]
  /\ UNCHANGED code

(* The user leaves the shell, or the session is killed. *)
Close(r) ==
  /\ Alive(r)
  /\ sess' = [sess EXCEPT ![r] = NoSession]
  /\ UNCHANGED <<pollVars, execVars, tailVars, exit, log, code>>
-----------------------------------------------------------------------------
Poller == PollRuns \/ EndPoll
            \/ \E r \in Runs : PassOver(r) \/ Claim(r)
            \/ \E e \in Execs : Spawn(e)
Execution(e) == Refuse(e) \/ Register(e) \/ NoExecutor(e) \/ ResetFiles(e)
            \/ LaunchFails(e) \/ Launch(e) \/ Tick(e) \/ ReadExit(e) \/ Probe(e)
            \/ SendResult(e) \/ clearRuntime(e) \/ Release(e)
Tail(e)    == TailTick(e) \/ TailEnd(e)
Session(r) == Output(r) \/ Finish(r) \/ CreateExit(r) \/ WriteExit(r) \/ Close(r)

Next == Start \/ Stop \/ Poller
          \/ \E e \in Execs : Execution(e) \/ Tail(e)
          \/ \E r \in Runs : Session(r)

(* An execution that can go on does, and the shell goes through its script; *)
(* that an executor comes to an end is not assumed, and of the poll loop    *)
(* and the tails nothing is needed.                                         *)
Fairness ==
  /\ \A e \in Execs : WF_vars(Execution(e))
  /\ \A r \in Runs : WF_vars(CreateExit(r) \/ WriteExit(r))

Spec == Init /\ [][Next]_vars
FairSpec == Spec /\ Fairness
-----------------------------------------------------------------------------
TypeOK ==
  /\ poll \in {"down", "idle", "list", "send"}
  /\ offer \subseteq Runs /\ claimed \in Runs \cup {None} /\ lives \in 0..MaxLives
  /\ pc \in [Execs -> Phases] /\ run \in [Execs -> Runs \cup {None}]
  /\ failed \in [Execs -> BOOLEAN] /\ blank \in [Execs -> BOOLEAN]
  /\ code \in [Execs -> {"none", "zero", "nonzero"}]
  /\ running \subseteq Runs /\ shared \subseteq Runs
  /\ tail \in [Execs -> {"off", "on", "stop"}] /\ off \in [Execs -> Nat]
  /\ missed \subseteq Execs
  /\ sess \in [Runs -> [st : {"none", "busy", "over", "writing", "shell"},
                        by : Execs \cup {None}]]
  /\ exit \in [Runs -> {"absent", "empty", "zero", "nonzero"}]
  /\ log \in [Runs -> Nat]
  /\ server \in [Runs -> {"queued", "claimed", "over"}]

(* The poll loop, which also sends the heartbeats, never blocks in the send *)
(* to sem: the slot it saw before the claim is still there after it.        *)
PollNeverBlocks == poll = "send" => HasSlot

(* An execution goes on, and keeps its slot, until the executor it started  *)
(* is over, also when files of an earlier execution were left behind.  The  *)
(* one exception: a probe that found no terminal, before there was an exit  *)
(* file, gives up, and calls the execution failed.                          *)
WorkHoldsSlot ==
  \A r \in Runs \ shared : sess[r].st = "busy" /\ sess[r].by # None =>
    LET e == sess[r].by
    IN /\ run[e] = r
       /\ pc[e] \in Waiting \/ (failed[e] /\ exit[r] = "absent")

(* A result says completed only of an execution whose own executor exited   *)
(* with zero, or whose exit file was read before its content was there.     *)
CompletedIsTrue ==
  \A e \in Execs : pc[e] = "report" /\ ~failed[e] /\ run[e] \notin shared =>
    code[e] = "zero" \/ blank[e]

(* When a tail ends, which nobody waits for, it has gone through the log to *)
(* its end and uploaded every line, unless a SendLog, a read or too long a  *)
(* line made it miss some; and the executor writes no more, unless it was   *)
(* given up.                                                                *)
TailComplete ==
  [][\A e \in Execs : tail[e] = "stop" /\ tail'[e] = "off" /\ poll' # "down" =>
       \/ run[e] \in shared
       \/ e \in missed'
       \/ /\ off'[e] = log[run[e]]
          /\ sess[run[e]].st = "busy" /\ sess[run[e]].by = e => failed[e]]_vars

(* An execution whose executor is over, or was killed with its session,     *)
(* gives its slot back.                                                     *)
ExecutionEnds ==
  \A e \in Execs :
    <>[](pc[e] \notin Waiting \/ sess[run[e]].st # "busy")
      => []<>(pc[e] = "free" \/ run[e] \in shared)
-----------------------------------------------------------------------------
=============================================================================
