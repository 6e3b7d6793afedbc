# fixforge-client in TLA+

fixforge-client runs coding agents (Codex, Claude) on a developer's machine on
behalf of a server. This directory holds its TLA+ specifications, the TLC
configurations that check them on small instances, and proofs for TLAPS.

    tlc -workers 2 -config MCWorkspaceGate.cfg MCWorkspaceGate
    tlapm WorkspaceGateProofs.tla

## The system

The server embeds a **Hub** (`internal/runner/hub.go`). A runner connects to it
with a **Client** over one WebSocket; the server asks it to answer questions
(QA), to open terminals and to read or change resources of a repository. On the
runner, a **Daemon** handles these requests, each in a goroutine of its own; a
**CloudDaemon** polls the server over HTTP for runs, beside it.

| component | source | state | operations | what makes it correct |
|---|---|---|---|---|
| workspace gate | `workspace_gate.go` | map from workspace to counted lock | acquire, release, releaseRef | exclusion, no leak, no lost wake-up, cancellable |
| QA requests | `daemon.go` 108-311, `qa_*_exec.go` | `qaRunning`, contexts, gate, branch | handleQARequest, handleQAStop, heartbeats | one end each, own workspace, exact stops |
| QA routing | `hub.go` | `conns`, `qaCh`, `qaConn` | Register, Unregister, StartQA, cleanup, handleQAEvent | closed once, after the last event, never forgotten |
| terminal routing, resource RPC | `hub.go` | `terminalCh`, `pending` | OpenTerminal, Close, SendResourceRequest | closed once, answers to the right caller |
| client connection | `client.go` | `conn`, `stopCh` | Connect, readLoop, writeJSON, Stop | auth first, reconnect, no write on a dead connection |
| terminal attachments | `daemon.go` 313-411, `internal/terminal` | `terminalAtt`, `Registry`, `Attachment` | open, input, resize, close | no deadlock, no leaked attachment |
| executor pipelines | `qa_codex_exec.go`, `qa_claude_exec.go`, `qa_terminal_output.go` | pipes, events channel, frame numbers | readers, pump, wait | all output before the end, no stuck goroutine |
| cloud daemon | `cloud_daemon.go`, `cloud_client.go` | `sem`, `running`, run directory | pollOnce, executeRun, waitRunTerminal | never blocked, slot kept while working, true result, whole log |
| git resources | `gitops/resources.go`, `daemon.go` 450-690 | the repository | checkout, commit, merge, pull, push, stash, restore, delete | only what was selected is committed or lost |
| analysis snapshots | `gitops/analysis.go`, `analysis_snapshot.go` | snapshot directories | select, create, validate, read a source | a snapshot is what was compared, complete, or absent |
| openspec | `openspec/resources.go` | change directories | create, save, archive | nothing half made |
| update | `update.go` | binary, service | download, stop, replace, start | the service runs afterwards |
| others | config, MCP bridge, services, code visualizer, logs, CLI | files | sequential | not modelled, see below |

How they interact: the Hub's StartQA sends a `qa_request` over a connection; the
Client's reader starts `handleQARequest`, which enters `qaRunning`, takes the
gate, checks a branch out, runs an executor and sends events; the Hub's reader
moves each event into the channel of its request. A `qa_stop` is handled inline
by the Client's reader. Hub and Runner share nothing but the connection, which
may drop at any time; requests survive that, their events do not.

What is hard here is concurrency: goroutines per request, callbacks under locks,
lookups under one lock and uses under another, ids that a server may reuse,
contexts that are cancelled while something waits, a connection that drops and
comes back, channels that fill. `PROJECT.json` lists each such place under
"hazards" with the properties that watch it.

## The modules

`KeyedMutex` — the abstract specification of the gate: one lock per workspace;
a caller asks, gets it or gives up, and gives it back, perhaps straight to
another caller.

`WorkspaceGate` — `workspace_gate.go`. A critical section of `g.mu` is one
step; each `select` and the receive of `release` is a step of its own, on the
lock object the caller has looked up (`obj`), which may have left the map by
then. `sem` and `sendq` are a Go channel of capacity one: parked senders queue
in FIFO order and a receive completes the first one's send. Lock objects have
identities that may be reused once unreachable, so a second object for the same
workspace is a state the model can express. `done` is the caller's context.

`EventStream` — the abstract specification of what `StartQA` promises its
consumer: bounded streams addressed by request id. An id leads to the last stream
opened under it; a stream takes events while it is open, is closed once, behind a
done or error if it had one, and the one who reads it may leave.

`HubQA` — the QA half of `hub.go`. `ws` says where `HandleRunnerWS` is for each
connection: reading, having run `Unregister`, having closed the socket. StartQA
is split where it unlocks: `LookupConn`, `OpenRoute`, `SendRequest` or
`SendFails`, `CleanupFailed`. A channel is its buffered events and the number of
times it was closed; `handleQAEvent` drops terminal frames above three quarters
and everything when full. A send may fail on a connection that lives, as it has
ten seconds, and the runner may have the request all the same. `overtaken` keeps
which calls have lost their route to a later one. The consumer and the runner are
external: a consumer receives, and leaves when it likes; a runner survives
reconnections and ends each request with one done or error, which is gone if
there is no connection.

`RunnerQA` — `handleQARequest` in the order of the code: announce, register,
resolve, snapshot or gate or neither, checkout, executor, and the deferred calls
in reverse. `handleQAStop` collects under the lock and cancels afterwards, while
everything else goes on; the client's reader is busy with it meanwhile, so no
request is delivered. `head` is the branch of each *repository*, because git
has one per clone, whereas the gate has a key per *root* (clone and app path).
The gate is used through `INSTANCE KeyedMutex`, which `WorkspaceGate` is shown
to implement. `procs` holds the requests whose executor process is alive: it is
waited for when the executor ends by itself, and may outlive the handler of a
stopped Codex run. `asked` is the stop under way with the content of `qaRunning`
when it was handled. `MCRunnerQAStop` adds a history of the requests that a stop
named and did not find.

`TerminalAttach` — `daemon.go` 313-411 over `internal/terminal`. An open is a
goroutine: resolve, launch a tmux session when the probe finds none, spawn
`tmux attach`, store the attachment under the id of the message. A probe may miss
a session that is there, and `launch` probes again. `terminalMu` is
a variable (`mu`) because an open that replaces an attachment keeps it while it
waits in `Close`. `loop` is the read loop of each attachment: reading, failed
(and the server told), done. `reader` is the client's reader, which runs the
handlers of input, resize and close itself. tmux sessions die when they like.
The server may use an id again when it has closed the terminal with it, or was
told that it is closed. The registry's cache of terminals is left out: it only
saves a probe.

`Connection` — the client's connect loop (`client.go`) with the Hub's handler of
a runner (`hub.go` 285-420), and the two conversations besides QA: resource
calls with their timeout, and the Hub's half of terminals. `wire` is one socket:
messages each way, which end has closed it, and whether it died silently. A
write on a socket the other end closed may still succeed; one that fails has not
delivered its message, as part of a frame is none. The server may refuse a token
or fail to look it up. `client.mine` is the
`conn` of the loop's iteration, `client.conn` the shared field that every writer
uses: it is published before the authentication is sent, so that the event of a
running request can overtake it and make the Hub refuse the connection. Pings
are modelled by what they achieve: a silently dead connection is noticed.

`CloudRuns` — `cloud_daemon.go`: the polling goroutine, `sem`, `executeRun`,
`waitRunTerminal`, the tail of the log, and the script that tmux runs. tmux, the
exit file and the log survive the process, `sem` and `running` do not. Every
HTTP call may fail before or after the server has acted. The server may grant a
run to its runner again (`Regranted`); `shared` marks runs whose files two
executions or an old session have then used. Any probe of a session may fail. A
read of the log may pass lines over or fail, which `missed` records.

`ExecutorPipeline` — one run of Codex or of Claude: child process, two pipes that
`cmd.Wait` closes drained or not, two readers that number frames under a lock
and send them outside it, the bounded `events` channel, the handler, and how the
answer is put together at the end. A reader may meet a line its scanner does not
take, and stops there while the process runs on.

`GitResources` — the resource requests that change a repository, one git command
per action, because no lock is taken and two requests interleave between any two
commands. The repository is one record and git itself a set of operators on it:
a file content is a version, named for its writer. A query whose error the code
takes for a no may be answered with no (`CurrentForM`); a push may be accepted
and fail; files that git ignores and does not track (`Hidden`) are overwritten
without a word. `AnalysisSnapshot` extends it
with `git_create_analysis_snapshot`, which copies a locked comparison while the
other requests go on, and `git_analysis_source`, which reads a file of it.
Initial states are those of the selections that `ResolveAnalysisSelection`
answers. `git show` may fail for any reason, and a removal may leave the directory
or an empty one.

Every module is given values for TLC by the module of its name with `MC` in
front; `MCAnalysisSnapshot` does it for `GitResources`, too.
The theorems are in modules of the name with `Proofs` behind.

Definitions whose comment says "Mutant" or "not the code" are wrong on purpose:
each is the bug that one property is there to find, and no specification uses
them.

## The runs

| run | what it asks | instance | result |
|---|---|---|---|
| workspace_gate | exclusion, exact map and counts, no lost wake-up, no barging, cancellation, service, refinement of KeyedMutex | 3 callers, 2 workspaces, one under two spellings, 4 lock identities; 74,136 states | holds |
| hub_qa | no panic, no abandoned stream, done or error before the close, frames leave room, refinement of EventStream | 2 calls of one id, 2 connections, channel of 2, 2 events and an end per call; 771,314 states | holds |
| runner_qa | one ending, ownership, live entries, exact stops, stops take effect | 2 invocations of any of 4 requests that share ids, sessions, a root and a clone; 719,794 states | holds |
| runner_qa_stop | a stop reaches what it names (`daemon.go:123`) | 2 requests in 2 workspaces of one clone | violated |
| runner_qa_dying | one executor at a time may write in a workspace (`workspace_gate.go:9`) | as runner_qa | violated |
| terminal_attach | no orphaned attachment, the reader comes back, while no two live terminals share an id | 3 opens on one session, 2 with one id, 1 for a run; 144,748 states | holds |
| terminal_reuse | the message loop runs (`client.go:108`, `client.go:153`), whatever the ids | as above | violated |
| connection | the runner comes back to a connection the Hub serves; the Hub's maps hold what is waited for | 1 call, 1 terminal, 5 connections, 1 fault, 1 event; 407,123 states | holds |
| cloud_runs | the poll loop never blocks, slots are kept and given back, completed is true, a log is whole unless its tail missed something | 2 runs, one granted again, 1 slot, 2 lives, 1 line of log of the run granted again; 715,975 states | holds |
| executor_pipeline | nothing left behind, the answer is the last message, frames without gaps, the handler returns | both executors, 6 kinds of line, 3 on stdout, 1 on stderr, channel and pipes of 1; 1,040,146 states | holds |
| git_resources | selected files only, merges are there, nothing lost but ignored files, history grows, a snapshot nobody disturbed is what was locked | 2 requests of any of 17 kinds, 2 branches, 3 files, one of them ignored, 2 edits; 1,738,410 states | holds |
| git_source | a file of the workspace is read as it was locked (`analysis.go:222-224`) | 1 reading and 1 edit | violated |

The bounds. Two callers contend and a third arrives while they do: that is what
barging, queue order and a deletion under a waiting caller need; four lock
identities exceed the objects three callers can hold. A channel of two is the
smallest that has a place for frames and one they may not take; `MaxEvents`
fills it, so that a done or error meets it full. Two calls of one id are what take-over needs, and two connections what a
reconnection needs. Two requests are enough for every property of RunnerQA,
which all speak of a pair at most, and the theorems do away with the bound.
`MCHubQA` uses symmetry of calls and connections, as hub_qa has no liveness.
`RunnerQA` counts no event but endings, so it needs no bound on output. Two opens
of one id are what a replacement needs, the third contends for `terminalMu`.

`Connection` needs one connection more than faults, refusals and one message
each of call and terminal can spoil; `ConnectionAssumption` says so, and without
it the runner would stop coming back only because the bound is reached. In
`CloudRuns` one slot is the default (`config.go:163`) and makes the limit bite;
with it, no run of a list that is gone through is ever running, so that the test
of `isRunning` (line 104) never says yes; what several executions at a time may
do to each other is left to the theorems, which hold for any number of slots;
two lives give one restart at any step; one line is enough to be uploaded late
or twice. The executors' channel and pipes of one are full at once, and three
lines let a message, a tool call and an ending meet; the kinds of line left out
are handled like one of the six. Two requests are what an interleaving needs, as
every property of `GitResources` names at most one other actor; symmetry of
requests is sound there, as the run has no liveness. Its initial states
(`Heads`) are a branch ahead of, behind or apart from another and the remote,
and a detached HEAD.

Deadlock is checked for the gate, whose callers come and go for ever. The other
systems stop when all calls, requests, runs or opens of the instance are over.

Fairness. `GateFairness` lets a goroutine that can run do so, and nothing more:
`CancelEndsWait` holds under it even if no owner ever releases.
`EveryCallServed` assumes in addition that owners release. `RunnerQA!Fairness`
lets handlers go on, and git and a *cancelled* executor come to an end
(`exec.CommandContext` kills them); of an executor that is not cancelled nothing
is assumed. `StopEndsRun` is about those a stop has cancelled. In
`TerminalAttach` handlers go on, and a read loop whose file was closed under it
ends, as `Close` also kills the process; no other read loop needs to end.
`Connection!FairSpec` keeps the connect loop, the Hub's handlers, the calls and
the terminal operations going; faults are bounded, and no server needs to close
a terminal or to ask anything. `CloudRuns!Fairness` has executions and the tail
of the shell script go on, needs nothing of the poll loop and of the log tails,
and assumes of no executor that it ends, so that `ExecutionEnds` is about those
that do. In `ExecutorPipeline` goroutines go on
and a process that was killed ends; of any other process nothing is assumed.

## What the violated runs show

*runner_qa_stop*: the reader starts a goroutine for a request and handles a stop
inline, so a stop can come before the request has entered `qaRunning`. It finds
nothing, and nothing remembers it: the trace goes on until the request runs its
executor, uncancelled. `StopHitsOnlyNamed` and `StopEndsRun` are what does hold.

*runner_qa_dying*: the gate "serializes operations that can checkout or write the
same real workspace" (`workspace_gate.go:9`). A stopped Codex run returns from
its loop without waiting for its process, the handler gives the gate back, and
the next request checks out and starts its executor while the killed process
tree may still write. `OwnsWorkspace` is what does hold: the handler owns the
gate as long as it works, and no executor outlives it but one that was stopped.
The same sentence is wrong in another way, which is not a run of its own: the
gate's key is the workspace with its app path and git's branch belongs to the
clone, so that requests for two app paths of one clone, isolated requests that
name a branch, and `checkout_branch` resource requests switch the branch under a
running executor. `OwnBranch` says for which requests it stays.

*git_source*: an analysis file "from the locked comparison" is "only readable
while the local snapshot fingerprint still matches" (`analysis.go:222-224`).
`AnalysisSource` checks the fingerprint and reads the file afterwards; an edit in
between is answered together with the locked fingerprint. `SnapshotSound` has the
other readings, of commits and of snapshots.

*terminal_reuse*: an open that finds an attachment under its id closes it with
`terminalMu` locked; `Close` waits for that attachment's read loop, whose
callback wants `terminalMu`. The reader then blocks on it with the next terminal
message. The callback tells the server before it takes the entry out, so even a
server that waits for `terminal_closed` can cause it. `ReaderReturns` is what
does hold: with ids that are not shared, nothing of the kind happens, as
`handleTerminalClose` unlocks before it closes.

## What is proved

For any finite set of callers and any workspaces, spellings and lock identities
(`GateAssumption`), `WorkspaceGateProofs` proves every safety property of the
run, and that the gate implements `KeyedMutex`. None of them is inductive.
`IInv` adds: every call under way points to the object the map has for its key
(`Pointers`), no object serves two keys (`OneKeyPerLock`), the token of a lock
is there exactly while one user owns it (`Owner`), and the queue of a lock is
its parked callers (`Queue`). The heart of it is that `refs` equals the number
of calls that point to a lock (`RefsExact`, by cardinality of finite sets), so
that `releaseRef` deletes an entry only when its caller was the last. Exclusion
then follows: one key, one object, one token.

For any requests, inbox, ids, roots and clones (`RunnerAssumption`),
`RunnerQAProofs` proves all safety properties of runner_qa. Its `IInv` ties the
phase of a request to its record, to its hold on the gate and to the events it
has sent; it rests on the abstract gate's exclusion, which it proves on the way.
`WorkspaceOwned` is about handlers, and about processes as far as nobody stopped
them. `StopsAreExact` compares each cancellation with what the message said and
with the entries of `qaRunning` when it was handled, both of which `asked` keeps
while other requests come, go and take entries over.

`QuietAfterEnd`, `OneRunAtATime` and `EntriesAreLive` state its parts one by
one, as `GateRefsExact` does for the gate.

For any connections, calls, ids and any capacity
(`HubAssumption`), `HubQAProofs` proves every property of hub_qa. That no channel
is closed twice is not inductive: `RouteInv` adds that the two maps agree with
each other and with the call that opened the route, so that the same channel
never has two routes; `ConnsInv` that `h.conns` has the connections that are
read. Everything that closes a channel then comes down to one operation,
`Drops`: a set of routed calls loses its routes and their channels are closed,
once each (`DropsOnce`). `NoStreamAbandoned` knows in which order calls opened
one id: an open channel has its route unless a *later* call took it, so nothing
the earlier call still does may touch the later one's. `FinishedInv` and `OpenInv` are the run's properties
from the moment on in which the route is opened. `FramesLeaveRoom` rests on
`FramesFirst`: a frame is never beyond the first three quarters, as events only
move forward.

`HubRefinesStreams` shows that the hub implements `EventStream` (`StreamSpec`),
step by step: a stream is open exactly while its id leads to it in `h.qaCh`
(`Stage`), so `Drops` closes streams (`DropsCloses`), `OpenRoute` opens one and
cuts off the one before (`OpenRouteOpens`), an event enters the stream of its id
or finishes it (`EventEnters`), and all else is a stutter. That nothing follows a
done or error (`FinalIsLast`) is a part of `IInv` and of `EventStream`, and
therefore not run on its own.

For any runs, any number of slots and of restarts (`CloudAssumption`),
`CloudRunsProofs` proves every safety property of cloud_runs. Its `IInv` follows
an execution that shares its run with no other one: nothing is alive under the
name of its session before it launches (`Fresh`), while its executor works there
is no exit file and it goes on waiting (`Busy`), while it waits the session is
its own and the exit file tells how its executor exited (`Own`), and its tail
runs as long as it waits (`TailInv`). `SlotsAreHeld` has one exception, a probe
that failed, whose execution then reports a failure; `LogsAreWhole` excepts the
tails that missed a line. `Holders` says that two executions of one
run have marked it as shared. `PollInv` keeps the room that the polling goroutine
saw in `sem` until it sends, since nobody else takes a slot.

For any opens, ids and sessions (`TerminalAssumption`), `TerminalAttachProofs`
proves `NoOrphan`. That no two live terminals share an id is what the server has
to see to, so it is a hypothesis of every step and not a part of the invariant:
the callback of a read loop and an open that stores its attachment could then
only hit an attachment that is over.

For any calls and terminals, any number of connections, faults and events
(`ConnectionAssumption`), `ConnectionProofs` proves `MapsHoldWaiters`. Not
inductive is the failure of `OpenTerminal`'s send, which closes the channel
without a look at the map; `WireInv` says that nothing under way on any
connection, and nothing attached on the runner, names a terminal whose open has
not been sent.

For any lines, any number of them and any capacities (`PipelineAssumption`),
`ExecutorPipelineProofs` proves the three safety properties of executor_pipeline.
`FrameInv` says that the numbers given out are those sent and those the two
readers hold, which differ: with no reader at work the frames have no gap.
`StageInv` ties the handler to the wait and the wait to the readers; `AnswerInv`
follows the last message from its file to the answer.

For any requests, branches and files (`GitAssumption`, `AskAssumption`),
`GitResourcesProofs` proves every property of git_resources and of the snapshots,
among all the requests of `AnalysisSnapshot`. `RepoInv` keeps the
histories closed: what a commit contains was made, with all that it contains.
`RepoStep` says what any git command does to it: made commits stay as they are,
and a branch that moves keeps its old commit in its history. `ReqInv` says what
a request may still rely on at its next command, above all that the source of a
merge contains what it held at the start and that HEAD is its target unless it
is crossed; a `RepoStep` of another request keeps that or crosses it
(`OthersKeep`). One lemma on each git command, then one on each request.

`NothingElseLost` (`OnlySelectedLost`) is proved along the same lines for the
files: `TreeStep` says that a command on the files `F` leaves of every other file
each version somewhere in workspace, index, commits or stashes (`Kept`), unless
git ignores the file and does not track it (`Hidden`), and
`Flow` that a request only works on the files of its own ask. `Typed` is what
makes that inductive: a commit that was not made yet has the content of the
first one, so that making it cannot take the only copy of anything.

`SnapshotsSound` (`SnapshotSound`) needs to know, at each command of
`CreateAnalysisSnapshot`, what the directory holds by then, as long as nobody
else worked in it (`Making`, `Stage`), and of a reading from where it comes. It
says nothing of readings of the workspace (git_source). What it is compared with, `Comparison`,
does not change while requests commit, merge and pull: its commits were made
(`LockedInv`), made commits stay, and so does their merge base (`OlderOne`,
`LockedKept`). The steps of a creation then come down to three forms, a command
in the snapshot (`CommandKeeps`), a change of the directory (`MakeKeeps`) and a
clean-up (`UndoKeeps`). The proof assumes nothing of `Stamps`: a snapshot is not
known by the second in which it was committed.

`TypeOK` is proved wherever a module has one (`TypeCorrect`, and as a part of
`IInv` in `TerminalAttachProofs`) and therefore not run.

Only model-checked: liveness (`CancelEndsWait`, `EveryCallServed`, `StopEndsRun`,
`ReaderReturns`, `ComesBack`, `ExecutionEnds`, `HandlerReturns`), which the
prover does not do. Every safety property that a passing run checks is proved.

## What the code does that a reader may not expect

The models show these, and the properties are stated so that they are visible as
conditions. The violated runs have those that contradict the repository's own
words; of the others, the second item does, the overlapping creations do ("a
private Git repository", `analysis_snapshot.go:17`), and the app paths above.

* A stopped Codex handler returns, and gives the gate back, before its killed
  process is gone (runner_qa_dying), and leaves its readers blocked on the events
  channel (`NothingLeftBehind` is about the other runs).
* `StartQA` can open its route for a connection that `Unregister` has just ended
  (`hub.go:179-191`), and the send may succeed, as the socket is closed after
  `Unregister`. `hub_test.go:21` expects the end of a connection to close its
  streams; the Hub does not close this one. `NoAbandonedStream` says that it
  keeps its route, so that the consumer's cleanup finds it.
* A reader that meets a line over its limit stops, and the process blocks on the
  full pipe until the request is stopped (`HandlerReturns` is about requests
  that are, or whose process ends).
* Log lines whose upload fails, or that follow a line over a megabyte, are never
  uploaded (`missed`), and any error of `tmux has-session` ends an execution and
  frees its slot, with its executor perhaps at work.
* Ignored files that git does not track are overwritten by a checkout, a pull or
  a merge that brings a file of their name (`Hidden` in `OnlySelectedLost`).
* Claude's result line can be lost when `cmd.Wait` closes the pipe before it is
  read; the answer is then what was streamed (`AnswerIsFinal`).
* A commit that found a merge open commits the whole index, even when another
  request has concluded that merge in between (`CommitIsSelected` is about
  commits that found none).
* Merges name the source again when they run; a checkout by another request in
  between redirects them (`crossed` in `MergedWhenSaid`). A merge-to or a pull
  that fails after its checkout leaves the workspace on the other branch, and a
  deletion that fails midway has removed the files before.
* Two overlapping creations of one snapshot id share a directory (`touched`): one
  may stage the directory the other has just emptied, and be answered as created.
  A clean-up that cannot remove the directory leaves it behind (`left`).
* `AnalysisSource` reads a changed file from the workspace after its check of
  the fingerprint without a second one (git_source); a file that is deleted in
  the index but written again passes the check, too, as `git diff <commit>` does
  not see it.
* A Stop of the client during a dial leaves the connection published afterwards
  (`ComesBack` excepts it; `Stop` has no caller in `src/`). `Unregister` closes
  no terminal channels: a terminal's consumer waits until its own Close.
* Answers go over whichever connection is current, which may be a later one.
* An exit file that is read between its creation and its content counts as exit
  code 0 (`blank` in `CompletedIsTrue`); a run that is granted again shares the
  files of its first execution (`shared`).

## What is not modelled

* Queries that change nothing: history, diffs, changes, stash lists,
  contributors, `list` and `read`. A query whose answer a later step uses is
  part of that step; queries that follow each other directly are one action.
* The `shell` resource: an arbitrary command; `Edit` stands for what such
  commands do to files.
* openspec (`openspec/resources.go`) and update (`update.go`): sequential
  functions over files and the service manager, with a failure at each step. An
  invalid request leaves a change directory behind (`resources.go:97`), and a
  failed replacement a service that is not started again (`update.go:113`); a
  unit test reaches both.
* Ids that are used twice in `Connection`: the server makes them, and the
  removals by id (`hub.go:171`, 262, 281) are only checked for ids of their own.
* A git that the time limit kills half way, with files half written and its lock
  left behind; a runner that dies while it makes a snapshot, except that the
  directory it leaves is an initial state.
* The spelling of a request id in an event: the id of `HubQA` is the one that
  `handleQAEvent` settles on after trimming and the fallback (`hub.go:333-346`).
* Worktrees and overlays (`git.go`): functions without a caller in `src/`.
* The kill of a process tree on Windows; prompts, command lines and wording.
* A close that overtakes its open at the runner (`daemon.go:402`) leaves an
  attachment until its session ends or the server closes it again; `TerminalAttach`
  has the order, but no property forbids it.
* Configuration, the MCP bridge, service managers, logging, the code visualizer
  and the demo: sequential, or wrappers around the operating system, without
  state that two actors share.

## Plan

1. done: `KeyedMutex`, `WorkspaceGate`, `RunnerQA`, `EventStream`, `HubQA`, and their proofs.
2. done: `TerminalAttach`, `Connection`, `CloudRuns`, `ExecutorPipeline` and `GitResources` and `AnalysisSnapshot` with their proofs.
3. A composition of `HubQA` and `RunnerQA` over the lossy link of `Connection`: an end-to-end abstract QA stream that both implement.
4. `OpenSpec` and `Update`, with a failure at each step.
