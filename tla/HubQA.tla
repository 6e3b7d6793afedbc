-------------------------------- MODULE HubQA --------------------------------
(***************************************************************************)
(* The QA half of the server-side Hub (src/internal/runner/hub.go): runner  *)
(* connections come and go, StartQA opens an event channel for a request    *)
(* and routes it by request id, handleQAEvent moves a runner's events into  *)
(* the channel, and done, error, a lost connection or the consumer's own    *)
(* cleanup closes it.                                                       *)
(*                                                                         *)
(* Every step under h.mu is atomic; the gaps between the steps of StartQA   *)
(* and of HandleRunnerWS are where they interleave.  The runner behind a    *)
(* connection is external here: it works on the requests it was sent,       *)
(* survives a reconnection, and ends a request with one done or error.      *)
(***************************************************************************)
EXTENDS Naturals, Sequences, FiniteSets

CONSTANTS Conns,      \* values of nextConnID: each names one connection
          Calls,      \* invocations of StartQA; each makes one channel
          Ids,        \* request ids
          IdOf,       \* the id of each invocation: a caller may reuse one
          Cap,        \* capacity of a channel (2048 in the code)
          MaxEvents,  \* bound: events, other than done and error, put on a wire
          None

ASSUME HubAssumption ==
  /\ IdOf \in [Calls -> Ids]
  /\ Cap \in Nat \ {0}
  /\ MaxEvents \in Nat
  /\ None \notin Conns \cup Calls

VARIABLES conns,   \* h.conns
          ws,      \* where HandleRunnerWS is, for each connection
          qaCh,    \* h.qaCh: request id to channel
          qaConn,  \* h.qaConn: request id to connection
          pc,      \* where StartQA, and then its consumer, is
          rc,      \* StartQA's local rc
          buf,     \* the events in each channel
          ended,   \* whether its consumer has received a done or error
          closes,  \* how many times close(ch) ran
          link,    \* runner: the connection its client writes to
          job,     \* runner: what it does for each request it was sent
          sent,    \* runner: how many events it has put on a wire
          wire,    \* events under way on each connection
          lost,      \* history: calls whose done or error met a full channel
          overtaken \* history: calls whose route a later call took over

hub    == <<conns, ws, qaCh, qaConn>>
caller == <<pc, rc>>
chans  == <<buf, ended, closes>>
runner == <<link, job, sent>>
history == <<lost, overtaken>>
vars   == <<hub, caller, chans, runner, wire, history>>

(* What the hub and the consumer tell apart: a terminal_output frame, a done *)
(* or error, and everything else (response, activity, heartbeat, ...).       *)
Kinds == {"frame", "event", "final"}
Message == [id : Ids, kind : Kinds]

Init ==
  /\ conns = {}
  /\ ws = [c \in Conns |-> "new"]
  /\ qaCh = [i \in Ids |-> None]
  /\ qaConn = [i \in Ids |-> None]
  /\ pc = [q \in Calls |-> "start"]
  /\ rc = [q \in Calls |-> None]
  /\ buf = [q \in Calls |-> <<>>]
  /\ ended = [q \in Calls |-> FALSE]
  /\ closes = [q \in Calls |-> 0]
  /\ link = None
  /\ job = [q \in Calls |-> "none"]
  /\ sent = 0
  /\ wire = [c \in Conns |-> <<>>]
  /\ lost = {}
  /\ overtaken = {}
-----------------------------------------------------------------------------
(* HandleRunnerWS *)

(* The first message was a good auth: the connection is registered. *)
Register(c) ==
  /\ ws[c] = "new"
  /\ link = None
  /\ conns' = conns \cup {c}
  /\ ws' = [ws EXCEPT ![c] = "reading"]
  /\ link' = c
  /\ UNCHANGED <<qaCh, qaConn, caller, chans, job, sent, wire, history>>

RoutesOf(c) == {i \in Ids : qaConn[i] = c}

(* Drop the routes of the ids in S. *)
ClearRoutes(S) ==
  /\ qaCh' = [i \in Ids |-> IF i \in S THEN None ELSE qaCh[i]]
  /\ qaConn' = [i \in Ids |-> IF i \in S THEN None ELSE qaConn[i]]

(* ReadMessage failed (the peer left, or the read deadline passed): the      *)
(* deferred Unregister closes every channel routed to this connection.       *)
(* Nobody reads what is still under way on it.                               *)
Unregister(c) ==
  /\ ws[c] = "reading"
  /\ conns' = conns \ {c}
  /\ ws' = [ws EXCEPT ![c] = "left"]
  /\ closes' = [q \in Calls |-> IF \E i \in RoutesOf(c) : qaCh[i] = q
                                THEN closes[q] + 1 ELSE closes[q]]
  /\ ClearRoutes(RoutesOf(c))
  /\ wire' = [wire EXCEPT ![c] = <<>>]
  /\ UNCHANGED <<caller, buf, ended, runner, history>>

(* The deferred conn.Close, which runs after Unregister. *)
CloseConn(c) ==
  /\ ws[c] = "left"
  /\ ws' = [ws EXCEPT ![c] = "closed"]
  /\ UNCHANGED <<conns, qaCh, qaConn, caller, chans, runner, wire, history>>

(* Mutant: a terminal_output frame may take the last places, too. *)
HasRoomAnyKind(q, kind) == Len(buf[q]) < Cap

(* Mutant: every kind of event leaves the last quarter free. *)
HasRoomNoReserve(q, kind) == Len(buf[q]) < (Cap * 3) \div 4

(* Whether the channel takes an event: frames leave its last quarter free. *)
HasRoom(q, kind) ==
  /\ Len(buf[q]) < Cap
  /\ kind = "frame" => Len(buf[q]) < (Cap * 3) \div 4

(* Mutant: done or error goes into the channel and leaves the route. *)
handleQAEventKeepsRoute(e) ==
  LET q == qaCh[e.id] IN
  /\ q # None
  /\ buf' = IF HasRoom(q, e.kind) THEN [buf EXCEPT ![q] = Append(@, e.kind)] ELSE buf
  /\ UNCHANGED <<qaCh, qaConn, closes, ended, lost>>

(* Whoever has the route of the event's id gets it; done and error close the *)
(* channel, whether or not it had room for them.  The send never blocks.     *)
(* e.id is the id the code settles on: the trimmed ID, or QARequestID if     *)
(* that is empty; an event with neither is dropped as by NoRoute.            *)
handleQAEvent(e) ==
  LET q == qaCh[e.id] IN
  /\ q # None
  /\ buf' = IF HasRoom(q, e.kind) THEN [buf EXCEPT ![q] = Append(@, e.kind)] ELSE buf
  /\ UNCHANGED ended
  /\ IF e.kind = "final"
     THEN /\ ClearRoutes({e.id})
          /\ closes' = [closes EXCEPT ![q] = @ + 1]
          /\ lost' = IF Len(buf[q]) = Cap THEN lost \cup {q} ELSE lost
     ELSE UNCHANGED <<qaCh, qaConn, closes, lost>>

(* No route: the event is for nobody. *)
NoRoute(e) == qaCh[e.id] = None /\ UNCHANGED <<qaCh, qaConn, chans, lost>>

(* The read loop takes the next message of its connection. *)
Deliver(c) ==
  /\ ws[c] = "reading"
  /\ wire[c] # <<>>
  /\ handleQAEvent(Head(wire[c])) \/ NoRoute(Head(wire[c]))
  /\ wire' = [wire EXCEPT ![c] = Tail(@)]
  /\ UNCHANGED <<conns, ws, caller, runner, overtaken>>
-----------------------------------------------------------------------------
(* StartQA *)

(* conns[connID] under the read lock; ErrRunnerOffline if it is gone. *)
LookupConn(q, c) ==
  /\ pc[q] = "start"
  /\ IF c \in conns
     THEN pc' = [pc EXCEPT ![q] = "found"] /\ rc' = [rc EXCEPT ![q] = c]
     ELSE pc' = [pc EXCEPT ![q] = "failed"] /\ UNCHANGED rc
  /\ UNCHANGED <<hub, chans, runner, wire, history>>

(* A fresh channel takes the route of the request id, whoever had it. *)
OpenRoute(q) ==
  /\ pc[q] = "found"
  /\ overtaken' = overtaken \cup ({qaCh[IdOf[q]]} \ {None})
  /\ qaCh' = [qaCh EXCEPT ![IdOf[q]] = q]
  /\ qaConn' = [qaConn EXCEPT ![IdOf[q]] = rc[q]]
  /\ pc' = [pc EXCEPT ![q] = "routed"]
  /\ UNCHANGED <<conns, ws, rc, chans, runner, wire, lost>>

(* SendJSON returned nil.  The request reaches the runner only if that is    *)
(* still at the other end; the socket takes it in any case until conn.Close. *)
SendRequest(q) ==
  /\ pc[q] = "routed"
  /\ ws[rc[q]] # "closed"
  /\ pc' = [pc EXCEPT ![q] = "streaming"]
  /\ job' = IF link = rc[q] THEN [job EXCEPT ![q] = "running"] ELSE job
  /\ UNCHANGED <<hub, rc, chans, link, sent, wire, history>>

(* SendJSON failed: the peer has gone, or the write met its deadline of ten  *)
(* seconds.  The runner may have the request all the same.                   *)
SendFails(q) ==
  /\ pc[q] = "routed"
  /\ pc' = [pc EXCEPT ![q] = "failing"]
  /\ \/ UNCHANGED job
     \/ link = rc[q] /\ job' = [job EXCEPT ![q] = "running"]
  /\ UNCHANGED <<hub, rc, chans, link, sent, wire, history>>

(* Mutant: cleanup trusts that the route is still its own. *)
cleanupAnyRoute(q) ==
  /\ ClearRoutes({IdOf[q]})
  /\ closes' = [closes EXCEPT ![q] = @ + 1]

(* Mutant: cleanup closes its own channel only, but drops whatever route the *)
(* id has.                                                                   *)
cleanupDropsRoute(q) ==
  /\ ClearRoutes({IdOf[q]})
  /\ closes' = IF qaCh[IdOf[q]] = q THEN [closes EXCEPT ![q] = @ + 1] ELSE closes

(* The cleanup closure: only if the route is still this channel's. *)
cleanup(q) ==
  IF qaCh[IdOf[q]] = q
  THEN ClearRoutes({IdOf[q]}) /\ closes' = [closes EXCEPT ![q] = @ + 1]
  ELSE UNCHANGED <<qaCh, qaConn, closes>>

(* StartQA's own cleanup() before it returns the send error. *)
CleanupFailed(q) ==
  /\ pc[q] = "failing"
  /\ cleanup(q)
  /\ pc' = [pc EXCEPT ![q] = "failed"]
  /\ UNCHANGED <<conns, ws, rc, buf, ended, runner, wire, history>>
-----------------------------------------------------------------------------
(* The consumer of the returned channel, and the runner (external). *)

Receive(q) ==
  /\ pc[q] = "streaming"
  /\ buf[q] # <<>>
  /\ ended' = [ended EXCEPT ![q] = @ \/ Head(buf[q]) = "final"]
  /\ buf' = [buf EXCEPT ![q] = Tail(@)]
  /\ UNCHANGED <<hub, caller, closes, runner, wire, history>>

(* The consumer leaves when it likes, or because the channel is closed and   *)
(* drained, and runs the cleanup it was given; nobody reads the rest.        *)
LeaveStream(q) ==
  /\ pc[q] = "streaming"
  /\ cleanup(q)
  /\ pc' = [pc EXCEPT ![q] = "left"]
  /\ buf' = [buf EXCEPT ![q] = <<>>]
  /\ UNCHANGED <<conns, ws, rc, ended, runner, wire, history>>

(* The runner's client lost its connection (client.go sets c.conn = nil). *)
DropLink ==
  /\ link # None
  /\ link' = None
  /\ UNCHANGED <<hub, caller, chans, job, sent, wire, history>>

(* The runner's message reaches the hub's end only while that reads. *)
Transmit(q, kind) ==
  wire' = IF link # None /\ ws[link] = "reading"
          THEN [wire EXCEPT ![link] = Append(@, [id |-> IdOf[q], kind |-> kind])]
          ELSE wire

(* An event of a request, on whatever connection the runner has now; a
   heartbeat may follow the request's done or error. *)
RunnerSends(q, kind) ==
  /\ job[q] = "running" \/ (job[q] = "ended" /\ kind = "event")
  /\ link # None
  /\ sent < MaxEvents
  /\ Transmit(q, kind)
  /\ sent' = sent + 1
  /\ UNCHANGED <<hub, caller, chans, link, job, history>>

(* The one done or error of a request; without a connection it is gone. *)
RunnerEnds(q) ==
  /\ job[q] = "running"
  /\ Transmit(q, "final")
  /\ job' = [job EXCEPT ![q] = "ended"]
  /\ UNCHANGED <<hub, caller, chans, link, sent, history>>

Next ==
  \/ \E c \in Conns : Register(c)
  \/ \E c \in Conns : Unregister(c)
  \/ \E c \in Conns : CloseConn(c)
  \/ \E c \in Conns : Deliver(c)
  \/ \E q \in Calls, c \in Conns : LookupConn(q, c)
  \/ \E q \in Calls : OpenRoute(q)
  \/ \E q \in Calls : SendRequest(q)
  \/ \E q \in Calls : SendFails(q)
  \/ \E q \in Calls : CleanupFailed(q)
  \/ \E q \in Calls : Receive(q)
  \/ \E q \in Calls : LeaveStream(q)
  \/ DropLink
  \/ \E q \in Calls, kind \in Kinds \ {"final"} : RunnerSends(q, kind)
  \/ \E q \in Calls : RunnerEnds(q)

Spec == Init /\ [][Next]_vars
-----------------------------------------------------------------------------
(* Types of the variables; in particular a channel never holds more events   *)
(* than make(chan, 2048) gave it.                                            *)
TypeOK ==
  /\ conns \subseteq Conns
  /\ ws \in [Conns -> {"new", "reading", "left", "closed"}]
  /\ qaCh \in [Ids -> Calls \cup {None}]
  /\ qaConn \in [Ids -> Conns \cup {None}]
  /\ pc \in [Calls -> {"start", "found", "routed", "failing", "failed", "streaming", "left"}]
  /\ rc \in [Calls -> Conns \cup {None}]
  /\ buf \in [Calls -> Seq(Kinds)] /\ \A q \in Calls : Len(buf[q]) <= Cap
  /\ ended \in [Calls -> BOOLEAN]
  /\ closes \in [Calls -> Nat]
  /\ link \in Conns \cup {None}
  /\ job \in [Calls -> {"none", "running", "ended"}]
  /\ sent \in 0..MaxEvents
  /\ wire \in [Conns -> Seq(Message)]
  /\ lost \subseteq Calls
  /\ overtaken \subseteq Calls

(* The hub never panics: no channel is closed twice, and none that a route   *)
(* still leads to is closed, whoever of handleQAEvent, Unregister, StartQA   *)
(* and the consumer's cleanup comes first and however ids are reused.        *)
NoPanic ==
  /\ \A q \in Calls : closes[q] <= 1
  /\ \A i \in Ids : qaCh[i] # None => closes[qaCh[i]] = 0

Routed(q) == qaCh[IdOf[q]] = q

(* A consumer is never left on an open channel that nothing can close: the   *)
(* channel keeps its route until it is closed or a LATER call with its id    *)
(* takes the route over.  An older call with that id, whose cleanup, send    *)
(* error or lost connection comes afterwards, takes nothing from the later.  *)
NoAbandonedStream ==
  \A q \in Calls : pc[q] = "streaming" /\ closes[q] = 0 => Routed(q) \/ q \in overtaken

(* done and error end a stream: nothing follows one of them in the channel,  *)
(* and a channel that holds or has delivered one is closed.                  *)
FinalIsLast ==
  \A q \in Calls :
    /\ ended[q] => buf[q] = <<>> /\ closes[q] = 1
    /\ \A n \in DOMAIN buf[q] :
         buf[q][n] = "final" => n = Len(buf[q]) /\ closes[q] = 1

(* While its connection lives, a stream that its consumer did not leave ends *)
(* with done or error, unless that met a full channel.                       *)
ClosedMeansFinished ==
  \A q \in Calls :
    pc[q] = "streaming" /\ closes[q] = 1 /\ rc[q] \in conns =>
      \/ q \in lost
      \/ ended[q]
      \/ buf[q] # <<>> /\ buf[q][Len(buf[q])] = "final"

(* Terminal output alone cannot push done or error out: at the moment one is *)
(* lost, events other than frames hold at least a quarter of the channel,    *)
(* the quarter handleQAEvent closes to frames.                               *)
FramesLeaveRoom ==
  [][\A q \in lost' \ lost :
       Cardinality({n \in DOMAIN buf[q] : buf[q][n] # "frame"}) >= Cap - (Cap * 3) \div 4]_vars

(* The refinement mapping: an id leads to a stream as long as the hub has a  *)
(* route from one to the other.                                              *)
Stage == [q \in Calls |->
            IF closes[q] # 0 THEN IF closes[q] = 1 THEN "closed" ELSE "panic"
            ELSE IF Routed(q) THEN "open"
            ELSE IF rc[q] = None \/ pc[q] = "found" THEN "new" ELSE "cut"]
Stream == INSTANCE EventStream WITH Streams <- Calls, stage <- Stage, queue <- buf

(* The hub is a set of streams that are addressed by request id: although    *)
(* routes and channels are changed by StartQA, the read loops of connections *)
(* and the consumers, in steps of their own, a stream is in use or over for  *)
(* all of them at once (StartQA, Unregister, handleQAEvent).                 *)
StreamSpec == Stream!Spec
=============================================================================
