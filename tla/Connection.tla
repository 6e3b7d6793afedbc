----------------------------- MODULE Connection -----------------------------
(***************************************************************************)
(* The WebSocket between a runner and the Hub: the client's connect loop   *)
(* (internal/runner/client.go) and the Hub's handler of a runner           *)
(* (internal/runner/hub.go), with the two conversations besides QA that    *)
(* run over it, resource requests and terminals.  Connections break, are   *)
(* dialled again, and die silently; what is answered may be answered over  *)
(* a later connection than it was asked on.                                *)
(***************************************************************************)
EXTENDS Naturals, Sequences, FiniteSets

CONSTANTS
  MaxConns,    \* bound: connections dialled
  MaxFaults,   \* bound: dials that fail, tokens refused, connections that break
  MaxEvents,   \* bound: events that running requests send on their own
  Calls,       \* SendResourceRequest calls
  Terms        \* terminal sessions, each with an id of its own

(* Every dial that comes to nothing has a fault or a message that overtook *)
(* the authentication behind it: the bound leaves one dial to succeed.     *)
ASSUME ConnectionAssumption ==
  /\ {MaxConns, MaxFaults, MaxEvents} \subseteq Nat
  /\ MaxConns > MaxFaults + MaxEvents + Cardinality(Calls)
                                     + Cardinality(Terms)

Conns == 1..MaxConns

VARIABLES
  client,    \* [pc, conn, mine]: the connect loop, c.conn, its own conn
  stopped,   \* where the loop was when stopCh was closed, or "no"
  wire,      \* per connection: messages under way, who has closed it, lost
  handler,   \* per connection: where the Hub's handler is
  conns,     \* h.conns
  call,      \* per call: [pc, conn, ch]
  pending,   \* h.pending
  working,   \* requests the runner's handlers are serving
  term,      \* per terminal: [pc, conn, ch]: its session and channel
  terminalCh,\* h.terminalCh
  attached,  \* terminals attached on the runner
  faults, events

clientVars == <<client, stopped>>
hubVars    == <<handler, conns>>
callVars   == <<call, pending, working>>
termVars   == <<term, terminalCh, attached>>
counts     == <<faults, events>>
vars == <<clientVars, wire, hubVars, callVars, termVars, counts>>

Msg(t, x) == [type |-> t, id |-> x]
Plain(t)  == Msg(t, "none")

Init ==
  /\ client = [pc |-> "loop", conn |-> 0, mine |-> 0]
  /\ stopped = "no"
  /\ wire = [k \in Conns |-> [up |-> <<>>, down |-> <<>>, lost |-> FALSE,
                              cl |-> FALSE, sv |-> FALSE]]
  /\ handler = [k \in Conns |-> "none"]
  /\ conns = {}
  /\ call = [c \in Calls |-> [pc |-> "idle", conn |-> 0, ch |-> FALSE]]
  /\ pending = {} /\ working = {}
  /\ term = [t \in Terms |-> [pc |-> "idle", conn |-> 0, ch |-> "none"]]
  /\ terminalCh = {} /\ attached = {}
  /\ faults = 0 /\ events = 0

-----------------------------------------------------------------------------
(* The connection.  A write to one that the writer has closed fails; on    *)
(* one that the other side has closed or that died silently it may still   *)
(* succeed, and the message is gone.                                       *)

Whole(w)   == ~w.lost /\ ~w.cl /\ ~w.sv
CanFail(w) == ~Whole(w)

Up(w, m)   == IF Whole(w) THEN [w EXCEPT !.up = Append(@, m)] ELSE w
Down(w, m) == IF Whole(w) THEN [w EXCEPT !.down = Append(@, m)] ELSE w

(* A connection both sides are done with.                                  *)
Dead == [up |-> <<>>, down |-> <<>>, lost |-> FALSE, cl |-> TRUE, sv |-> TRUE]

Ended(k) == IF client.mine = k /\ client.pc \in {"auth", "read", "dialled"}
            THEN [wire[k] EXCEPT !.up = <<>>, !.sv = TRUE] ELSE Dead

(* A connection is of no use any more: it died silently, or a write met    *)
(* its deadline, which cuts a frame short and fails all later writes.  What *)
(* was under way is gone, or may still arrive.  A write that fails, here   *)
(* and elsewhere, has not delivered its message: part of a frame is none.  *)
Lose ==
  /\ faults < MaxFaults
  /\ \E k \in Conns :
       LET w == wire[k] IN
       /\ handler[k] \in {"auth", "serving"}
       /\ Whole(w)
       /\ \E up \in {<<>>, w.up}, down \in {<<>>, w.down} :
            wire' = [wire EXCEPT ![k] = [@ EXCEPT !.lost = TRUE, !.up = up, !.down = down]]
  /\ faults' = faults + 1
  /\ UNCHANGED <<clientVars, hubVars, callVars, termVars, events>>

-----------------------------------------------------------------------------
(* The connect loop of the client.                                         *)

Client(p) == client' = [client EXCEPT !.pc = p]
Others    == UNCHANGED <<hubVars, callVars, termVars>>

(* stopCh is looked at before every dial, by the sleep and by the loop.    *)
Loop ==
  /\ client.pc = "loop"
  /\ Client(IF stopped = "no" THEN "dial" ELSE "returned")
  /\ UNCHANGED <<stopped, wire, counts>> /\ Others

Fresh(k) == handler[k] = "none" /\ \A j \in Conns : j < k => handler[j] # "none"

Dial ==
  /\ client.pc = "dial"
  /\ \E k \in Conns :
       /\ Fresh(k)
       /\ client' = [client EXCEPT !.pc = "dialled", !.mine = k]
       /\ handler' = [handler EXCEPT ![k] = "auth"]
  /\ UNCHANGED <<stopped, wire, conns, callVars, termVars, counts>>

DialFails ==
  /\ client.pc = "dial" /\ faults < MaxFaults
  /\ Client("loop")
  /\ faults' = faults + 1
  /\ UNCHANGED <<stopped, wire, events>> /\ Others

(* c.conn is published before the authentication is written: from here on  *)
(* every other goroutine of the runner writes to it.                       *)
Publish ==
  /\ client.pc = "dialled"
  /\ client' = [client EXCEPT !.pc = "auth", !.conn = client.mine]
  /\ UNCHANGED <<stopped, wire, counts>> /\ Others

(* sendAuth writes to c.conn, which Stop may have taken away; a failure    *)
(* closes the connection and leaves it in c.conn.                          *)
SendAuth ==
  /\ client.pc = "auth" /\ client.conn # 0 /\ ~wire[client.conn].cl
  /\ wire' = [wire EXCEPT ![client.conn] = Up(@, Plain("auth"))]
  /\ Client("read")
  /\ UNCHANGED <<stopped, counts>> /\ Others

SendAuthFails ==
  /\ client.pc = "auth"
  /\ client.conn # 0 => CanFail(wire[client.conn])
  /\ wire' = [wire EXCEPT ![client.mine].cl = TRUE]
  /\ Client("loop")
  /\ UNCHANGED <<stopped, counts>> /\ Others

(* handleMessage: a request is served and a terminal opened by a goroutine *)
(* of its own; a close is handled in the loop.                             *)
Read ==
  /\ client.pc = "read" /\ ~wire[client.mine].cl
  /\ wire[client.mine].down # <<>>
  /\ LET m == Head(wire[client.mine].down)
     IN  /\ working'  = IF m.type = "request" THEN working \cup {m.id} ELSE working
         /\ attached' = CASE m.type = "open"  -> attached \cup {m.id}
                          [] m.type = "close" -> attached \ {m.id}
                          [] OTHER            -> attached
  /\ wire' = [wire EXCEPT ![client.mine].down = Tail(@)]
  /\ UNCHANGED <<clientVars, hubVars, call, pending, term, terminalCh, counts>>

(* Without a read deadline a dead connection is never noticed (not the     *)
(* code).                                                                  *)
ReadEndsOnClose ==
  /\ client.pc = "read"
  /\ LET w == wire[client.mine]
     IN  w.cl \/ (w.sv /\ ~w.lost /\ w.down = <<>>)
  /\ Client("down")
  /\ UNCHANGED <<stopped, wire, counts>> /\ Others

(* ReadMessage fails: the connection was closed here, or by the Hub, or    *)
(* nothing came until the read deadline.  As both sides' pings keep a      *)
(* connection that works from its deadline, only a dead one reaches it.    *)
ReadEnds ==
  /\ client.pc = "read"
  /\ LET w == wire[client.mine] IN w.cl \/ w.lost \/ (w.sv /\ w.down = <<>>)
  /\ Client("down")
  /\ UNCHANGED <<stopped, wire, counts>> /\ Others

(* The connection is not closed here; the Hub finds out by its own         *)
(* deadline, or has ended it itself.  What it still sends is read by       *)
(* nobody.                                                                 *)
Disconnected ==
  /\ client.pc = "down"
  /\ client' = [client EXCEPT !.conn = 0,
                  !.pc = IF stopped # "no" THEN "returned" ELSE "loop"]
  /\ wire' = [wire EXCEPT ![client.mine] =
                IF handler[client.mine] = "ended" THEN Dead
                ELSE [@ EXCEPT !.down = <<>>]]
  /\ UNCHANGED <<stopped, counts>> /\ Others

Stop ==
  /\ stopped = "no"
  /\ stopped' = client.pc
  /\ client' = [client EXCEPT !.conn = 0]
  /\ wire' = IF client.conn = 0 THEN wire
             ELSE [wire EXCEPT ![client.conn].cl = TRUE]
  /\ UNCHANGED counts /\ Others

(* writeJSON, by whoever has a message: without a connection it is dropped *)
(* and never repeated.                                                     *)
WriteJSON(m) ==
  IF client.conn = 0 THEN UNCHANGED wire
  ELSE \/ /\ ~wire[client.conn].cl
          /\ wire' = [wire EXCEPT ![client.conn] = Up(@, m)]
       \/ /\ CanFail(wire[client.conn])
          /\ UNCHANGED wire

(* An event of a running request, or the state of the runner.              *)
SendEvent ==
  /\ events < MaxEvents
  /\ events' = events + 1
  /\ WriteJSON(Plain("event"))
  /\ UNCHANGED <<clientVars, hubVars, callVars, termVars, faults>>

Respond(c) ==
  /\ c \in working
  /\ working' = working \ {c}
  /\ WriteJSON(Msg("response", c))
  /\ UNCHANGED <<clientVars, hubVars, call, pending, termVars, counts>>

(* The attachment ends: terminal_closed, with a code that is not 0.        *)
TerminalExits(t) ==
  /\ t \in attached
  /\ attached' = attached \ {t}
  /\ WriteJSON(Msg("closed", t))
  /\ UNCHANGED <<clientVars, hubVars, callVars, term, terminalCh, counts>>

-----------------------------------------------------------------------------
(* HandleRunnerWS.                                                         *)

Runner == UNCHANGED <<clientVars, working, attached>>

(* An authentication registers the connection, unless the server refuses   *)
(* the token or cannot look it up; anything else is refused, and the       *)
(* connection closed.  The client only logs the answer, which is left out. *)
Authenticate(k) ==
  /\ handler[k] = "auth" /\ wire[k].up # <<>>
  /\ LET isAuth == Head(wire[k].up).type = "auth"
     IN  \/ /\ isAuth
            /\ handler' = [handler EXCEPT ![k] = "serving"]
            /\ conns' = conns \cup {k}
            /\ wire' = [wire EXCEPT ![k].up = Tail(@)]
            /\ UNCHANGED faults
         \/ /\ isAuth => faults < MaxFaults
            /\ faults' = IF isAuth THEN faults + 1 ELSE faults
            /\ handler' = [handler EXCEPT ![k] = "ended"]
            /\ wire' = [wire EXCEPT ![k] = Ended(k)]
            /\ UNCHANGED conns
  /\ UNCHANGED <<call, pending, term, terminalCh, events>> /\ Runner

(* The channel is closed, by whom it says.                                 *)
CloseCh(t) == [term[t] EXCEPT !.ch = IF @ = "open" THEN "closed" ELSE "panic"]

(* handleTerminalMessage leaves a finished terminal in the map (not the    *)
(* code).                                                                  *)
HandleKeeping(k) ==
  /\ handler[k] = "serving" /\ wire[k].up # <<>>
  /\ LET m == Head(wire[k].up)
     IN  /\ call' = IF m.type = "response" /\ m.id \in pending
                    THEN [call EXCEPT ![m.id].ch = TRUE] ELSE call
         /\ term' = IF m.type = "closed" /\ m.id \in terminalCh
                    THEN [term EXCEPT ![m.id] = CloseCh(m.id)] ELSE term
  /\ wire' = [wire EXCEPT ![k].up = Tail(@)]
  /\ UNCHANGED <<hubVars, pending, terminalCh, counts>> /\ Runner

(* A response goes to the call that is waiting under its id, if one still  *)
(* is; the end of a terminal takes its channel from the map and closes it. *)
Handle(k) ==
  /\ handler[k] = "serving" /\ wire[k].up # <<>>
  /\ LET m == Head(wire[k].up)
         over == m.type = "closed" /\ m.id \in terminalCh
     IN  /\ call' = IF m.type = "response" /\ m.id \in pending
                    THEN [call EXCEPT ![m.id].ch = TRUE] ELSE call
         /\ terminalCh' = IF over THEN terminalCh \ {m.id} ELSE terminalCh
         /\ term' = IF over THEN [term EXCEPT ![m.id] = CloseCh(m.id)] ELSE term
  /\ wire' = [wire EXCEPT ![k].up = Tail(@)]
  /\ UNCHANGED <<hubVars, pending, counts>> /\ Runner

(* The read fails: the client has closed the connection, or nothing came   *)
(* until the deadline.  The handler unregisters and closes.                *)
HandlerEnds(k) ==
  /\ handler[k] \in {"auth", "serving"}
  /\ wire[k].lost \/ (wire[k].cl /\ wire[k].up = <<>>)
  /\ handler' = [handler EXCEPT ![k] = "ended"]
  /\ conns' = conns \ {k}
  /\ wire' = [wire EXCEPT ![k] = Ended(k)]
  /\ UNCHANGED <<call, pending, term, terminalCh, counts>> /\ Runner

-----------------------------------------------------------------------------
(* SendResourceRequest                                                     *)

Call(c) ==
  /\ call[c].pc = "idle"
  /\ \E k \in conns :
       call' = [call EXCEPT ![c].pc = "stored", ![c].conn = k]
  /\ pending' = pending \cup {c}
  /\ UNCHANGED <<wire, hubVars, term, terminalCh, counts>> /\ Runner

SendCall(c) ==
  /\ call[c].pc = "stored"
  /\ LET k == call[c].conn
     IN  \/ /\ ~wire[k].sv
            /\ wire' = [wire EXCEPT ![k] = Down(@, Msg("request", c))]
            /\ call' = [call EXCEPT ![c].pc = "waiting"]
         \/ /\ CanFail(wire[k])
            /\ call' = [call EXCEPT ![c].pc = "failed"]
            /\ UNCHANGED wire
  /\ UNCHANGED <<hubVars, pending, term, terminalCh, counts>> /\ Runner

(* The response or the timer ends the wait; when both are there, either.   *)
EndWait(c) ==
  /\ call[c].pc = "waiting"
  /\ \E p \in {"timedout"} \cup (IF call[c].ch THEN {"answered"} ELSE {}) :
       call' = [call EXCEPT ![c].pc = p]
  /\ UNCHANGED <<wire, hubVars, pending, term, terminalCh, counts>> /\ Runner

Returning(c) == call[c].pc \in {"failed", "timedout", "answered"}

Forget(c) ==
  /\ Returning(c) /\ c \in pending
  /\ pending' = pending \ {c}
  /\ UNCHANGED <<wire, hubVars, call, term, terminalCh, counts>> /\ Runner

-----------------------------------------------------------------------------
(* OpenTerminal and TerminalSession.Close                                  *)

Open(t) ==
  /\ term[t].pc = "idle"
  /\ \E k \in conns :
       term' = [term EXCEPT ![t] = [pc |-> "stored", conn |-> k, ch |-> "open"]]
  /\ terminalCh' = terminalCh \cup {t}
  /\ UNCHANGED <<wire, hubVars, call, pending, counts>> /\ Runner

SendOpen(t) ==
  /\ term[t].pc = "stored"
  /\ LET k == term[t].conn
     IN  \/ /\ ~wire[k].sv
            /\ wire' = [wire EXCEPT ![k] = Down(@, Msg("open", t))]
            /\ term' = [term EXCEPT ![t].pc = "opened"]
            /\ UNCHANGED terminalCh
         \/ /\ CanFail(wire[k])
            /\ terminalCh' = terminalCh \ {t}
            /\ term' = [term EXCEPT ![t] = [CloseCh(t) EXCEPT !.pc = "over"]]
            /\ UNCHANGED wire
  /\ UNCHANGED <<hubVars, call, pending, counts>> /\ Runner

(* Close writes terminal_close, whose error is ignored, ...                *)
SendClose(t) ==
  /\ term[t].pc = "opened"
  /\ LET k == term[t].conn
     IN  \/ /\ ~wire[k].sv
            /\ wire' = [wire EXCEPT ![k] = Down(@, Msg("close", t))]
         \/ CanFail(wire[k]) /\ UNCHANGED wire
  /\ term' = [term EXCEPT ![t].pc = "closing"]
  /\ UNCHANGED <<hubVars, call, pending, terminalCh, counts>> /\ Runner

(* ... and closes the channel if the map still has it.                     *)
TakeChannel(t) ==
  /\ term[t].pc = "closing"
  /\ terminalCh' = terminalCh \ {t}
  /\ term' = [term EXCEPT ![t] =
                [(IF t \in terminalCh THEN CloseCh(t) ELSE term[t])
                   EXCEPT !.pc = "over"]]
  /\ UNCHANGED <<wire, hubVars, call, pending, counts>> /\ Runner

-----------------------------------------------------------------------------
ClientStep == \/ Loop \/ Dial \/ DialFails \/ Publish \/ SendAuth
              \/ SendAuthFails \/ Read \/ ReadEnds \/ Disconnected

HubStep(k) == Authenticate(k) \/ Handle(k) \/ HandlerEnds(k)
CallStep(c) == SendCall(c) \/ EndWait(c) \/ Forget(c)
TermStep(t) == SendOpen(t) \/ TakeChannel(t)

Next ==
  \/ ClientStep \/ Stop \/ Lose \/ SendEvent
  \/ \E k \in Conns : HubStep(k)
  \/ \E c \in Calls : Call(c) \/ CallStep(c) \/ Respond(c)
  \/ \E t \in Terms : Open(t) \/ TermStep(t) \/ SendClose(t) \/ TerminalExits(t)

Spec == Init /\ [][Next]_vars

(* The connect loop and every handler of the Hub keep running, and a dial  *)
(* does not fail for ever: the faults are bounded.                         *)
FairSpec ==
  /\ Spec
  /\ WF_vars(ClientStep)
  /\ \A k \in Conns : WF_vars(HubStep(k))
  /\ \A c \in Calls : WF_vars(CallStep(c))
  /\ \A t \in Terms : WF_vars(TermStep(t))

-----------------------------------------------------------------------------
(* Types.  What is under way each way, with S for the terminals it may name. *)

UpMessages(S) == [type : {"auth", "event"}, id : {"none"}]
                   \cup [type : {"response"}, id : Calls]
                   \cup [type : {"closed"}, id : S]

DownMessages(S) == [type : {"request"}, id : Calls]
                     \cup [type : {"open", "close"}, id : S]

Wires(S) == [up : Seq(UpMessages(S)), down : Seq(DownMessages(S)),
             lost : BOOLEAN, cl : BOOLEAN, sv : BOOLEAN]

LoopPhases == {"loop", "dial", "dialled", "auth", "read", "down", "returned"}

ClientType ==
  /\ client \in [pc : LoopPhases, conn : 0..MaxConns, mine : 0..MaxConns]
  /\ stopped \in LoopPhases \cup {"no"}

CallState == [pc : {"idle", "stored", "waiting", "failed", "timedout", "answered"},
              conn : 0..MaxConns, ch : BOOLEAN]

TermState == [pc : {"idle", "stored", "opened", "closing", "over"},
              conn : 0..MaxConns, ch : {"none", "open", "closed", "panic"}]

HubType ==
  /\ handler \in [Conns -> {"none", "auth", "serving", "ended"}]
  /\ conns \subseteq Conns
  /\ call \in [Calls -> CallState]
  /\ pending \subseteq Calls /\ working \subseteq Calls
  /\ term \in [Terms -> TermState]
  /\ terminalCh \subseteq Terms /\ attached \subseteq Terms

TypeOK ==
  /\ ClientType
  /\ HubType
  /\ wire \in [Conns -> Wires(Terms)]
  /\ faults \in 0..MaxFaults /\ events \in 0..MaxEvents

-----------------------------------------------------------------------------
(* Properties *)

(* What the Hub keeps is what somebody waits for: an id is in `pending` as *)
(* long as its call runs; a terminal is in the map as long as its channel  *)
(* is open, no channel is closed twice or written to after its close, and  *)
(* a session that is over has left none open - whoever gets there first of *)
(* the terminal's end, its Close and the failure of its open               *)
(* (SendResourceRequest, OpenTerminal, Close, handleTerminalMessage).      *)
MapsHoldWaiters ==
  /\ \A c \in Calls : /\ call[c].pc \in {"stored", "waiting"} => c \in pending
                      /\ call[c].pc = "idle" => c \notin pending
  /\ \A t \in Terms : /\ t \in terminalCh <=> term[t].ch = "open"
                      /\ term[t].ch # "panic"
                      /\ term[t].pc = "over" => term[t].ch = "closed"

Attached ==
  /\ client.pc = "read"
  /\ handler[client.mine] = "serving"
  /\ ~wire[client.mine].lost
  /\ conns = {client.mine}

(* The runner comes back: whatever breaks, is lost silently or is refused  *)
(* because an event overtook the authentication, in the end the loop reads *)
(* a connection the Hub serves and lists, and the Hub lists no other; or,  *)
(* after a Stop, Connect has returned.  The Stop that finds a dial under   *)
(* way is not covered: the connection is then published after it.          *)
ComesBack ==
  <>[](IF stopped = "no" THEN Attached
       ELSE client.pc = "returned" \/ stopped \in {"dial", "dialled"})

=============================================================================
