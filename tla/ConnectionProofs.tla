--------------------------- MODULE ConnectionProofs ---------------------------
(***************************************************************************)
(* Proofs about Connection, for any calls and terminals, any number of      *)
(* connections, faults and events: what the Hub's maps hold is what         *)
(* somebody waits for.  The part that is not inductive is the failure of    *)
(* OpenTerminal's send, which closes the channel without a look at the map: *)
(* it must come before anything on a wire can name the terminal.            *)
(***************************************************************************)
EXTENDS Connection, TLAPS

(* The terminals whose open may have been sent.                             *)
Opened == {t \in Terms : term[t].pc \notin {"idle", "stored"}}

(* Only those are named by what is under way or attached on the runner.     *)
WireInv ==
  /\ wire \in [Conns -> Wires(Opened)]
  /\ attached \subseteq Opened

(* The loop has a connection of its own from the dial to its end.           *)
MineInv == client.pc \in {"dialled", "auth", "read", "down"} => client.mine \in Conns

(* Before its open, a terminal has no channel, and then an open one.        *)
ChannelInv ==
  \A t \in Terms : /\ term[t].pc = "idle" => term[t].ch = "none"
                   /\ term[t].pc = "stored" => term[t].ch = "open"
                   /\ term[t].pc \in {"opened", "closing", "over"} => term[t].ch # "none"

IInv ==
  /\ TypeOK
  /\ WireInv
  /\ MineInv
  /\ ChannelInv
  /\ MapsHoldWaiters

-----------------------------------------------------------------------------
(* What is done to one connection.                                          *)

LEMMA WireGrows ==
  ASSUME NEW S, NEW T, S \subseteq T PROVE Wires(S) \subseteq Wires(T)
<1>1. UpMessages(S) \subseteq UpMessages(T) /\ DownMessages(S) \subseteq DownMessages(T)
  BY DEF UpMessages, DownMessages
<1>2. /\ Seq(UpMessages(S)) \subseteq Seq(UpMessages(T))
      /\ Seq(DownMessages(S)) \subseteq Seq(DownMessages(T))
  BY <1>1
<1> QED BY <1>2 DEF Wires

LEMMA WireClosed ==
  ASSUME NEW S, NEW w \in Wires(S)
  PROVE  /\ [w EXCEPT !.cl = TRUE] \in Wires(S)
         /\ [w EXCEPT !.down = <<>>] \in Wires(S)
         /\ [w EXCEPT !.up = <<>>, !.sv = TRUE] \in Wires(S)
         /\ \A up \in {<<>>, w.up}, down \in {<<>>, w.down} :
              [w EXCEPT !.lost = TRUE, !.up = up, !.down = down] \in Wires(S)
         /\ Dead \in Wires(S)
<1>1. <<>> \in Seq(UpMessages(S)) /\ <<>> \in Seq(DownMessages(S))
  OBVIOUS
<1> QED BY <1>1 DEF Wires, Dead

LEMMA WireWritten ==
  ASSUME NEW S, NEW w \in Wires(S)
  PROVE  /\ \A m \in UpMessages(S) : Up(w, m) \in Wires(S)
         /\ \A m \in DownMessages(S) : Down(w, m) \in Wires(S)
<1>1. ASSUME NEW m \in UpMessages(S) PROVE Up(w, m) \in Wires(S)
  <2>1. Append(w.up, m) \in Seq(UpMessages(S))
    BY DEF Wires
  <2> QED BY <2>1 DEF Up, Wires
<1>2. ASSUME NEW m \in DownMessages(S) PROVE Down(w, m) \in Wires(S)
  <2>1. Append(w.down, m) \in Seq(DownMessages(S))
    BY DEF Wires
  <2> QED BY <2>1 DEF Down, Wires
<1> QED BY <1>1, <1>2

LEMMA WireRead ==
  ASSUME NEW S, NEW w \in Wires(S)
  PROVE  /\ w.up # <<>> => /\ Head(w.up) \in UpMessages(S)
                           /\ [w EXCEPT !.up = Tail(@)] \in Wires(S)
         /\ w.down # <<>> => /\ Head(w.down) \in DownMessages(S)
                             /\ [w EXCEPT !.down = Tail(@)] \in Wires(S)
<1>1. /\ w.up \in Seq(UpMessages(S)) /\ w.down \in Seq(DownMessages(S))
  BY DEF Wires
<1>2. w.up # <<>> => /\ Head(w.up) \in UpMessages(S)
                     /\ Tail(w.up) \in Seq(UpMessages(S))
  BY <1>1
<1>3. w.down # <<>> => /\ Head(w.down) \in DownMessages(S)
                       /\ Tail(w.down) \in Seq(DownMessages(S))
  BY <1>1
<1> QED BY <1>2, <1>3 DEF Wires

(* One connection changes.                                                  *)
LEMMA WireChanges ==
  ASSUME NEW S, wire \in [Conns -> Wires(S)], NEW k, NEW w \in Wires(S),
         wire' = [wire EXCEPT ![k] = w]
  PROVE  wire' \in [Conns -> Wires(S)]
  OBVIOUS

(* Whoever on the runner has a message for the Hub.                         *)
LEMMA WriteKeepsWire ==
  ASSUME IInv, NEW m \in UpMessages(Opened), WriteJSON(m)
  PROVE  wire' \in [Conns -> Wires(Opened)]
<1>1. wire \in [Conns -> Wires(Opened)]
  BY DEF IInv, WireInv
<1>2. CASE UNCHANGED wire
  BY <1>1, <1>2
<1>3. CASE client.conn # 0 /\ wire' = [wire EXCEPT ![client.conn] = Up(@, m)]
  <2>1. client.conn \in Conns
    BY <1>3, ConnectionAssumption DEF IInv, TypeOK, ClientType, Conns
  <2>2. Up(wire[client.conn], m) \in Wires(Opened)
    BY <1>1, <2>1, WireWritten
  <2> QED BY <1>1, <1>3, <2>2, WireChanges
<1> QED BY <1>2, <1>3 DEF WriteJSON

(* A step that leaves the calls and the terminals alone.                    *)
LEMMA LinkStep ==
  ASSUME IInv, UNCHANGED <<callVars, termVars>>, ClientType', MineInv',
         handler' \in [Conns -> {"none", "auth", "serving", "ended"}],
         conns' \subseteq Conns, faults' \in 0..MaxFaults, events' \in 0..MaxEvents,
         wire' \in [Conns -> Wires(Opened)]
  PROVE  IInv'
<1> USE DEF IInv, callVars, termVars
<1>1. Opened' = Opened
  BY DEF Opened
<1>2. WireInv'
  BY <1>1 DEF WireInv
<1>3. wire' \in [Conns -> Wires(Terms)]
  <2>1. Wires(Opened) \subseteq Wires(Terms)
    BY WireGrows DEF Opened
  <2> QED BY <2>1
<1>4. TypeOK'
  BY <1>3 DEF TypeOK, HubType
<1>5. (ChannelInv /\ MapsHoldWaiters)'
  BY DEF ChannelInv, MapsHoldWaiters
<1> QED BY <1>2, <1>4, <1>5

(* A step that leaves the client and the handlers alone.                    *)
LEMMA HubCallStep ==
  ASSUME IInv, UNCHANGED <<clientVars, hubVars, counts>>, HubType',
         Opened \subseteq Opened', wire' \in [Conns -> Wires(Opened')],
         attached' \subseteq Opened', ChannelInv', MapsHoldWaiters'
  PROVE  IInv'
<1> USE DEF IInv, clientVars, counts
<1>1. wire' \in [Conns -> Wires(Terms)]
  <2>1. Opened' \subseteq Terms
    BY DEF Opened
  <2>2. Wires(Opened') \subseteq Wires(Terms)
    BY <2>1, WireGrows
  <2> QED BY <2>2
<1>2. TypeOK'
  BY <1>1 DEF TypeOK, ClientType
<1>3. WireInv' /\ MineInv'
  BY DEF WireInv, MineInv
<1> QED BY <1>2, <1>3

-----------------------------------------------------------------------------
(* The connect loop.                                                        *)

(* The steps of the loop that write nothing.                                *)
LEMMA LoopKeeps ==
  ASSUME IInv, Loop \/ Dial \/ DialFails \/ Publish \/ ReadEnds
  PROVE  IInv'
<1> USE ConnectionAssumption DEF IInv
<1>1. /\ UNCHANGED <<callVars, termVars, conns, wire>>
      /\ handler' \in [Conns -> {"none", "auth", "serving", "ended"}]
      /\ faults' \in 0..MaxFaults /\ events' \in 0..MaxEvents
  <2>1. Loop \/ Publish \/ ReadEnds
          => UNCHANGED <<callVars, termVars, conns, wire, handler, counts>>
    BY DEF Loop, Publish, ReadEnds, Others, hubVars
  <2>2. Dial => /\ UNCHANGED <<callVars, termVars, conns, wire, counts>>
                /\ \E k \in Conns : handler' = [handler EXCEPT ![k] = "auth"]
    BY DEF Dial
  <2>3. DialFails => /\ UNCHANGED <<callVars, termVars, conns, wire, handler, events>>
                     /\ faults' = faults + 1 /\ faults < MaxFaults
    BY DEF DialFails, Others, hubVars
  <2> QED BY <2>1, <2>2, <2>3 DEF TypeOK, HubType, counts
<1>2. ClientType' /\ MineInv'
  <2> USE DEF TypeOK, ClientType, LoopPhases, MineInv, Client
  <2>1. CASE Loop
    BY <2>1 DEF Loop
  <2>2. CASE Dial
    <3>1. PICK k \in Conns : client' = [client EXCEPT !.pc = "dialled", !.mine = k]
      BY <2>2 DEF Dial
    <3>2. stopped' = stopped
      BY <2>2 DEF Dial
    <3>3. MaxConns \in Nat
      BY ConnectionAssumption
    <3>4. k \in 0..MaxConns
      BY ONLY <3>1, <3>3 DEF Conns
    <3>5. k \in Conns
      BY <3>1
    <3> QED BY <3>1, <3>2, <3>4, <3>5
  <2>3. CASE DialFails
    BY <2>3 DEF DialFails
  <2>4. CASE Publish
    BY <2>4 DEF Publish
  <2>5. CASE ReadEnds
    BY <2>5 DEF ReadEnds
  <2> QED BY <2>1, <2>2, <2>3, <2>4, <2>5
<1>3. wire' \in [Conns -> Wires(Opened)] /\ conns' \subseteq Conns
  BY <1>1 DEF WireInv, TypeOK, HubType
<1> QED BY <1>1, <1>2, <1>3, LinkStep

(* The steps of the loop, and Stop, that write to a connection or close it. *)
LEMMA LoopWritesKeep ==
  ASSUME IInv, SendAuth \/ SendAuthFails \/ Disconnected \/ Stop
  PROVE  IInv'
<1> USE ConnectionAssumption DEF IInv
<1>1. /\ UNCHANGED <<callVars, termVars, conns, handler>>
      /\ faults' \in 0..MaxFaults /\ events' \in 0..MaxEvents
  BY DEF SendAuth, SendAuthFails, Disconnected, Stop, Others, hubVars, counts, TypeOK
<1>2. ClientType' /\ MineInv'
  <2> USE DEF TypeOK, ClientType, LoopPhases, MineInv, Client
  <2>1. CASE SendAuth
    BY <2>1 DEF SendAuth
  <2>2. CASE SendAuthFails
    BY <2>2 DEF SendAuthFails
  <2>3. CASE Disconnected
    <3>1. PICK p \in {"loop", "returned"} : client' = [client EXCEPT !.conn = 0, !.pc = p]
      BY <2>3 DEF Disconnected
    <3>2. stopped' = stopped /\ 0 \in 0..MaxConns
      BY <2>3 DEF Disconnected
    <3> QED BY <3>1, <3>2
  <2>4. CASE Stop
    BY <2>4 DEF Stop
  <2> QED BY <2>1, <2>2, <2>3, <2>4
<1>3. wire' \in [Conns -> Wires(Opened)]
  <2>1. wire \in [Conns -> Wires(Opened)]
    BY DEF WireInv
  <2>2. client.conn # 0 => client.conn \in Conns
    BY DEF TypeOK, ClientType, Conns
  <2>3. CASE SendAuth
    <3>1. Plain("auth") \in UpMessages(Opened)
      BY DEF Plain, Msg, UpMessages
    <3>2. wire' = [wire EXCEPT ![client.conn] = Up(@, Plain("auth"))] /\ client.conn \in Conns
      BY <2>2, <2>3 DEF SendAuth
    <3> QED BY <2>1, <3>1, <3>2, WireWritten, WireChanges
  <2>4. CASE SendAuthFails
    <3>1. /\ client.mine \in Conns
          /\ wire' = [wire EXCEPT ![client.mine] = [@ EXCEPT !.cl = TRUE]]
      BY <2>4 DEF SendAuthFails, MineInv
    <3> QED BY <2>1, <3>1, WireClosed, WireChanges
  <2>5. CASE Disconnected
    <3>1. /\ client.mine \in Conns
          /\ \/ wire' = [wire EXCEPT ![client.mine] = Dead]
             \/ wire' = [wire EXCEPT ![client.mine] = [@ EXCEPT !.down = <<>>]]
      BY <2>5 DEF Disconnected, MineInv
    <3> QED BY <2>1, <3>1, WireClosed, WireChanges
  <2>6. CASE Stop
    <3>1. \/ wire' = wire
          \/ /\ client.conn \in Conns
             /\ wire' = [wire EXCEPT ![client.conn] = [@ EXCEPT !.cl = TRUE]]
      BY <2>2, <2>6 DEF Stop
    <3> QED BY <2>1, <3>1, WireClosed, WireChanges
  <2> QED BY <2>3, <2>4, <2>5, <2>6
<1>4. /\ handler' \in [Conns -> {"none", "auth", "serving", "ended"}]
      /\ conns' \subseteq Conns
  BY <1>1 DEF TypeOK, HubType
<1> QED BY <1>1, <1>2, <1>3, <1>4, LinkStep

(* A connection dies silently.                                              *)
LEMMA LoseKeeps == ASSUME IInv, Lose PROVE IInv'
<1> USE ConnectionAssumption DEF IInv
<1>1. /\ UNCHANGED <<clientVars, callVars, termVars, hubVars>>
      /\ faults' \in 0..MaxFaults /\ events' \in 0..MaxEvents
  BY DEF Lose, TypeOK
<1>2. PICK k \in Conns :
        \E up \in {<<>>, wire[k].up}, down \in {<<>>, wire[k].down} :
          wire' = [wire EXCEPT ![k] = [@ EXCEPT !.lost = TRUE, !.up = up, !.down = down]]
  BY DEF Lose
<1>3. wire' \in [Conns -> Wires(Opened)]
  <2>1. wire[k] \in Wires(Opened)
    BY DEF WireInv
  <2>2. PICK up \in {<<>>, wire[k].up}, down \in {<<>>, wire[k].down} :
          wire' = [wire EXCEPT ![k] = [@ EXCEPT !.lost = TRUE, !.up = up, !.down = down]]
    BY <1>2
  <2>3. [wire[k] EXCEPT !.lost = TRUE, !.up = up, !.down = down] \in Wires(Opened)
    BY <2>1, WireClosed
  <2> QED BY <2>2, <2>3, WireChanges DEF WireInv
<1>4. ClientType' /\ MineInv'
  BY <1>1 DEF clientVars, TypeOK, ClientType, MineInv
<1>5. /\ handler' \in [Conns -> {"none", "auth", "serving", "ended"}]
      /\ conns' \subseteq Conns
  BY <1>1 DEF hubVars, TypeOK, HubType
<1> QED BY <1>1, <1>3, <1>4, <1>5, LinkStep

(* An event of a running request.                                           *)
LEMMA SendEventKeeps == ASSUME IInv, SendEvent PROVE IInv'
<1> USE ConnectionAssumption DEF IInv
<1>1. /\ UNCHANGED <<clientVars, callVars, termVars, hubVars>>
      /\ faults' \in 0..MaxFaults /\ events' \in 0..MaxEvents
  BY DEF SendEvent, TypeOK
<1>2. Plain("event") \in UpMessages(Opened)
  BY DEF Plain, Msg, UpMessages
<1>3. wire' \in [Conns -> Wires(Opened)]
  BY <1>2, WriteKeepsWire DEF SendEvent
<1>4. ClientType' /\ MineInv'
  BY <1>1 DEF clientVars, TypeOK, ClientType, MineInv
<1>5. /\ handler' \in [Conns -> {"none", "auth", "serving", "ended"}]
      /\ conns' \subseteq Conns
  BY <1>1 DEF hubVars, TypeOK, HubType
<1> QED BY <1>1, <1>3, <1>4, <1>5, LinkStep

(* The Hub refuses or registers a connection, or gives it up.               *)
LEMMA HandlerKeeps ==
  ASSUME IInv, NEW k \in Conns, Authenticate(k) \/ HandlerEnds(k)
  PROVE  IInv'
<1> USE DEF IInv
<1>1. /\ UNCHANGED <<clientVars, callVars, termVars, events>>
      /\ \E h \in {"serving", "ended"} : handler' = [handler EXCEPT ![k] = h]
      /\ conns' \subseteq conns \cup {k}
      /\ faults' = faults \/ (faults < MaxFaults /\ faults' = faults + 1)
  BY DEF Authenticate, HandlerEnds, Runner, callVars, termVars, counts
<1>2. wire' \in [Conns -> Wires(Opened)]
  <2>1. wire \in [Conns -> Wires(Opened)]
    BY DEF WireInv
  <2>2. Ended(k) \in Wires(Opened)
    BY <2>1, WireClosed DEF Ended
  <2>3. CASE wire' = [wire EXCEPT ![k] = Ended(k)]
    BY <2>1, <2>2, <2>3, WireChanges
  <2>4. CASE wire[k].up # <<>> /\ wire' = [wire EXCEPT ![k].up = Tail(@)]
    <3>1. [wire[k] EXCEPT !.up = Tail(@)] \in Wires(Opened)
      BY <2>1, <2>4, WireRead
    <3> QED BY <2>1, <2>4, <3>1
  <2> QED BY <2>3, <2>4 DEF Authenticate, HandlerEnds
<1>3. ClientType' /\ MineInv'
  BY <1>1 DEF clientVars, TypeOK, ClientType, MineInv
<1>4. /\ handler' \in [Conns -> {"none", "auth", "serving", "ended"}]
      /\ conns' \subseteq Conns
      /\ faults' \in 0..MaxFaults /\ events' \in 0..MaxEvents
  BY <1>1, ConnectionAssumption DEF TypeOK, HubType
<1> QED BY <1>1, <1>2, <1>3, <1>4, LinkStep

-----------------------------------------------------------------------------
(* The runner's handlers, and what the Hub does with their messages.        *)

(* The loop reads a message of the Hub's; an open that it hands on has been *)
(* sent.                                                                    *)
LEMMA ReadKeeps == ASSUME IInv, Read PROVE IInv'
<1> USE DEF IInv
<1> DEFINE k == client.mine
           m == Head(wire[k].down)
<1>1. k \in Conns /\ wire \in [Conns -> Wires(Opened)] /\ wire[k].down # <<>>
  BY DEF Read, MineInv, WireInv
<1>2. m \in DownMessages(Opened) /\ wire' \in [Conns -> Wires(Opened)]
  <2>1. m \in DownMessages(Opened) /\ [wire[k] EXCEPT !.down = Tail(@)] \in Wires(Opened)
    BY <1>1, WireRead
  <2>2. wire' = [wire EXCEPT ![k].down = Tail(@)]
    BY DEF Read
  <2> QED BY <1>1, <2>1, <2>2
<1>3. Opened' = Opened /\ UNCHANGED <<call, pending, term, terminalCh>>
  BY DEF Read, Opened
<1>4. working' \subseteq Calls /\ attached' \subseteq Opened
  BY <1>2 DEF Read, DownMessages, TypeOK, HubType, WireInv
<1>5. HubType'
  BY <1>3, <1>4 DEF Read, TypeOK, HubType, hubVars, Opened
<1>6. ChannelInv' /\ MapsHoldWaiters'
  BY <1>3 DEF ChannelInv, MapsHoldWaiters
<1>7. UNCHANGED <<clientVars, hubVars, counts>>
  BY DEF Read
<1> QED BY <1>2, <1>3, <1>4, <1>5, <1>6, <1>7, HubCallStep

(* A request is answered, on whatever connection there is.                  *)
LEMMA RespondKeeps == ASSUME IInv, NEW c \in Calls, Respond(c) PROVE IInv'
<1> USE DEF IInv
<1>1. Msg("response", c) \in UpMessages(Opened)
  BY DEF Msg, UpMessages
<1>2. wire' \in [Conns -> Wires(Opened)]
  BY <1>1, WriteKeepsWire DEF Respond
<1>3. /\ UNCHANGED <<clientVars, hubVars, counts>>
      /\ UNCHANGED <<call, pending, term, terminalCh, attached>>
      /\ working' \subseteq Calls /\ Opened' = Opened
  BY DEF Respond, termVars, TypeOK, HubType, Opened
<1>4. HubType' /\ attached' \subseteq Opened'
  BY <1>3 DEF TypeOK, HubType, hubVars, WireInv
<1>5. ChannelInv' /\ MapsHoldWaiters'
  BY <1>3 DEF ChannelInv, MapsHoldWaiters
<1> QED BY <1>2, <1>3, <1>4, <1>5, HubCallStep

(* An attachment ends; its open was sent.                                   *)
LEMMA TerminalExitsKeeps == ASSUME IInv, NEW t \in Terms, TerminalExits(t) PROVE IInv'
<1> USE DEF IInv
<1>1. Msg("closed", t) \in UpMessages(Opened)
  BY DEF Msg, UpMessages, TerminalExits, WireInv
<1>2. wire' \in [Conns -> Wires(Opened)]
  BY <1>1, WriteKeepsWire DEF TerminalExits
<1>3. /\ UNCHANGED <<clientVars, hubVars, counts>>
      /\ UNCHANGED <<call, pending, term, terminalCh, working>>
      /\ attached' \subseteq attached /\ Opened' = Opened
  BY DEF TerminalExits, callVars, Opened
<1>4. HubType' /\ attached' \subseteq Opened'
  BY <1>3 DEF TypeOK, HubType, hubVars, WireInv
<1>5. ChannelInv' /\ MapsHoldWaiters'
  BY <1>3 DEF ChannelInv, MapsHoldWaiters
<1> QED BY <1>2, <1>3, <1>4, <1>5, HubCallStep

(* The handler takes a message: a response for a call that waits, the end   *)
(* of a terminal whose channel is still in the map.                         *)
LEMMA HandleKeeps == ASSUME IInv, NEW k \in Conns, Handle(k) PROVE IInv'
<1> USE DEF IInv
<1> DEFINE m == Head(wire[k].up)
           over == m.type = "closed" /\ m.id \in terminalCh
<1>1. m \in UpMessages(Opened) /\ wire' \in [Conns -> Wires(Opened)]
  <2>1. wire \in [Conns -> Wires(Opened)] /\ wire[k].up # <<>>
    BY DEF Handle, WireInv
  <2>2. m \in UpMessages(Opened) /\ [wire[k] EXCEPT !.up = Tail(@)] \in Wires(Opened)
    BY <2>1, WireRead
  <2>3. wire' = [wire EXCEPT ![k].up = Tail(@)]
    BY DEF Handle
  <2> QED BY <2>1, <2>2, <2>3
<1>2. /\ UNCHANGED <<clientVars, hubVars, counts, pending, working, attached>>
      /\ \/ call' = call
         \/ m.id \in pending /\ call' = [call EXCEPT ![m.id].ch = TRUE]
      /\ \/ ~over /\ term' = term /\ terminalCh' = terminalCh
         \/ /\ over /\ terminalCh' = terminalCh \ {m.id}
            /\ term' = [term EXCEPT ![m.id] = CloseCh(m.id)]
  BY DEF Handle, Runner
<1> HIDE DEF m
<1>3. /\ call' \in [Calls -> CallState]
      /\ \A c \in Calls : call'[c].pc = call[c].pc
  <2>1. CASE call' = call
    BY <2>1 DEF TypeOK, HubType
  <2>2. CASE m.id \in pending /\ call' = [call EXCEPT ![m.id] = [@ EXCEPT !.ch = TRUE]]
    <3>1. m.id \in Calls
      BY <2>2 DEF TypeOK, HubType
    <3>2. ASSUME NEW i \in Calls, call' = [call EXCEPT ![i] = [@ EXCEPT !.ch = TRUE]]
          PROVE  /\ call' \in [Calls -> CallState]
                 /\ \A c \in Calls : call'[c].pc = call[c].pc
      BY <3>2 DEF TypeOK, HubType, CallState
    <3> QED BY <2>2, <3>1, <3>2
  <2> QED BY <1>2, <2>1, <2>2
<1>4. over => /\ m.id \in Opened
              /\ term[m.id].ch = "open"
              /\ CloseCh(m.id) = [term[m.id] EXCEPT !.ch = "closed"]
  <2> SUFFICES ASSUME over PROVE /\ m.id \in Opened
                                 /\ term[m.id].ch = "open"
                                 /\ CloseCh(m.id) = [term[m.id] EXCEPT !.ch = "closed"]
    OBVIOUS
  <2>1. m.id \in Opened
    BY <1>1 DEF UpMessages
  <2>2. term[m.id].ch = "open"
    BY <2>1 DEF MapsHoldWaiters, Opened
  <2> QED BY <2>1, <2>2 DEF CloseCh, TypeOK, HubType, Opened
<1>5. CASE ~over
  <2>1. UNCHANGED <<term, terminalCh>> /\ Opened' = Opened
    BY <1>2, <1>5 DEF Opened
  <2>2. HubType'
    BY <1>2, <1>3, <2>1 DEF TypeOK, HubType, hubVars
  <2>3. ChannelInv' /\ MapsHoldWaiters'
    BY <1>2, <1>3, <2>1 DEF ChannelInv, MapsHoldWaiters
  <2>4. attached' \subseteq Opened'
    BY <1>2, <2>1 DEF WireInv
  <2> QED BY <1>1, <1>2, <2>1, <2>2, <2>3, <2>4, HubCallStep
<1>6. CASE over
  <2>1. /\ term' = [term EXCEPT ![m.id] = [@ EXCEPT !.ch = "closed"]]
        /\ terminalCh' = terminalCh \ {m.id} /\ m.id \in Opened
    BY <1>2, <1>4, <1>6
  <2>2. Opened' = Opened
    BY <2>1 DEF TypeOK, HubType, Opened
  <2>3. HubType'
    <3>1. term' \in [Terms -> TermState]
      BY <2>1 DEF TypeOK, HubType, TermState
    <3> QED BY <1>2, <1>3, <2>1, <3>1 DEF TypeOK, HubType, hubVars
  <2>4. ChannelInv'
    BY <2>1 DEF ChannelInv, TypeOK, HubType, Opened
  <2>5. MapsHoldWaiters'
    BY <1>2, <1>3, <2>1 DEF MapsHoldWaiters, TypeOK, HubType, Opened
  <2>6. attached' \subseteq Opened'
    BY <1>2, <2>2 DEF WireInv
  <2> QED BY <1>1, <1>2, <2>2, <2>3, <2>4, <2>5, <2>6, HubCallStep
<1> QED BY <1>5, <1>6

-----------------------------------------------------------------------------
(* SendResourceRequest.                                                     *)

(* What the steps of a call leave alone.                                    *)
LEMMA CallStepKeeps ==
  ASSUME IInv, NEW c \in Calls,
         UNCHANGED <<clientVars, hubVars, counts, working, termVars>>,
         call' \in [Calls -> CallState],
         pending' \subseteq Calls,
         wire' \in [Conns -> Wires(Opened)],
         \A d \in Calls \ {c} : /\ call'[d] = call[d]
                                /\ d \in pending' <=> d \in pending,
         /\ call'[c].pc \in {"stored", "waiting"} => c \in pending'
         /\ call'[c].pc = "idle" => c \notin pending'
  PROVE  IInv'
<1> USE DEF IInv, termVars
<1>1. Opened' = Opened /\ attached' \subseteq Opened'
  BY DEF Opened, WireInv
<1>2. HubType'
  BY DEF TypeOK, HubType, hubVars
<1>3. ChannelInv' /\ MapsHoldWaiters'
  BY DEF ChannelInv, MapsHoldWaiters
<1> QED BY <1>1, <1>2, <1>3, HubCallStep

(* The id of the call is in the map before the request is sent.             *)
LEMMA CallKeeps == ASSUME IInv, NEW c \in Calls, Call(c) PROVE IInv'
<1> USE DEF IInv
<1>1. PICK k \in conns : call' = [call EXCEPT ![c] = [@ EXCEPT !.pc = "stored", !.conn = k]]
  BY DEF Call
<1>2. k \in 0..MaxConns
  BY <1>1, ConnectionAssumption DEF TypeOK, HubType, Conns
<1>3. /\ UNCHANGED <<clientVars, hubVars, counts, working, termVars, wire>>
      /\ pending' = pending \cup {c}
  BY DEF Call, Runner, termVars
<1>4. /\ call' \in [Calls -> CallState]
      /\ call'[c].pc = "stored" /\ \A d \in Calls \ {c} : call'[d] = call[d]
  BY <1>1, <1>2 DEF TypeOK, HubType, CallState
<1>5. pending' \subseteq Calls /\ wire' \in [Conns -> Wires(Opened)]
  BY <1>3 DEF TypeOK, HubType, WireInv
<1> QED BY <1>3, <1>4, <1>5, CallStepKeeps

(* The request is written, or not.                                          *)
LEMMA SendCallKeeps == ASSUME IInv, NEW c \in Calls, SendCall(c) PROVE IInv'
<1> USE DEF IInv
<1>1. /\ UNCHANGED <<clientVars, hubVars, counts, working, termVars, pending>>
      /\ call[c].pc = "stored"
      /\ \E p \in {"waiting", "failed"} : call' = [call EXCEPT ![c] = [@ EXCEPT !.pc = p]]
  BY DEF SendCall, Runner, termVars
<1>2. wire' \in [Conns -> Wires(Opened)]
  <2>1. wire \in [Conns -> Wires(Opened)]
    BY DEF WireInv
  <2>2. Msg("request", c) \in DownMessages(Opened)
    BY DEF Msg, DownMessages
  <2>3. \/ wire' = wire
        \/ wire' = [wire EXCEPT ![call[c].conn] = Down(@, Msg("request", c))]
    BY DEF SendCall
  <2> QED BY <2>1, <2>2, <2>3, WireWritten
<1>3. PICK p \in {"waiting", "failed"} : call' = [call EXCEPT ![c] = [@ EXCEPT !.pc = p]]
  BY <1>1
<1>4. /\ call' \in [Calls -> CallState]
      /\ call'[c].pc = p /\ \A d \in Calls \ {c} : call'[d] = call[d]
  BY <1>3 DEF TypeOK, HubType, CallState
<1>5. c \in pending /\ pending' \subseteq Calls
  BY <1>1 DEF MapsHoldWaiters, TypeOK, HubType
<1> QED BY <1>1, <1>2, <1>4, <1>5, CallStepKeeps

(* The response or the timer.                                               *)
LEMMA EndWaitKeeps == ASSUME IInv, NEW c \in Calls, EndWait(c) PROVE IInv'
<1> USE DEF IInv
<1>1. /\ UNCHANGED <<clientVars, hubVars, counts, working, termVars, pending, wire>>
      /\ \E p \in {"timedout", "answered"} : call' = [call EXCEPT ![c] = [@ EXCEPT !.pc = p]]
  BY DEF EndWait, Runner, termVars
<1>2. PICK p \in {"timedout", "answered"} : call' = [call EXCEPT ![c] = [@ EXCEPT !.pc = p]]
  BY <1>1
<1>3. /\ call' \in [Calls -> CallState]
      /\ call'[c].pc = p /\ \A d \in Calls \ {c} : call'[d] = call[d]
  BY <1>2 DEF TypeOK, HubType, CallState
<1>4. pending' \subseteq Calls /\ wire' \in [Conns -> Wires(Opened)]
  BY <1>1 DEF TypeOK, HubType, WireInv
<1> QED BY <1>1, <1>3, <1>4, CallStepKeeps

(* The deferred delete, when the wait is over.                              *)
LEMMA ForgetKeeps == ASSUME IInv, NEW c \in Calls, Forget(c) PROVE IInv'
<1> USE DEF IInv
<1>1. /\ UNCHANGED <<clientVars, hubVars, counts, working, termVars, call, wire>>
      /\ call[c].pc \in {"failed", "timedout", "answered"}
      /\ pending' = pending \ {c}
  BY DEF Forget, Returning, Runner, termVars
<1>2. /\ call' \in [Calls -> CallState]
      /\ pending' \subseteq Calls /\ wire' \in [Conns -> Wires(Opened)]
  BY <1>1 DEF TypeOK, HubType, WireInv
<1> QED BY <1>1, <1>2, CallStepKeeps

-----------------------------------------------------------------------------
(* OpenTerminal and TerminalSession.Close.                                  *)

(* What the steps of a terminal leave alone; its channel and its entry in   *)
(* the map go together.                                                     *)
LEMMA TermStepKeeps ==
  ASSUME IInv, NEW t \in Terms,
         UNCHANGED <<clientVars, hubVars, counts, callVars, attached>>,
         term' \in [Terms -> TermState],
         terminalCh' \subseteq Terms,
         wire' \in [Conns -> Wires(Opened')],
         \A s \in Terms \ {t} : /\ term'[s] = term[s]
                                /\ s \in terminalCh' <=> s \in terminalCh,
         t \in Opened => t \in Opened',
         /\ t \in terminalCh' <=> term'[t].ch = "open"
         /\ term'[t].ch # "panic"
         /\ term'[t].pc = "over" => term'[t].ch = "closed"
         /\ term'[t].pc = "idle" => term'[t].ch = "none"
         /\ term'[t].pc = "stored" => term'[t].ch = "open"
         /\ term'[t].pc \in {"opened", "closing", "over"} => term'[t].ch # "none"
  PROVE  IInv'
<1> USE DEF IInv, callVars
<1>1. Opened \subseteq Opened' /\ attached' \subseteq Opened'
  BY DEF Opened, WireInv
<1>2. HubType'
  BY DEF TypeOK, HubType, hubVars
<1>3. ChannelInv'
  BY DEF ChannelInv
<1>4. MapsHoldWaiters'
  BY DEF MapsHoldWaiters
<1> QED BY <1>1, <1>2, <1>3, <1>4, HubCallStep

(* The channel is in the map before the open is sent.                       *)
LEMMA OpenKeeps == ASSUME IInv, NEW t \in Terms, Open(t) PROVE IInv'
<1> USE DEF IInv
<1>1. PICK k \in conns :
        term' = [term EXCEPT ![t] = [pc |-> "stored", conn |-> k, ch |-> "open"]]
  BY DEF Open
<1>2. k \in 0..MaxConns
  <2>1. k \in Conns /\ MaxConns \in Nat
    BY <1>1, ConnectionAssumption DEF TypeOK, HubType
  <2> QED BY ONLY <2>1 DEF Conns
<1>3. /\ UNCHANGED <<clientVars, hubVars, counts, callVars, attached, wire>>
      /\ terminalCh' = terminalCh \cup {t} /\ t \notin Opened
  BY DEF Open, Runner, callVars, Opened
<1>4. /\ term' \in [Terms -> TermState]
      /\ term'[t].pc = "stored" /\ term'[t].ch = "open"
      /\ \A s \in Terms \ {t} : term'[s] = term[s]
  BY <1>1, <1>2 DEF TypeOK, HubType, TermState
<1>5. terminalCh' \subseteq Terms
  BY <1>3 DEF TypeOK, HubType
<1>6. wire' \in [Conns -> Wires(Opened')]
  <2>1. Opened' = Opened
    BY <1>3, <1>4 DEF Opened
  <2> QED BY <1>3, <2>1 DEF WireInv
<1> QED BY <1>3, <1>4, <1>5, <1>6, TermStepKeeps

(* The open is written; or it is not, and nothing can have closed the       *)
(* channel yet.                                                             *)
LEMMA SendOpenKeeps == ASSUME IInv, NEW t \in Terms, SendOpen(t) PROVE IInv'
<1> USE DEF IInv
<1>1. /\ UNCHANGED <<clientVars, hubVars, counts, callVars, attached>>
      /\ term[t].pc = "stored" /\ term[t].ch = "open" /\ t \in terminalCh
  BY DEF SendOpen, Runner, callVars, ChannelInv, MapsHoldWaiters
<1>2. /\ wire \in [Conns -> Wires(Opened)]
      /\ \A s \in Terms \ {t} : term'[s] = term[s] => (s \in Opened' <=> s \in Opened)
  BY DEF WireInv, Opened
<1>3. CASE /\ wire' = [wire EXCEPT ![term[t].conn] = Down(@, Msg("open", t))]
           /\ term' = [term EXCEPT ![t] = [@ EXCEPT !.pc = "opened"]]
           /\ UNCHANGED terminalCh
  <2>1. /\ term' \in [Terms -> TermState]
        /\ term'[t].pc = "opened" /\ term'[t].ch = "open"
        /\ \A s \in Terms \ {t} : term'[s] = term[s]
    BY <1>1, <1>3 DEF TypeOK, HubType, TermState
  <2>2. Opened \subseteq Opened' /\ t \in Opened'
    BY <1>2, <2>1 DEF Opened
  <2>3. wire' \in [Conns -> Wires(Opened')]
    <3>1. Msg("open", t) \in DownMessages(Opened')
      BY <2>2 DEF Msg, DownMessages
    <3>2. wire \in [Conns -> Wires(Opened')]
      <4>1. Wires(Opened) \subseteq Wires(Opened')
        BY <2>2, WireGrows
      <4> QED BY <1>2, <4>1
    <3> QED BY <1>3, <3>1, <3>2, WireWritten
  <2>4. terminalCh' \subseteq Terms
    BY <1>3 DEF TypeOK, HubType
  <2> QED BY <1>1, <1>3, <2>1, <2>2, <2>3, <2>4, TermStepKeeps
<1>4. CASE /\ terminalCh' = terminalCh \ {t}
           /\ term' = [term EXCEPT ![t] = [CloseCh(t) EXCEPT !.pc = "over"]]
           /\ UNCHANGED wire
  <2>1. /\ term' \in [Terms -> TermState]
        /\ term'[t].pc = "over" /\ term'[t].ch = "closed"
        /\ \A s \in Terms \ {t} : term'[s] = term[s]
    BY <1>1, <1>4 DEF TypeOK, HubType, TermState, CloseCh
  <2>2. Opened \subseteq Opened' /\ t \in Opened'
    BY <1>2, <2>1 DEF Opened
  <2>3. wire' \in [Conns -> Wires(Opened')]
    <3>1. Wires(Opened) \subseteq Wires(Opened')
      BY <2>2, WireGrows
    <3> QED BY <1>2, <1>4, <3>1
  <2>4. terminalCh' \subseteq Terms
    BY <1>4 DEF TypeOK, HubType
  <2> QED BY <1>1, <1>4, <2>1, <2>2, <2>3, <2>4, TermStepKeeps
<1> QED BY <1>3, <1>4 DEF SendOpen

(* Close tells the runner, ...                                              *)
LEMMA SendCloseKeeps == ASSUME IInv, NEW t \in Terms, SendClose(t) PROVE IInv'
<1> USE DEF IInv
<1>1. /\ UNCHANGED <<clientVars, hubVars, counts, callVars, attached, terminalCh>>
      /\ term[t].pc = "opened"
      /\ term' = [term EXCEPT ![t] = [@ EXCEPT !.pc = "closing"]]
  BY DEF SendClose, Runner, callVars
<1>2. /\ term' \in [Terms -> TermState]
      /\ term'[t].pc = "closing" /\ term'[t].ch = term[t].ch
      /\ \A s \in Terms \ {t} : term'[s] = term[s]
  BY <1>1 DEF TypeOK, HubType, TermState
<1>3. Opened' = Opened /\ t \in Opened
  BY <1>1, <1>2 DEF Opened
<1>4. wire' \in [Conns -> Wires(Opened')]
  <2>1. wire \in [Conns -> Wires(Opened)]
    BY DEF WireInv
  <2>2. Msg("close", t) \in DownMessages(Opened)
    BY <1>3 DEF Msg, DownMessages
  <2>3. \/ wire' = wire
        \/ wire' = [wire EXCEPT ![term[t].conn] = Down(@, Msg("close", t))]
    BY DEF SendClose
  <2> QED BY <1>3, <2>1, <2>2, <2>3, WireWritten
<1>5. terminalCh' \subseteq Terms
  BY <1>1 DEF TypeOK, HubType
<1>6. /\ t \in terminalCh <=> term[t].ch = "open"
      /\ term[t].ch \notin {"panic", "none"}
  BY <1>1 DEF MapsHoldWaiters, ChannelInv
<1> QED BY <1>1, <1>2, <1>3, <1>4, <1>5, <1>6, TermStepKeeps

(* ... and closes the channel, unless the end of the terminal already has.  *)
LEMMA TakeChannelKeeps == ASSUME IInv, NEW t \in Terms, TakeChannel(t) PROVE IInv'
<1> USE DEF IInv
<1>1. /\ UNCHANGED <<clientVars, hubVars, counts, callVars, attached, wire>>
      /\ term[t].pc = "closing" /\ terminalCh' = terminalCh \ {t}
      /\ term' = [term EXCEPT ![t] = [(IF t \in terminalCh THEN CloseCh(t) ELSE term[t])
                                        EXCEPT !.pc = "over"]]
  BY DEF TakeChannel, Runner, callVars
<1>2. /\ t \in terminalCh <=> term[t].ch = "open"
      /\ term[t].ch \in {"open", "closed"}
  BY <1>1 DEF MapsHoldWaiters, ChannelInv, TypeOK, HubType, TermState
<1>3. /\ term' \in [Terms -> TermState]
      /\ term'[t].pc = "over" /\ term'[t].ch = "closed"
      /\ \A s \in Terms \ {t} : term'[s] = term[s]
  BY <1>1, <1>2 DEF TypeOK, HubType, TermState, CloseCh
<1>4. Opened' = Opened
  BY <1>1, <1>3 DEF Opened
<1>5. wire' \in [Conns -> Wires(Opened')] /\ terminalCh' \subseteq Terms
  BY <1>1, <1>4 DEF WireInv, TypeOK, HubType
<1> QED BY <1>1, <1>3, <1>4, <1>5, TermStepKeeps

-----------------------------------------------------------------------------
(* Nothing has been dialled, and nothing asked.                             *)
LEMMA InitIInv == Init => IInv
<1> SUFFICES ASSUME Init PROVE IInv
  OBVIOUS
<1> USE ConnectionAssumption DEF Init
<1>1. wire \in [Conns -> Wires(Opened)] /\ wire \in [Conns -> Wires(Terms)]
  <2>1. ASSUME NEW S PROVE [up |-> <<>>, down |-> <<>>, lost |-> FALSE,
                            cl |-> FALSE, sv |-> FALSE] \in Wires(S)
    BY DEF Wires
  <2> QED BY <2>1
<1>2. TypeOK
  BY <1>1 DEF TypeOK, ClientType, HubType, CallState, TermState, LoopPhases
<1>3. WireInv /\ MineInv /\ ChannelInv /\ MapsHoldWaiters
  BY <1>1 DEF WireInv, MineInv, ChannelInv, MapsHoldWaiters
<1> QED BY <1>2, <1>3 DEF IInv

(* Every step of the client, the Hub and its callers.                       *)
LEMMA NextIInv == IInv /\ [Next]_vars => IInv'
<1> SUFFICES ASSUME IInv, [Next]_vars PROVE IInv'
  OBVIOUS
<1>1. CASE UNCHANGED vars
  <2>1. UNCHANGED <<callVars, termVars, clientVars, handler, conns, faults, events, wire>>
    BY <1>1 DEF vars, hubVars, counts
  <2>2. ClientType' /\ MineInv'
    BY <2>1 DEF IInv, TypeOK, ClientType, MineInv, clientVars
  <2> QED BY <2>1, <2>2, LinkStep DEF IInv, TypeOK, HubType, WireInv
<1>2. CASE ClientStep \/ Stop \/ Lose \/ SendEvent
  BY <1>2, LoopKeeps, LoopWritesKeep, LoseKeeps, SendEventKeeps, ReadKeeps DEF ClientStep
<1>3. CASE \E k \in Conns : HubStep(k)
  BY <1>3, HandlerKeeps, HandleKeeps DEF HubStep
<1>4. CASE \E c \in Calls : Call(c) \/ CallStep(c) \/ Respond(c)
  BY <1>4, CallKeeps, SendCallKeeps, EndWaitKeeps, ForgetKeeps, RespondKeeps DEF CallStep
<1>5. CASE \E t \in Terms : Open(t) \/ TermStep(t) \/ SendClose(t) \/ TerminalExits(t)
  BY <1>5, OpenKeeps, SendOpenKeeps, TakeChannelKeeps, SendCloseKeeps, TerminalExitsKeeps
  DEF TermStep
<1> QED BY <1>1, <1>2, <1>3, <1>4, <1>5 DEF Next

(* The invariant of the client, the Hub and what is between them.           *)
THEOREM Invariance == Spec => []IInv
  BY InitIInv, NextIInv, PTL DEF Spec

(* The state is well typed.                                                 *)
COROLLARY TypeCorrect == Spec => []TypeOK
  BY Invariance, PTL DEF IInv

(* An id is in `pending` as long as its call runs, and a terminal in the    *)
(* map as long as its channel is open; no terminal channel is closed twice  *)
(* (SendResourceRequest, OpenTerminal, Close, handleTerminalMessage).       *)
THEOREM MapsAreExact == Spec => []MapsHoldWaiters
  BY Invariance, PTL DEF IInv
=============================================================================
