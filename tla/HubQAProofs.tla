------------------------------ MODULE HubQAProofs -----------------------------
(***************************************************************************)
(* Proofs about HubQA, for any connections and calls, any reuse of request  *)
(* ids and any capacity.  IInv ties the two maps of the hub to the calls    *)
(* they lead to: a route leads to an open channel of a call that has not    *)
(* left, and only such a channel is ever closed.  The properties of HubQA   *)
(* are parts of it, and with it the hub implements EventStream.             *)
(***************************************************************************)
EXTENDS HubQA, FiniteSetTheorems, TLAPS

(* The phases in which a call may have a route. *)
Here == {"routed", "failing", "streaming"}

(* h.conns has the connections whose read loop runs, and whom StartQA found *)
(* has been there.                                                          *)
ConnsInv ==
  /\ \A c \in Conns : c \in conns <=> ws[c] = "reading"
  /\ \A q \in Calls :
       /\ pc[q] = "start" => rc[q] = None
       /\ rc[q] # None => ws[rc[q]] # "new"
       /\ pc[q] \in Here \cup {"found"} => rc[q] # None

(* h.qaCh and h.qaConn agree, and with the call that opened the route.      *)
RouteInv ==
  \A i \in Ids :
    /\ qaCh[i] = None <=> qaConn[i] = None
    /\ qaCh[i] # None => /\ IdOf[qaCh[i]] = i
                         /\ pc[qaCh[i]] \in Here
                         /\ rc[qaCh[i]] = qaConn[i]

(* A call that has not opened its route has an untouched channel.           *)
FreshInv ==
  \A q \in Calls : pc[q] \in {"start", "found"} => closes[q] = 0 /\ buf[q] = <<>>

(* As NoAbandonedStream, from the moment the route is opened.               *)
OpenInv ==
  \A q \in Calls : pc[q] \in Here /\ closes[q] = 0 => Routed(q) \/ q \in overtaken

(* As ClosedMeansFinished, from the moment the route is opened.             *)
FinishedInv ==
  \A q \in Calls : pc[q] \in Here /\ closes[q] = 1 /\ rc[q] \in conns =>
    \/ q \in lost
    \/ ended[q]
    \/ buf[q] # <<>> /\ buf[q][Len(buf[q])] = "final"

IInv ==
  /\ TypeOK
  /\ ConnsInv
  /\ RouteInv
  /\ FreshInv
  /\ NoPanic
  /\ OpenInv
  /\ FinalIsLast
  /\ FinishedInv
-----------------------------------------------------------------------------
(* A set of routed calls loses its routes, and their channels are closed:   *)
(* what the cleanup closure, Unregister and a done or error come down to.   *)
Drops(Q) ==
  /\ closes' = [q \in Calls |-> IF q \in Q THEN closes[q] + 1 ELSE closes[q]]
  /\ qaCh' = [i \in Ids |-> IF qaCh[i] \in Q THEN None ELSE qaCh[i]]
  /\ qaConn' = [i \in Ids |-> IF qaCh[i] \in Q THEN None ELSE qaConn[i]]

(* The cleanup closure drops the call, if it still has the route.           *)
LEMMA CleanupDrops ==
  ASSUME IInv, NEW q \in Calls, cleanup(q)
  PROVE  Drops(IF Routed(q) THEN {q} ELSE {})
<1> USE HubAssumption DEF IInv, TypeOK, RouteInv, Drops, Routed
<1>1. \A i \in Ids : qaCh[i] = q => i = IdOf[q]
  OBVIOUS
<1>2. CASE Routed(q)
  BY <1>1, <1>2 DEF cleanup, ClearRoutes
<1>3. CASE ~Routed(q)
  BY <1>1, <1>3 DEF cleanup
<1> QED BY <1>2, <1>3

(* Unregister drops the calls that are routed to its connection.            *)
LEMMA UnregisterDrops ==
  ASSUME IInv, NEW c \in Conns, Unregister(c)
  PROVE  Drops({q \in Calls : Routed(q) /\ qaConn[IdOf[q]] = c})
<1> USE HubAssumption DEF IInv, TypeOK, RouteInv, Routed
<1> DEFINE Q == {q \in Calls : Routed(q) /\ qaConn[IdOf[q]] = c}
<1>1. ASSUME NEW i \in Ids PROVE qaCh[i] \in Q <=> qaConn[i] = c
  <2>1. CASE qaCh[i] = None
    BY <2>1
  <2>2. CASE qaCh[i] # None
    BY <2>2
  <2> QED BY <2>1, <2>2
<1>2. ASSUME NEW q \in Calls
      PROVE  q \in Q <=> \E i \in RoutesOf(c) : qaCh[i] = q
  <2>1. IdOf[q] \in Ids /\ q # None
    OBVIOUS
  <2>2. ASSUME NEW i \in RoutesOf(c), qaCh[i] = q PROVE q \in Q
    BY <1>1, <2>2 DEF RoutesOf
  <2>3. ASSUME q \in Q PROVE IdOf[q] \in RoutesOf(c) /\ qaCh[IdOf[q]] = q
    BY <1>1, <2>1, <2>3 DEF RoutesOf
  <2> QED BY <2>2, <2>3
<1>3. closes' = [q \in Calls |-> IF q \in Q THEN closes[q] + 1 ELSE closes[q]]
  <2>1. closes' = [q \in Calls |-> IF \E i \in RoutesOf(c) : qaCh[i] = q
                                  THEN closes[q] + 1 ELSE closes[q]]
    BY DEF Unregister
  <2> HIDE DEF Q
  <2> QED BY ONLY <1>2, <2>1
<1>4. /\ qaCh' = [i \in Ids |-> IF qaCh[i] \in Q THEN None ELSE qaCh[i]]
      /\ qaConn' = [i \in Ids |-> IF qaCh[i] \in Q THEN None ELSE qaConn[i]]
  <2>1. \A i \in Ids : i \in RoutesOf(c) <=> qaCh[i] \in Q
    BY <1>1 DEF RoutesOf
  <2>2. ClearRoutes(RoutesOf(c))
    BY DEF Unregister
  <2> HIDE DEF Q
  <2> QED BY ONLY <2>1, <2>2 DEF ClearRoutes
<1> QED BY <1>3, <1>4 DEF Drops

(* A done or error drops the call that has the route of its id.             *)
LEMMA FinalDrops ==
  ASSUME IInv, NEW e \in Message, handleQAEvent(e), e.kind = "final"
  PROVE  Drops({qaCh[e.id]})
<1> USE HubAssumption DEF IInv, TypeOK, RouteInv, Message
<1>1. \A i \in Ids : i \in {e.id} <=> qaCh[i] \in {qaCh[e.id]}
  <2>1. e.id \in Ids /\ qaCh[e.id] # None
    BY DEF handleQAEvent
  <2>2. \A i \in Ids : qaCh[i] # None => IdOf[qaCh[i]] = i
    OBVIOUS
  <2> QED BY ONLY <2>1, <2>2
<1>2. /\ qaCh' = [i \in Ids |-> IF qaCh[i] \in {qaCh[e.id]} THEN None ELSE qaCh[i]]
      /\ qaConn' = [i \in Ids |-> IF qaCh[i] \in {qaCh[e.id]} THEN None ELSE qaConn[i]]
  <2>1. ClearRoutes({e.id})
    BY DEF handleQAEvent
  <2> QED BY ONLY <1>1, <2>1 DEF ClearRoutes
<1>3. closes' = [q \in Calls |-> IF q \in {qaCh[e.id]} THEN closes[q] + 1 ELSE closes[q]]
  BY DEF handleQAEvent
<1> QED BY <1>2, <1>3 DEF Drops

(* Dropping routed calls closes open channels only, each once, and touches  *)
(* no other call.                                                           *)
LEMMA DropsOnce ==
  ASSUME IInv, NEW Q \in SUBSET {q \in Calls : Routed(q)}, Drops(Q)
  PROVE  /\ closes' \in [Calls -> Nat]
         /\ qaCh' \in [Ids -> Calls \cup {None}]
         /\ qaConn' \in [Ids -> Conns \cup {None}]
         /\ NoPanic'
         /\ \A q \in Q : closes[q] = 0 /\ closes'[q] = 1
         /\ \A q \in Calls \ Q : /\ closes'[q] = closes[q]
                                 /\ Routed(q) => Routed(q)'
         /\ \A i \in Ids : IF qaCh'[i] = None
                           THEN qaConn'[i] = None
                           ELSE /\ qaCh'[i] = qaCh[i] /\ qaConn'[i] = qaConn[i]
                                /\ qaCh[i] \notin Q
<1> USE HubAssumption DEF IInv, TypeOK, Drops, Routed, RouteInv
<1>1. closes' \in [Calls -> Nat]
  OBVIOUS
<1>2. /\ qaCh' \in [Ids -> Calls \cup {None}]
      /\ qaConn' \in [Ids -> Conns \cup {None}]
  OBVIOUS
<1>3. \A q \in Q : closes[q] = 0 /\ closes'[q] = 1
  <2>1. \A q \in Q : q \in Calls /\ IdOf[q] \in Ids /\ qaCh[IdOf[q]] = q /\ q # None
    OBVIOUS
  <2>2. \A q \in Q : closes[q] = 0
    BY ONLY <2>1, NoPanic DEF NoPanic
  <2>3. \A q \in Q : closes'[q] = closes[q] + 1
    BY <2>1
  <2> QED BY ONLY <2>2, <2>3
<1>4. \A q \in Calls \ Q : closes'[q] = closes[q]
  OBVIOUS
<1>5. \A q \in Calls \ Q : Routed(q) => Routed(q)'
  OBVIOUS
<1>6. \A i \in Ids : IF qaCh'[i] = None
                     THEN qaConn'[i] = None
                     ELSE /\ qaCh'[i] = qaCh[i] /\ qaConn'[i] = qaConn[i]
                          /\ qaCh[i] \notin Q
  OBVIOUS
<1>7. NoPanic'
  BY <1>1, <1>2, <1>3, <1>4, <1>6 DEF NoPanic
<1> QED BY <1>1, <1>2, <1>3, <1>4, <1>5, <1>6, <1>7

(* It closes the channels that are routed to its connection, which are open.*)
LEMMA UnregisterKeeps == ASSUME IInv, NEW c \in Conns, Unregister(c) PROVE IInv'
<1> DEFINE Q == {q \in Calls : Routed(q) /\ qaConn[IdOf[q]] = c}
<1> USE HubAssumption DEF IInv
<1>1. /\ ws[c] = "reading" /\ ws' = [ws EXCEPT ![c] = "left"]
      /\ conns' = conns \ {c}
      /\ wire' = [wire EXCEPT ![c] = <<>>]
      /\ UNCHANGED <<pc, rc, buf, ended, link, job, sent, lost, overtaken>>
  BY DEF Unregister, caller, runner, history
<1>2. Q \in SUBSET {q \in Calls : Routed(q)} /\ Drops(Q)
  BY UnregisterDrops
<1>3. \A q \in Q : rc[q] = c /\ pc[q] \in Here
  BY DEF RouteInv, Routed, TypeOK
<1> HIDE DEF Q
<1>4. /\ closes' \in [Calls -> Nat]
      /\ qaCh' \in [Ids -> Calls \cup {None}]
      /\ qaConn' \in [Ids -> Conns \cup {None}]
      /\ NoPanic'
      /\ \A q \in Q : closes[q] = 0 /\ closes'[q] = 1
      /\ \A q \in Calls \ Q : /\ closes'[q] = closes[q]
                              /\ Routed(q) => Routed(q)'
      /\ \A i \in Ids : IF qaCh'[i] = None
                        THEN qaConn'[i] = None
                        ELSE /\ qaCh'[i] = qaCh[i] /\ qaConn'[i] = qaConn[i]
                             /\ qaCh[i] \notin Q
  BY <1>2, DropsOnce
<1>5. TypeOK'
  BY <1>1, <1>4 DEF TypeOK
<1>6. ConnsInv'
  BY <1>1 DEF ConnsInv, TypeOK, Here
<1>7. RouteInv'
  BY <1>1, <1>4 DEF RouteInv
<1>8. FreshInv'
  BY <1>1, <1>3, <1>4 DEF FreshInv, Here
<1>9. OpenInv'
  BY <1>1, <1>4 DEF OpenInv
<1>10. FinalIsLast'
  BY <1>1, <1>4 DEF FinalIsLast
<1>11. FinishedInv'
  BY <1>1, <1>3, <1>4 DEF FinishedInv
<1> QED BY <1>4, <1>5, <1>6, <1>7, <1>8, <1>9, <1>10, <1>11

(* Only the call's own route is taken out, and the call is over: what both  *)
(* users of the cleanup closure keep.                                       *)
LEMMA CleanupKeeps ==
  ASSUME IInv, NEW q \in Calls, pc[q] \in Here, cleanup(q),
         pc' = [pc EXCEPT ![q] = "failed"] \/ pc' = [pc EXCEPT ![q] = "left"],
         buf' = buf \/ buf' = [buf EXCEPT ![q] = <<>>],
         UNCHANGED <<conns, ws, rc, ended, runner, wire, history>>
  PROVE  IInv'
<1> DEFINE Q == IF Routed(q) THEN {q} ELSE {}
<1> USE HubAssumption DEF IInv, runner, history
<1>1. Q \in SUBSET {p \in Calls : Routed(p)} /\ Drops(Q)
  BY CleanupDrops
<1>2. Q \subseteq {q} /\ (Routed(q) => Q = {q})
  OBVIOUS
<1>3. /\ pc'[q] \in {"failed", "left"}
      /\ \A p \in Calls \ {q} : pc'[p] = pc[p] /\ buf'[p] = buf[p]
      /\ buf'[q] = buf[q] \/ buf'[q] = <<>>
  BY DEF TypeOK
<1> HIDE DEF Q
<1>4. /\ closes' \in [Calls -> Nat]
      /\ qaCh' \in [Ids -> Calls \cup {None}]
      /\ qaConn' \in [Ids -> Conns \cup {None}]
      /\ NoPanic'
      /\ \A p \in Q : closes[p] = 0 /\ closes'[p] = 1
      /\ \A p \in Calls \ Q : /\ closes'[p] = closes[p]
                              /\ Routed(p) => Routed(p)'
      /\ \A i \in Ids : IF qaCh'[i] = None
                        THEN qaConn'[i] = None
                        ELSE /\ qaCh'[i] = qaCh[i] /\ qaConn'[i] = qaConn[i]
                             /\ qaCh[i] \notin Q
  BY <1>1, DropsOnce
<1>5. TypeOK'
  <2>1. buf' \in [Calls -> Seq(Kinds)]
    <3>1. CASE buf' = buf
      BY <3>1 DEF TypeOK
    <3>2. CASE buf' = [buf EXCEPT ![q] = <<>>]
      <4>1. <<>> \in Seq(Kinds) /\ buf \in [Calls -> Seq(Kinds)]
        BY DEF TypeOK
      <4> QED BY <3>2, <4>1
    <3> QED BY <3>1, <3>2
  <2>2. \A p \in Calls : Len(buf'[p]) <= Cap
    BY <1>3 DEF TypeOK
  <2>3. pc' \in [Calls -> {"start", "found", "routed", "failing", "failed", "streaming", "left"}]
    BY DEF TypeOK
  <2>4. /\ rc' \in [Calls -> Conns \cup {None}] /\ ended' \in [Calls -> BOOLEAN]
        /\ wire' \in [Conns -> Seq(Message)] /\ job' \in [Calls -> {"none", "running", "ended"}]
    BY DEF TypeOK
  <2> QED BY <1>4, <2>1, <2>2, <2>3, <2>4 DEF TypeOK
<1>6. ConnsInv'
  BY <1>3 DEF ConnsInv, Here
<1>7. RouteInv'
  <2>1. ASSUME NEW i \in Ids, qaCh'[i] = q PROVE FALSE
    <3>1. qaCh[i] = q /\ q \notin Q
      BY <1>4, <2>1
    <3>2. IdOf[q] = i
      BY <3>1 DEF RouteInv
    <3> QED BY <1>2, <3>1, <3>2 DEF Routed
  <2> QED BY <1>3, <1>4, <2>1 DEF RouteInv
<1>8. FreshInv'
  BY <1>2, <1>3, <1>4 DEF FreshInv
<1>9. OpenInv'
  BY <1>2, <1>3, <1>4 DEF OpenInv, Here
<1>10. FinalIsLast'
  <2> SUFFICES ASSUME NEW p \in Calls
               PROVE  /\ ended'[p] => buf'[p] = <<>> /\ closes'[p] = 1
                      /\ \A n \in DOMAIN buf'[p] :
                           buf'[p][n] = "final" => /\ n = Len(buf'[p])
                                                   /\ closes'[p] = 1
    BY DEF FinalIsLast
  <2>1. /\ ended[p] => buf[p] = <<>> /\ closes[p] = 1
        /\ \A n \in DOMAIN buf[p] :
             buf[p][n] = "final" => n = Len(buf[p]) /\ closes[p] = 1
    BY DEF FinalIsLast
  <2>2. ended'[p] = ended[p] /\ (closes[p] = 1 => closes'[p] = 1)
    BY <1>4
  <2>3. CASE buf'[p] = buf[p]
    BY <2>1, <2>2, <2>3
  <2>4. CASE buf'[p] = <<>>
    BY <2>1, <2>2, <2>4
  <2> QED BY <1>3, <2>3, <2>4
<1>11. FinishedInv'
  BY <1>2, <1>3, <1>4 DEF FinishedInv, Here
<1> QED BY <1>4, <1>5, <1>6, <1>7, <1>8, <1>9, <1>10, <1>11

(* StartQA cleans up before it returns the send error.                      *)
LEMMA CleanupFailedKeeps == ASSUME IInv, NEW q \in Calls, CleanupFailed(q) PROVE IInv'
  BY CleanupKeeps DEF CleanupFailed, Here

(* The consumer leaves.                                                     *)
LEMMA LeaveStreamKeeps == ASSUME IInv, NEW q \in Calls, LeaveStream(q) PROVE IInv'
  BY CleanupKeeps DEF LeaveStream, Here

(* The channel that takes an event is open, and belongs to the call that    *)
(* has the route; the send drops the event if there is no room.             *)
LEMMA Push ==
  ASSUME IInv, NEW e \in Message, handleQAEvent(e)
  PROVE  LET q == qaCh[e.id]
         IN  /\ q \in Calls /\ pc[q] \in Here /\ closes[q] = 0 /\ Routed(q)
             /\ ~ended[q] /\ \A n \in DOMAIN buf[q] : buf[q][n] # "final"
             /\ \A p \in Calls \ {q} : buf'[p] = buf[p]
             /\ buf' \in [Calls -> Seq(Kinds)]
             /\ Len(buf'[q]) <= Cap
             /\ IF HasRoom(q, e.kind)
                THEN buf'[q] = Append(buf[q], e.kind)
                ELSE buf'[q] = buf[q]
<1> DEFINE q == qaCh[e.id]
<1> USE HubAssumption DEF IInv
<1>1. q # None /\ e.id \in Ids /\ e.kind \in Kinds
  BY DEF handleQAEvent, Message
<1>2. q \in Calls
  BY <1>1 DEF TypeOK
<1>3. pc[q] \in Here /\ closes[q] = 0 /\ Routed(q)
  BY <1>1 DEF RouteInv, NoPanic, Routed
<1>4. ~ended[q] /\ \A n \in DOMAIN buf[q] : buf[q][n] # "final"
  BY <1>2, <1>3 DEF FinalIsLast, TypeOK
<1>5. /\ buf \in [Calls -> Seq(Kinds)] /\ Len(buf[q]) <= Cap
      /\ buf' = IF HasRoom(q, e.kind)
                THEN [buf EXCEPT ![q] = Append(@, e.kind)] ELSE buf
  BY <1>2 DEF TypeOK, handleQAEvent
<1> HIDE DEF q
<1>6. CASE HasRoom(q, e.kind)
  <2>1. Append(buf[q], e.kind) \in Seq(Kinds) /\ Len(buf[q]) < Cap
    BY <1>1, <1>2, <1>5, <1>6 DEF HasRoom
  <2>2. Len(Append(buf[q], e.kind)) <= Cap
    BY <1>2, <1>5, <2>1
  <2>3. /\ buf' \in [Calls -> Seq(Kinds)] /\ buf'[q] = Append(buf[q], e.kind)
        /\ \A p \in Calls \ {q} : buf'[p] = buf[p]
    BY <1>2, <1>5, <1>6, <2>1
  <2> QED BY <1>2, <1>3, <1>4, <1>6, <2>2, <2>3 DEF q
<1>7. CASE ~HasRoom(q, e.kind)
  BY <1>2, <1>3, <1>4, <1>5, <1>7 DEF q
<1> QED BY <1>6, <1>7

(* The read loop finds no route: nothing of the hub or of a call changes.   *)
LEMMA DeliverNoRouteKeeps ==
  ASSUME IInv, NEW c \in Conns, Deliver(c), NoRoute(Head(wire[c]))
  PROVE  IInv'
<1> USE DEF IInv
<1>1. wire' \in [Conns -> Seq(Message)]
  BY DEF Deliver, TypeOK
<1>2. /\ UNCHANGED <<qaCh, qaConn, buf, ended, closes, lost>>
      /\ UNCHANGED <<conns, ws, pc, rc, link, job, sent, overtaken>>
  BY DEF Deliver, NoRoute, chans, caller, runner
<1>3. TypeOK'
  BY <1>1, <1>2 DEF TypeOK
<1>4. (ConnsInv /\ RouteInv /\ FreshInv /\ NoPanic)'
  BY <1>2 DEF ConnsInv, RouteInv, FreshInv, NoPanic
<1>5. (OpenInv /\ FinalIsLast /\ FinishedInv)'
  BY <1>2 DEF OpenInv, FinalIsLast, FinishedInv, Routed
<1> QED BY <1>3, <1>4, <1>5

(* The event is not a done or error: the channel may grow by it.            *)
LEMMA DeliverEventKeeps ==
  ASSUME IInv, NEW c \in Conns, Deliver(c), handleQAEvent(Head(wire[c])),
         Head(wire[c]).kind # "final"
  PROVE  IInv'
<1> DEFINE e == Head(wire[c])
           q == qaCh[e.id]
<1> USE HubAssumption DEF IInv
<1>1. e \in Message /\ wire' \in [Conns -> Seq(Message)]
  BY DEF Deliver, TypeOK
<1>2. /\ UNCHANGED <<qaCh, qaConn, closes, lost, ended>>
      /\ UNCHANGED <<conns, ws, pc, rc, link, job, sent, overtaken>>
  BY DEF Deliver, handleQAEvent, caller, runner
<1>3. /\ q \in Calls /\ pc[q] \in Here /\ closes[q] = 0
      /\ ~ended[q] /\ \A n \in DOMAIN buf[q] : buf[q][n] # "final"
      /\ \A p \in Calls \ {q} : buf'[p] = buf[p]
      /\ buf' \in [Calls -> Seq(Kinds)]
      /\ Len(buf'[q]) <= Cap
      /\ buf'[q] \in {buf[q], Append(buf[q], e.kind)}
  BY <1>1, Push
<1>4. e.kind \in Kinds \ {"final"}
  BY <1>1 DEF Message
<1> HIDE DEF q, e
<1>5. TypeOK'
  BY <1>1, <1>2, <1>3 DEF TypeOK
<1>6. (ConnsInv /\ RouteInv /\ NoPanic)'
  BY <1>2 DEF ConnsInv, RouteInv, NoPanic
<1>7. FreshInv'
  BY <1>2, <1>3 DEF FreshInv, Here
<1>8. OpenInv'
  BY <1>2 DEF OpenInv, Routed
<1>9. FinalIsLast'
  <2>1. \A n \in DOMAIN buf'[q] : buf'[q][n] # "final"
    <3>1. buf[q] \in Seq(Kinds)
      BY <1>3 DEF TypeOK
    <3>2. \A n \in DOMAIN Append(buf[q], e.kind) :
            Append(buf[q], e.kind)[n] # "final"
      BY ONLY <1>3, <1>4, <3>1
    <3> QED BY <1>3, <3>2
  <2> QED BY <1>2, <1>3, <2>1 DEF FinalIsLast
<1>10. FinishedInv'
  <2> SUFFICES ASSUME NEW p \in Calls, pc[p] \in Here, closes[p] = 1, rc[p] \in conns
               PROVE  \/ p \in lost
                      \/ ended[p]
                      \/ buf'[p] # <<>> /\ buf'[p][Len(buf'[p])] = "final"
    BY <1>2 DEF FinishedInv
  <2> QED BY <1>3 DEF FinishedInv
<1> QED BY <1>5, <1>6, <1>7, <1>8, <1>9, <1>10

(* It is a done or error: the channel is closed behind it.                  *)
LEMMA DeliverFinalKeeps ==
  ASSUME IInv, NEW c \in Conns, Deliver(c), handleQAEvent(Head(wire[c])),
         Head(wire[c]).kind = "final"
  PROVE  IInv'
<1> DEFINE e == Head(wire[c])
           q == qaCh[e.id]
<1> USE HubAssumption DEF IInv
<1>1. e \in Message /\ wire' \in [Conns -> Seq(Message)]
  BY DEF Deliver, TypeOK
<1>2. /\ UNCHANGED <<conns, ws, pc, rc, ended, link, job, sent, overtaken>>
      /\ lost' = IF Len(buf[q]) = Cap THEN lost \cup {q} ELSE lost
  BY DEF Deliver, handleQAEvent, caller, runner
<1>3. /\ q \in Calls /\ pc[q] \in Here /\ Routed(q)
      /\ ~ended[q] /\ \A n \in DOMAIN buf[q] : buf[q][n] # "final"
      /\ \A p \in Calls \ {q} : buf'[p] = buf[p]
      /\ buf' \in [Calls -> Seq(Kinds)]
      /\ Len(buf'[q]) <= Cap
      /\ IF HasRoom(q, "final")
         THEN buf'[q] = Append(buf[q], "final")
         ELSE buf'[q] = buf[q]
  BY <1>1, Push
<1>4. Drops({q}) /\ {q} \in SUBSET {p \in Calls : Routed(p)}
  BY <1>1, <1>3, FinalDrops
<1> HIDE DEF q, e
<1>5. /\ closes' \in [Calls -> Nat]
      /\ qaCh' \in [Ids -> Calls \cup {None}]
      /\ qaConn' \in [Ids -> Conns \cup {None}]
      /\ NoPanic'
      /\ closes'[q] = 1
      /\ \A p \in Calls \ {q} : /\ closes'[p] = closes[p]
                                /\ Routed(p) => Routed(p)'
      /\ \A i \in Ids : IF qaCh'[i] = None
                        THEN qaConn'[i] = None
                        ELSE /\ qaCh'[i] = qaCh[i] /\ qaConn'[i] = qaConn[i]
  BY <1>4, DropsOnce
<1>6. TypeOK'
  BY <1>1, <1>2, <1>3, <1>5 DEF TypeOK
<1>7. (ConnsInv /\ RouteInv)'
  BY <1>2, <1>5 DEF ConnsInv, RouteInv
<1>8. FreshInv'
  BY <1>2, <1>3, <1>5 DEF FreshInv, Here
<1>9. OpenInv'
  <2> SUFFICES ASSUME NEW p \in Calls, pc[p] \in Here, closes'[p] = 0
               PROVE  Routed(p)' \/ p \in overtaken
    BY <1>2 DEF OpenInv
  <2>1. p # q /\ closes[p] = 0
    BY <1>5
  <2>2. Routed(p) \/ p \in overtaken
    BY <2>1 DEF OpenInv
  <2> QED BY <1>5, <2>1, <2>2
<1>10. buf[q] \in Seq(Kinds) /\ Len(buf[q]) <= Cap
  BY <1>3 DEF TypeOK
<1>11. FinalIsLast'
  <2>1. \A n \in DOMAIN buf'[q] : buf'[q][n] = "final" => n = Len(buf'[q])
    BY ONLY <1>3, <1>10
  <2> SUFFICES ASSUME NEW p \in Calls
               PROVE  /\ ended[p] => buf'[p] = <<>> /\ closes'[p] = 1
                      /\ \A n \in DOMAIN buf'[p] :
                           buf'[p][n] = "final" => /\ n = Len(buf'[p])
                                                   /\ closes'[p] = 1
    BY <1>2 DEF FinalIsLast
  <2>2. CASE p = q
    BY <1>3, <1>5, <2>1, <2>2
  <2>3. CASE p # q
    BY <1>3, <1>5, <2>3 DEF FinalIsLast
  <2> QED BY <2>2, <2>3
<1>12. FinishedInv'
  <2>1. CASE Len(buf[q]) = Cap
    BY <1>2, <1>3, <1>5, <2>1 DEF FinishedInv
  <2>2. CASE Len(buf[q]) # Cap
    <3>1. HasRoom(q, "final")
      BY <1>10, <2>2 DEF HasRoom
    <3>2. buf'[q] # <<>> /\ buf'[q][Len(buf'[q])] = "final"
      BY ONLY <1>3, <1>10, <3>1
    <3> QED BY <1>2, <1>3, <1>5, <3>2 DEF FinishedInv
  <2> QED BY <2>1, <2>2
<1> QED BY <1>5, <1>6, <1>7, <1>8, <1>9, <1>11, <1>12

(* The read loop takes a message.                                           *)
LEMMA DeliverKeeps == ASSUME IInv, NEW c \in Conns, Deliver(c) PROVE IInv'
  BY DeliverNoRouteKeeps, DeliverEventKeeps, DeliverFinalKeeps DEF Deliver

(* A connection that has read is never registered again.                    *)
LEMMA RegisterKeeps == ASSUME IInv, NEW c \in Conns, Register(c) PROVE IInv'
<1> USE HubAssumption DEF IInv, Register, caller, chans, history
<1>1. TypeOK'
  BY DEF TypeOK
<1>2. ConnsInv'
  BY DEF ConnsInv, TypeOK, Here
<1>3. (RouteInv /\ FreshInv /\ NoPanic)'
  BY DEF RouteInv, FreshInv, NoPanic
<1>4. (OpenInv /\ FinalIsLast)'
  BY DEF OpenInv, FinalIsLast, Routed
<1>5. FinishedInv'
  BY DEF FinishedInv, ConnsInv, Here, TypeOK
<1> QED BY <1>1, <1>2, <1>3, <1>4, <1>5

(* The routes of the connection are gone.                                   *)
LEMMA CloseConnKeeps == ASSUME IInv, NEW c \in Conns, CloseConn(c) PROVE IInv'
<1> USE HubAssumption DEF IInv, CloseConn, caller, chans, runner, history
<1>1. TypeOK'
  BY DEF TypeOK
<1>2. ConnsInv'
  BY DEF ConnsInv, TypeOK, Here
<1>3. (RouteInv /\ FreshInv /\ NoPanic)'
  BY DEF RouteInv, FreshInv, NoPanic
<1>4. (OpenInv /\ FinalIsLast /\ FinishedInv)'
  BY DEF OpenInv, FinalIsLast, FinishedInv, Routed
<1> QED BY <1>1, <1>2, <1>3, <1>4

(* StartQA has made no channel yet.                                         *)
LEMMA LookupConnKeeps ==
  ASSUME IInv, NEW q \in Calls, NEW c \in Conns, LookupConn(q, c) PROVE IInv'
<1> USE HubAssumption DEF IInv
<1>1. /\ pc[q] = "start"
      /\ UNCHANGED <<conns, ws, qaCh, qaConn, buf, ended, closes, link, job, sent>>
      /\ UNCHANGED <<wire, lost, overtaken>>
      /\ \/ /\ c \in conns
            /\ pc' = [pc EXCEPT ![q] = "found"] /\ rc' = [rc EXCEPT ![q] = c]
         \/ pc' = [pc EXCEPT ![q] = "failed"] /\ rc' = rc
  BY DEF LookupConn, hub, chans, runner, history
<1>2. /\ pc'[q] \in {"found", "failed"}
      /\ pc'[q] = "found" => c \in conns /\ rc'[q] = c
      /\ rc'[q] # rc[q] => c \in conns /\ rc'[q] = c /\ pc'[q] = "found"
      /\ \A p \in Calls \ {q} : pc'[p] = pc[p] /\ rc'[p] = rc[p]
  BY <1>1 DEF TypeOK
<1>3. TypeOK'
  <2>1. /\ rc \in [Calls -> Conns \cup {None}]
        /\ rc' = [rc EXCEPT ![q] = c] \/ rc' = rc
    BY <1>1 DEF TypeOK
  <2>2. rc' \in [Calls -> Conns \cup {None}]
    BY ONLY <2>1
  <2>3. pc' = [pc EXCEPT ![q] = "found"] \/ pc' = [pc EXCEPT ![q] = "failed"]
    BY <1>1
  <2> QED BY <1>1, <2>2, <2>3 DEF TypeOK
<1>4. ConnsInv'
  <2>1. c # None /\ (c \in conns => ws[c] # "new")
    BY DEF ConnsInv
  <2> QED BY <1>1, <1>2, <2>1 DEF ConnsInv, Here
<1>5. RouteInv'
  <2>1. ASSUME NEW i \in Ids, qaCh[i] # None
        PROVE  qaCh[i] \in Calls \ {q}
    <3>1. qaCh[i] \in Calls
      BY <2>1 DEF TypeOK
    <3>2. pc[qaCh[i]] \in Here
      BY <2>1 DEF RouteInv
    <3>3. qaCh[i] # q
      BY ONLY <1>1, <3>2 DEF Here
    <3> QED BY <3>1, <3>3
  <2> QED BY <1>1, <1>2, <2>1 DEF RouteInv
<1>6. (FreshInv /\ NoPanic)'
  BY <1>1, <1>2 DEF FreshInv, NoPanic
<1>7. OpenInv'
  <2> SUFFICES ASSUME NEW p \in Calls, pc'[p] \in Here, closes[p] = 0
               PROVE  Routed(p) \/ p \in overtaken
    BY <1>1 DEF OpenInv, Routed
  <2>1. p # q /\ pc'[p] = pc[p]
    BY <1>2 DEF Here
  <2> QED BY <2>1 DEF OpenInv
<1>8. FinalIsLast'
  BY <1>1 DEF FinalIsLast
<1>9. FinishedInv'
  BY <1>1, <1>2 DEF FinishedInv, Here
<1> QED BY <1>3, <1>4, <1>5, <1>6, <1>7, <1>8, <1>9

(* The call that had the route is overtaken.                                *)
LEMMA OpenRouteKeeps == ASSUME IInv, NEW q \in Calls, OpenRoute(q) PROVE IInv'
<1> USE HubAssumption DEF IInv
<1>1. /\ pc[q] = "found" /\ IdOf[q] \in Ids
      /\ pc' = [pc EXCEPT ![q] = "routed"]
      /\ qaCh' = [qaCh EXCEPT ![IdOf[q]] = q]
      /\ qaConn' = [qaConn EXCEPT ![IdOf[q]] = rc[q]]
      /\ overtaken' = overtaken \cup ({qaCh[IdOf[q]]} \ {None})
      /\ UNCHANGED <<conns, ws, rc, buf, ended, closes, link, job, sent, wire, lost>>
  BY DEF OpenRoute, chans, runner
<1>2. rc[q] # None /\ closes[q] = 0
  BY <1>1 DEF ConnsInv, FreshInv
<1>3. TypeOK'
  BY <1>1 DEF TypeOK
<1>4. ConnsInv'
  BY <1>1 DEF ConnsInv, TypeOK, Here
<1>5. RouteInv'
  BY <1>1, <1>2 DEF RouteInv, TypeOK, Here
<1>6. (FreshInv /\ FinalIsLast)'
  BY <1>1 DEF FreshInv, FinalIsLast, TypeOK
<1>7. NoPanic'
  BY <1>1, <1>2 DEF NoPanic, TypeOK
<1>8. OpenInv'
  <2> SUFFICES ASSUME NEW p \in Calls, pc'[p] \in Here, closes[p] = 0
               PROVE  Routed(p)' \/ p \in overtaken'
    BY <1>1 DEF OpenInv
  <2>1. CASE p = q
    BY <1>1, <2>1 DEF Routed, TypeOK
  <2>2. CASE p # q
    <3>1. Routed(p) \/ p \in overtaken
      BY <1>1, <2>2 DEF OpenInv, TypeOK
    <3>2. CASE Routed(p) /\ IdOf[p] = IdOf[q]
      BY <1>1, <3>2 DEF Routed
    <3>3. CASE Routed(p) /\ IdOf[p] # IdOf[q]
      BY <1>1, <3>3 DEF Routed, TypeOK
    <3> QED BY <1>1, <3>1, <3>2, <3>3
  <2> QED BY <2>1, <2>2
<1>9. FinishedInv'
  BY <1>1, <1>2 DEF FinishedInv, TypeOK
<1> QED BY <1>3, <1>4, <1>5, <1>6, <1>7, <1>8, <1>9

(* The request is sent, and StartQA returns the channel.                    *)
LEMMA SendRequestKeeps == ASSUME IInv, NEW q \in Calls, SendRequest(q) PROVE IInv'
<1> USE HubAssumption DEF IInv
<1>1. /\ pc[q] = "routed" /\ pc' = [pc EXCEPT ![q] = "streaming"]
      /\ job' = [job EXCEPT ![q] = "running"] \/ job' = job
      /\ UNCHANGED <<conns, ws, qaCh, qaConn, rc, buf, ended, closes, link, sent>>
      /\ UNCHANGED <<wire, lost, overtaken>>
  BY DEF SendRequest, hub, chans, history
<1>2. TypeOK'
  BY <1>1 DEF TypeOK
<1>3. (ConnsInv /\ RouteInv)'
  BY <1>1 DEF ConnsInv, RouteInv, TypeOK, Here
<1>4. (FreshInv /\ NoPanic /\ FinalIsLast)'
  BY <1>1 DEF FreshInv, NoPanic, FinalIsLast, TypeOK
<1>5. OpenInv'
  BY <1>1 DEF OpenInv, Routed, TypeOK, Here
<1>6. FinishedInv'
  BY <1>1 DEF FinishedInv, TypeOK, Here
<1> QED BY <1>2, <1>3, <1>4, <1>5, <1>6

(* The route is cleaned up next.                                            *)
LEMMA SendFailsKeeps == ASSUME IInv, NEW q \in Calls, SendFails(q) PROVE IInv'
<1> USE HubAssumption DEF IInv
<1>1. /\ pc[q] = "routed" /\ pc' = [pc EXCEPT ![q] = "failing"]
      /\ job' = [job EXCEPT ![q] = "running"] \/ job' = job
      /\ UNCHANGED <<conns, ws, qaCh, qaConn, rc, buf, ended, closes, link, sent>>
      /\ UNCHANGED <<wire, lost, overtaken>>
  BY DEF SendFails, hub, chans, history
<1>2. TypeOK'
  BY <1>1 DEF TypeOK
<1>3. (ConnsInv /\ RouteInv)'
  BY <1>1 DEF ConnsInv, RouteInv, TypeOK, Here
<1>4. (FreshInv /\ NoPanic /\ FinalIsLast)'
  BY <1>1 DEF FreshInv, NoPanic, FinalIsLast, TypeOK
<1>5. OpenInv'
  BY <1>1 DEF OpenInv, Routed, TypeOK, Here
<1>6. FinishedInv'
  BY <1>1 DEF FinishedInv, TypeOK, Here
<1> QED BY <1>2, <1>3, <1>4, <1>5, <1>6

(* What is left of a sequence without its first element.                    *)
LEMMA TailFacts ==
  ASSUME NEW S, NEW s \in Seq(S), s # <<>>
  PROVE  /\ Tail(s) \in Seq(S) /\ Len(s) \in Nat /\ Len(s) >= 1
         /\ DOMAIN s = 1..Len(s) /\ Len(Tail(s)) = Len(s) - 1
         /\ DOMAIN Tail(s) = 1..(Len(s) - 1)
         /\ \A n \in 1..(Len(s) - 1) : Tail(s)[n] = s[n + 1]
  OBVIOUS

(* The consumer takes the first event.                                      *)
LEMMA ReceiveKeeps == ASSUME IInv, NEW q \in Calls, Receive(q) PROVE IInv'
<1> USE HubAssumption DEF IInv
<1>1. /\ pc[q] = "streaming" /\ buf[q] # <<>> /\ buf[q] \in Seq(Kinds)
      /\ buf' = [buf EXCEPT ![q] = Tail(@)]
      /\ ended' = [ended EXCEPT ![q] = @ \/ Head(buf[q]) = "final"]
      /\ UNCHANGED <<conns, ws, qaCh, qaConn, pc, rc, closes, link, job, sent>>
      /\ UNCHANGED <<wire, lost, overtaken>>
  BY DEF Receive, hub, caller, runner, history, TypeOK
<1>2. /\ Tail(buf[q]) \in Seq(Kinds) /\ Len(buf[q]) \in Nat /\ Len(buf[q]) >= 1
      /\ DOMAIN buf[q] = 1..Len(buf[q]) /\ Len(Tail(buf[q])) = Len(buf[q]) - 1
      /\ DOMAIN Tail(buf[q]) = 1..(Len(buf[q]) - 1)
      /\ \A n \in 1..(Len(buf[q]) - 1) : Tail(buf[q])[n] = buf[q][n + 1]
  BY <1>1, TailFacts
<1>3. /\ buf'[q] = Tail(buf[q])
      /\ \A p \in Calls \ {q} : buf'[p] = buf[p] /\ ended'[p] = ended[p]
      /\ ended'[q] <=> ended[q] \/ Head(buf[q]) = "final"
  BY <1>1 DEF TypeOK
<1>4. ~ended[q]
  BY <1>1 DEF FinalIsLast
<1>5. TypeOK'
  <2>1. buf' \in [Calls -> Seq(Kinds)]
    <3>1. buf \in [Calls -> Seq(Kinds)]
      BY DEF TypeOK
    <3> QED BY ONLY <1>1, <1>2, <3>1
  <2>2. \A p \in Calls : Len(buf'[p]) <= Cap
    <3>1. Len(buf[q]) \in Nat /\ Len(buf[q]) <= Cap
      BY <1>1 DEF TypeOK
    <3>2. Len(buf'[q]) <= Cap
      BY <1>2, <1>3, <3>1
    <3> QED BY <1>3, <3>2 DEF TypeOK
  <2>3. ended' \in [Calls -> BOOLEAN]
    BY <1>1 DEF TypeOK
  <2> QED BY <1>1, <2>1, <2>2, <2>3 DEF TypeOK
<1>6. (ConnsInv /\ RouteInv /\ NoPanic)'
  BY <1>1 DEF ConnsInv, RouteInv, NoPanic
<1>7. FreshInv'
  BY <1>1, <1>3 DEF FreshInv
<1>8. OpenInv'
  BY <1>1 DEF OpenInv, Routed
<1>9. FinalIsLast'
  <2> SUFFICES ASSUME NEW p \in Calls
               PROVE  /\ ended'[p] => buf'[p] = <<>> /\ closes[p] = 1
                      /\ \A n \in DOMAIN buf'[p] :
                           buf'[p][n] = "final" => /\ n = Len(buf'[p])
                                                   /\ closes[p] = 1
    BY <1>1 DEF FinalIsLast
  <2>1. CASE p # q
    BY <1>3, <2>1 DEF FinalIsLast
  <2>2. CASE p = q
    <3>1. ASSUME ended'[q] PROVE buf'[q] = <<>> /\ closes[q] = 1
      <4>1. 1 \in DOMAIN buf[q] /\ buf[q][1] = "final"
        BY <1>1, <1>3, <1>4, <3>1
      <4>2. Len(buf[q]) = 1 /\ closes[q] = 1
        BY <4>1 DEF FinalIsLast
      <4> QED BY <1>2, <1>3, <4>2
    <3>2. ASSUME NEW n \in DOMAIN buf'[q], buf'[q][n] = "final"
          PROVE  n = Len(buf'[q]) /\ closes[q] = 1
      <4>1. /\ n \in Nat /\ n + 1 \in DOMAIN buf[q] /\ buf[q][n + 1] = "final"
            /\ Len(buf'[q]) = Len(buf[q]) - 1 /\ Len(buf[q]) \in Nat
        <5>1. n \in 1..(Len(buf[q]) - 1) /\ Tail(buf[q])[n] = "final"
          BY <1>2, <1>3, <3>2
        <5>2. n \in Nat /\ n + 1 \in 1..Len(buf[q])
          BY <1>2, <5>1
        <5> QED BY <1>2, <1>3, <5>1, <5>2
      <4>2. n + 1 = Len(buf[q]) /\ closes[q] = 1
        BY <4>1 DEF FinalIsLast
      <4> QED BY <4>1, <4>2
    <3> QED BY <2>2, <3>1, <3>2
  <2> QED BY <2>1, <2>2
<1>10. FinishedInv'
  <2> SUFFICES ASSUME NEW p \in Calls, pc[p] \in Here, closes[p] = 1, rc[p] \in conns
               PROVE  \/ p \in lost
                      \/ ended'[p]
                      \/ buf'[p] # <<>> /\ buf'[p][Len(buf'[p])] = "final"
    BY <1>1 DEF FinishedInv
  <2>1. \/ p \in lost
        \/ ended[p]
        \/ buf[p] # <<>> /\ buf[p][Len(buf[p])] = "final"
    BY DEF FinishedInv
  <2>2. CASE p # q
    BY <1>3, <2>1, <2>2
  <2>3. CASE p = q /\ p \notin lost
    <3>1. buf[q][Len(buf[q])] = "final"
      BY <1>4, <2>1, <2>3
    <3>2. CASE Len(buf[q]) = 1
      BY <1>1, <1>3, <2>3, <3>1, <3>2
    <3>3. CASE Len(buf[q]) # 1
      <4>1. buf'[q] # <<>> /\ buf'[q][Len(buf'[q])] = buf[q][Len(buf[q])]
        <5>1. /\ Len(buf[q]) - 1 \in 1..(Len(buf[q]) - 1)
              /\ Len(buf[q]) - 1 + 1 = Len(buf[q])
          <6>1. \A k \in Nat : k >= 1 /\ k # 1 => k - 1 \in 1..(k - 1) /\ k - 1 + 1 = k
            OBVIOUS
          <6> QED BY ONLY <1>2, <3>3, <6>1
        <5>2. Tail(buf[q])[Len(buf[q]) - 1] = buf[q][Len(buf[q])]
          BY ONLY <1>2, <5>1
        <5>3. Tail(buf[q]) # <<>>
          BY ONLY <1>2, <5>1
        <5> QED BY <1>2, <1>3, <5>2, <5>3
      <4> QED BY <2>3, <3>1, <4>1
    <3> QED BY <3>2, <3>3
  <2> QED BY <2>2, <2>3
<1> QED BY <1>5, <1>6, <1>7, <1>8, <1>9, <1>10

(* What happens on the runner's side of the wire changes nothing of the hub *)
(* or of a call.                                                            *)
LEMMA RunnerSideKeeps ==
  ASSUME IInv, UNCHANGED <<hub, caller, chans, history>>, TypeOK'
  PROVE  IInv'
<1> USE DEF IInv, hub, caller, chans, history
<1>1. (ConnsInv /\ RouteInv /\ FreshInv /\ NoPanic)'
  BY DEF ConnsInv, RouteInv, FreshInv, NoPanic
<1>2. (OpenInv /\ FinalIsLast /\ FinishedInv)'
  BY DEF OpenInv, FinalIsLast, FinishedInv, Routed
<1> QED BY <1>1, <1>2

(* A message of the runner's is put on a wire, if at all.                   *)
LEMMA TransmitType ==
  ASSUME TypeOK, NEW q \in Calls, NEW kind \in Kinds, Transmit(q, kind)
  PROVE  wire' \in [Conns -> Seq(Message)]
<1>1. [id |-> IdOf[q], kind |-> kind] \in Message
  BY HubAssumption DEF Message
<1>2. wire \in [Conns -> Seq(Message)]
  BY DEF TypeOK
<1>3. CASE link # None /\ ws[link] = "reading"
  <2>1. link \in Conns
    BY <1>3 DEF TypeOK
  <2>2. Append(wire[link], [id |-> IdOf[q], kind |-> kind]) \in Seq(Message)
    BY <1>1, <1>2, <2>1
  <2> QED BY <1>2, <1>3, <2>1, <2>2 DEF Transmit
<1> QED BY <1>2, <1>3 DEF Transmit

(* The runner notices that its connection is gone.                          *)
LEMMA DropLinkKeeps == ASSUME IInv, DropLink PROVE IInv'
<1>1. TypeOK'
  BY DEF IInv, DropLink, TypeOK, hub, caller, chans, history
<1> QED BY <1>1, RunnerSideKeeps DEF DropLink

(* An event goes on the wire.                                               *)
LEMMA RunnerSendsKeeps ==
  ASSUME IInv, NEW q \in Calls, NEW kind \in Kinds \ {"final"}, RunnerSends(q, kind)
  PROVE  IInv'
<1>1. wire' \in [Conns -> Seq(Message)]
  BY TransmitType DEF IInv, RunnerSends
<1>2. TypeOK'
  BY <1>1, HubAssumption DEF IInv, RunnerSends, TypeOK, hub, caller, chans, history
<1> QED BY <1>2, RunnerSideKeeps DEF RunnerSends

(* A done or error goes on the wire.                                        *)
LEMMA RunnerEndsKeeps == ASSUME IInv, NEW q \in Calls, RunnerEnds(q) PROVE IInv'
<1>1. wire' \in [Conns -> Seq(Message)]
  BY TransmitType DEF IInv, RunnerEnds, Kinds
<1>2. TypeOK'
  BY <1>1 DEF IInv, RunnerEnds, TypeOK, hub, caller, chans, history
<1> QED BY <1>2, RunnerSideKeeps DEF RunnerEnds

(* No connection, no call.                                                  *)
LEMMA InitIInv == Init => IInv
<1> SUFFICES ASSUME Init PROVE IInv
  OBVIOUS
<1> USE HubAssumption DEF Init
<1>1. TypeOK
  BY DEF TypeOK
<1>2. ConnsInv /\ RouteInv /\ FreshInv /\ NoPanic
  BY DEF ConnsInv, RouteInv, FreshInv, NoPanic, Here
<1>3. OpenInv /\ FinalIsLast /\ FinishedInv
  BY DEF OpenInv, FinalIsLast, FinishedInv, Here
<1> QED BY <1>1, <1>2, <1>3 DEF IInv

(* Every step of the hub, of its callers and of the runner keeps it.        *)
LEMMA NextIInv == IInv /\ [Next]_vars => IInv'
<1> SUFFICES ASSUME IInv, [Next]_vars PROVE IInv'
  OBVIOUS
<1>1. CASE UNCHANGED vars
  <2>1. TypeOK'
    BY <1>1 DEF IInv, TypeOK, vars, hub, caller, chans, runner, history
  <2> QED BY <1>1, <2>1, RunnerSideKeeps DEF vars
<1>2. CASE \E c \in Conns : Register(c) \/ Unregister(c) \/ CloseConn(c) \/ Deliver(c)
  BY <1>2, RegisterKeeps, UnregisterKeeps, CloseConnKeeps, DeliverKeeps
<1>3. CASE \E q \in Calls : \/ (\E c \in Conns : LookupConn(q, c)) \/ OpenRoute(q)
                            \/ SendRequest(q) \/ SendFails(q) \/ CleanupFailed(q)
  BY <1>3, LookupConnKeeps, OpenRouteKeeps, SendRequestKeeps, SendFailsKeeps,
     CleanupFailedKeeps
<1>4. CASE \E q \in Calls : Receive(q) \/ LeaveStream(q)
  BY <1>4, ReceiveKeeps, LeaveStreamKeeps
<1>5. CASE \/ DropLink
           \/ \E q \in Calls, kind \in Kinds \ {"final"} : RunnerSends(q, kind)
           \/ \E q \in Calls : RunnerEnds(q)
  BY <1>5, DropLinkKeeps, RunnerSendsKeeps, RunnerEndsKeeps
<1> QED BY <1>1, <1>2, <1>3, <1>4, <1>5 DEF Next

(* IInv holds in every state: the invariant the results below rest on.      *)
THEOREM Invariance == Spec => []IInv
  BY InitIInv, NextIInv, PTL DEF Spec

(* Every channel of the hub stays within the 2048 events it is made for,    *)
(* and every map and message within its type.                               *)
COROLLARY TypeCorrect == Spec => []TypeOK
  BY Invariance, PTL DEF IInv

(* Neither handleQAEvent, nor Unregister, nor the cleanup of StartQA or of  *)
(* a consumer ever closes a closed channel or sends on one.                 *)
THEOREM NeverPanics == Spec => []NoPanic
  BY Invariance, PTL DEF IInv

(* A consumer reads from an open channel only while its id leads to it, or  *)
(* once a later StartQA has taken the route over.                           *)
THEOREM NoStreamAbandoned == Spec => []NoAbandonedStream
<1>1. IInv => NoAbandonedStream
  BY DEF IInv, OpenInv, NoAbandonedStream, Here
<1> QED BY <1>1, Invariance, PTL

(* Nothing follows a done or error in a channel, and its channel is closed. *)
THEOREM FinalEndsStream == Spec => []FinalIsLast
  BY Invariance, PTL DEF IInv

(* While its connection lives, a closed stream has its done or error, unless*)
(* that met a full channel.                                                 *)
THEOREM ClosedIsFinished == Spec => []ClosedMeansFinished
<1>1. IInv => ClosedMeansFinished
  BY DEF IInv, FinishedInv, ClosedMeansFinished, Here
<1> QED BY <1>1, Invariance, PTL
-----------------------------------------------------------------------------
(* The places of a channel that handleQAEvent fills with any kind of event. *)
K == (Cap * 3) \div 4

(* Frames are in those places: an event only ever moves to an earlier one.  *)
FramesFirst ==
  \A q \in Calls : \A n \in DOMAIN buf[q] : buf[q][n] = "frame" => n <= K

(* A frame is put in a place that frames may take, whatever is received.    *)
LEMMA FramesStayFirst == IInv /\ FramesFirst /\ [Next]_vars => FramesFirst'
<1> SUFFICES ASSUME IInv, FramesFirst, [Next]_vars,
                    NEW q \in Calls, NEW n \in DOMAIN buf'[q], buf'[q][n] = "frame"
             PROVE  n <= K
  BY DEF FramesFirst
<1>1. CASE buf'[q] = buf[q]
  BY <1>1 DEF FramesFirst
<1>2. CASE Receive(q)
  <2>1. buf[q] \in Seq(Kinds) /\ buf[q] # <<>> /\ buf'[q] = Tail(buf[q])
    BY <1>2 DEF IInv, TypeOK, Receive
  <2>2. /\ Len(buf[q]) \in Nat /\ n \in 1..(Len(buf[q]) - 1)
        /\ DOMAIN buf[q] = 1..Len(buf[q]) /\ buf[q][n + 1] = "frame"
    BY <2>1, TailFacts
  <2>3. n \in Nat /\ n + 1 \in DOMAIN buf[q]
    BY <2>2
  <2>4. n + 1 <= K
    BY <2>2, <2>3 DEF FramesFirst
  <2>5. K \in Nat
    BY HubAssumption DEF K
  <2> QED BY <2>3, <2>4, <2>5
<1>3. CASE LeaveStream(q)
  <2>1. buf'[q] = <<>>
    BY <1>3 DEF IInv, TypeOK, LeaveStream
  <2> QED BY <2>1
<1>4. CASE \E c \in Conns : Deliver(c) /\ handleQAEvent(Head(wire[c]))
  <2>1. PICK c \in Conns : Deliver(c) /\ handleQAEvent(Head(wire[c]))
    BY <1>4
  <2> DEFINE e == Head(wire[c])
  <2>2. e \in Message
    BY <2>1 DEF IInv, TypeOK, Deliver
  <2>3. CASE q # qaCh[e.id]
    BY <1>1, <2>1, <2>2, <2>3, Push
  <2>4. CASE q = qaCh[e.id] /\ HasRoom(q, e.kind)
    <3>1. buf[q] \in Seq(Kinds) /\ buf'[q] = Append(buf[q], e.kind)
      BY <2>1, <2>2, <2>4, Push DEF IInv, TypeOK
    <3>2. Len(buf[q]) \in Nat /\ n \in 1..(Len(buf[q]) + 1)
      BY ONLY <3>1, n \in DOMAIN buf'[q]
    <3>3. CASE n = Len(buf[q]) + 1
      <4>1. e.kind = "frame"
        BY ONLY <3>1, <3>3, buf'[q][n] = "frame"
      <4>2. Len(buf[q]) < K
        BY <2>4, <4>1 DEF HasRoom, K
      <4>3. K \in Nat
        BY HubAssumption DEF K
      <4> QED BY <3>2, <3>3, <4>2, <4>3
    <3>4. CASE n # Len(buf[q]) + 1
      <4>1. n \in DOMAIN buf[q] /\ buf[q][n] = "frame"
        BY ONLY <3>1, <3>2, <3>4, buf'[q][n] = "frame"
      <4> QED BY <4>1 DEF FramesFirst
    <3> QED BY <3>3, <3>4
  <2>5. CASE q = qaCh[e.id] /\ ~HasRoom(q, e.kind)
    BY <1>1, <2>1, <2>2, <2>5, Push
  <2> QED BY <2>3, <2>4, <2>5
<1>5. buf'[q] = buf[q] \/ Receive(q) \/ LeaveStream(q)
        \/ \E c \in Conns : Deliver(c) /\ handleQAEvent(Head(wire[c]))
  <2>1. CASE UNCHANGED vars
    BY <2>1 DEF vars, chans
  <2>2. ASSUME NEW p \in Calls, Receive(p) \/ LeaveStream(p)
        PROVE  p = q \/ buf'[q] = buf[q]
    BY <2>2 DEF IInv, TypeOK, Receive, LeaveStream
  <2>3. ASSUME NEW c \in Conns, Deliver(c), ~handleQAEvent(Head(wire[c]))
        PROVE  buf' = buf
    BY <2>3 DEF Deliver, NoRoute, chans
  <2>4. ASSUME NEW c \in Conns, Register(c) \/ Unregister(c) \/ CloseConn(c)
        PROVE  buf' = buf
    BY <2>4 DEF Register, Unregister, CloseConn, chans
  <2>5. ASSUME NEW p \in Calls, \/ (\E c \in Conns : LookupConn(p, c)) \/ OpenRoute(p)
                                \/ SendRequest(p) \/ SendFails(p) \/ CleanupFailed(p)
                                \/ (\E kind \in Kinds : RunnerSends(p, kind))
                                \/ RunnerEnds(p)
        PROVE  buf' = buf
    BY <2>5 DEF LookupConn, OpenRoute, SendRequest, SendFails, CleanupFailed,
                RunnerSends, RunnerEnds, chans
  <2>6. DropLink => buf' = buf
    BY DEF DropLink, chans
  <2> QED BY <2>1, <2>2, <2>3, <2>4, <2>5, <2>6 DEF Next
<1> QED BY <1>1, <1>2, <1>3, <1>4, <1>5

(* When a done or error is lost, the places frames may not take are full of *)
(* other events.                                                            *)
LEMMA LossNeedsEvents ==
  ASSUME IInv, FramesFirst, [Next]_vars, NEW q \in lost' \ lost
  PROVE  Cardinality({n \in DOMAIN buf[q] : buf[q][n] # "frame"}) >= Cap - K
<1> DEFINE Others == {n \in DOMAIN buf[q] : buf[q][n] # "frame"}
<1>1. q \in Calls /\ Len(buf[q]) = Cap
  <2>1. PICK c \in Conns : Deliver(c) /\ handleQAEvent(Head(wire[c]))
    BY DEF Next, Register, Unregister, CloseConn, LookupConn, OpenRoute, SendRequest,
           SendFails, CleanupFailed, Receive, LeaveStream, DropLink, RunnerSends,
           RunnerEnds, Deliver, NoRoute, vars, history
  <2>2. Head(wire[c]) \in Message
    BY <2>1 DEF IInv, TypeOK, Deliver
  <2>3. q = qaCh[Head(wire[c]).id] /\ Len(buf[q]) = Cap
    BY <2>1 DEF handleQAEvent
  <2> QED BY <2>1, <2>2, <2>3, Push
<1>2. K \in Nat /\ Cap \in Nat /\ Cap - K \in Nat
  BY HubAssumption DEF K
<1>3. DOMAIN buf[q] = 1..Cap
  BY <1>1 DEF IInv, TypeOK
<1>4. (K + 1)..Cap \subseteq Others
  BY <1>1, <1>2, <1>3 DEF FramesFirst
<1>5. IsFiniteSet(1..Cap) /\ Others \subseteq 1..Cap
  BY <1>2, <1>3, FS_Interval
<1>6. Cardinality((K + 1)..Cap) <= Cardinality(Others)
  BY <1>4, <1>5, FS_Subset
<1>7. Cardinality((K + 1)..Cap) = Cap - K
  <2>1. Cardinality((K + 1)..Cap) = IF K + 1 > Cap THEN 0 ELSE Cap - (K + 1) + 1
    BY <1>2, FS_Interval
  <2> QED BY <1>2, <2>1
<1>8. Cardinality(Others) \in Nat
  BY <1>5, FS_Subset, FS_CardinalityType
<1> QED BY <1>2, <1>6, <1>7, <1>8

(* Terminal output alone cannot push a done or error out of a channel.      *)
THEOREM FramesLeaveTheirRoom == Spec => FramesLeaveRoom
<1>1. Init => FramesFirst
  BY DEF Init, FramesFirst
<1>2. IInv /\ FramesFirst /\ [Next]_vars
        => [\A q \in lost' \ lost :
              Cardinality({n \in DOMAIN buf[q] : buf[q][n] # "frame"}) >= Cap - K]_vars
  BY LossNeedsEvents
<1> QED BY <1>1, <1>2, Invariance, FramesStayFirst, PTL DEF Spec, FramesLeaveRoom, K
-----------------------------------------------------------------------------
(* The hub as streams that are addressed by request id                      *)

(* Whose channels are not closed and whose routes stay is where it was.     *)
LEMMA StageStays ==
  ASSUME qaCh' = qaCh, closes' = closes,
         \A q \in Calls : (rc'[q] = None \/ pc'[q] = "found") <=> (rc[q] = None \/ pc[q] = "found")
  PROVE  Stage' = Stage
  BY DEF Stage, Routed

(* Dropped calls had the stream of their id, and it is closed.              *)
LEMMA DropsCloses ==
  ASSUME IInv, NEW Q \in SUBSET {q \in Calls : Routed(q)}, Drops(Q), rc' = rc,
         \A q \in Calls : pc'[q] = "found" <=> pc[q] = "found"
  PROVE  /\ \A q \in Q : Stage[q] = "open"
         /\ Stage' = [q \in Calls |-> IF q \in Q THEN "closed" ELSE Stage[q]]
<1>1. /\ \A q \in Q : closes[q] = 0 /\ closes'[q] = 1
      /\ \A q \in Calls \ Q : closes'[q] = closes[q] /\ (Routed(q) => Routed(q)')
      /\ \A i \in Ids : qaCh'[i] # None => qaCh'[i] = qaCh[i]
  BY DropsOnce
<1>2. \A q \in Calls : IdOf[q] \in Ids /\ q # None
  BY HubAssumption
<1>3. \A q \in Calls : Routed(q)' => Routed(q)
  BY <1>1, <1>2 DEF Routed
<1>4. \A q \in Q : Stage[q] = "open"
  BY <1>1 DEF Stage
<1>5. \A q \in Calls : Stage'[q] = IF q \in Q THEN "closed" ELSE Stage[q]
  BY <1>1, <1>3 DEF Stage
<1>6. Stage' = [q \in Calls |-> Stage'[q]]
  BY DEF Stage
<1> HIDE DEF Stage
<1> QED BY <1>4, <1>5, <1>6

(* A fresh channel takes the id over, and cuts off the one that had it.     *)
LEMMA OpenRouteOpens == ASSUME IInv, NEW q \in Calls, OpenRoute(q) PROVE Stream!Open(q)
<1>1. /\ qaCh' = [qaCh EXCEPT ![IdOf[q]] = q] /\ pc' = [pc EXCEPT ![q] = "routed"]
      /\ pc[q] = "found" /\ rc' = rc /\ closes' = closes /\ buf' = buf /\ ended' = ended
  BY DEF OpenRoute, chans
<1>2. /\ qaCh \in [Ids -> Calls \cup {None}] /\ DOMAIN pc = Calls
      /\ pc = [p \in Calls |-> pc[p]]
      /\ IdOf \in [Calls -> Ids] /\ None \notin Calls
  BY HubAssumption DEF IInv, TypeOK
<1>3. closes[q] = 0 /\ ~Routed(q) /\ rc[q] # None
  <2>1. closes[q] = 0 /\ rc[q] # None
    BY <1>1 DEF IInv, FreshInv, ConnsInv
  <2>2. Routed(q) => pc[q] \in Here
    BY <1>2 DEF IInv, RouteInv, Routed
  <2> QED BY <1>1, <2>1, <2>2 DEF Here
<1>4. Stage[q] = "new" /\ Stage'[q] = "open"
  BY <1>1, <1>2, <1>3 DEF Stage, Routed
<1>5. ASSUME NEW p \in Calls, p # q
      PROVE  Stage'[p] = IF Stage[p] = "open" /\ IdOf[p] = IdOf[q] THEN "cut" ELSE Stage[p]
  <2>1. pc'[p] = pc[p] /\ closes'[p] = closes[p]
    BY <1>1, <1>2, <1>5
  <2>2. Routed(p)' <=> Routed(p) /\ IdOf[p] # IdOf[q]
    BY <1>1, <1>2, <1>5 DEF Routed
  <2>3. Routed(p) => rc[p] # None /\ pc[p] # "found"
    BY <1>2 DEF IInv, RouteInv, ConnsInv, Routed, Here
  <2> QED BY <1>1, <2>1, <2>2, <2>3 DEF Stage
<1>6. Stage' = [p \in Calls |-> Stage'[p]]
  BY DEF Stage
<1> HIDE DEF Stage
<1> QED BY <1>1, <1>4, <1>5, <1>6 DEF Stream!Open

(* An event enters the stream of its id, and a done or error finishes it.   *)
LEMMA EventEnters ==
  ASSUME IInv, NEW e \in Message, handleQAEvent(e), rc' = rc, pc' = pc
  PROVE  Stream!Next \/ UNCHANGED Stream!vars
<1> DEFINE q == qaCh[e.id]
<1>1. q \in Calls /\ closes[q] = 0 /\ Routed(q)
  BY Push
<1>2. Len(buf[q]) \in Nat
  BY <1>1 DEF IInv, TypeOK
<1>3. HasRoom(q, e.kind) <=> Stream!Room(q, e.kind)
  BY <1>2, HubAssumption DEF HasRoom, Stream!Room
<1>4. /\ buf' = IF HasRoom(q, e.kind) THEN [buf EXCEPT ![q] = Append(@, e.kind)] ELSE buf
      /\ ended' = ended
      /\ e.kind # "final" => qaCh' = qaCh /\ closes' = closes
  BY DEF handleQAEvent
<1>5. Stage[q] = "open"
  BY <1>1 DEF Stage
<1>6. CASE e.kind = "final"
  <2>1. Drops({q})
    BY <1>6, FinalDrops
  <2> HIDE DEF q
  <2>2. Stage' = [p \in Calls |-> IF p \in {q} THEN "closed" ELSE Stage[p]]
    BY <1>1, <2>1, DropsCloses
  <2>3. Stage' = [Stage EXCEPT ![q] = "closed"]
    BY <2>2 DEF Stage
  <2>4. Stream!Finish(q)
    BY <1>3, <1>4, <1>5, <1>6, <2>3 DEF Stream!Finish
  <2> QED BY <1>1, <2>4 DEF Stream!Next
<1>7. CASE e.kind # "final"
  <2>1. Stage' = Stage
    BY <1>4, <1>7, StageStays
  <2>2. e.kind \in {"frame", "event"}
    BY <1>7 DEF Message, Kinds
  <2> HIDE DEF q
  <2>3. CASE HasRoom(q, e.kind)
    <3>1. Stream!Put(q, e.kind)
      BY <1>3, <1>4, <1>5, <2>1, <2>3 DEF Stream!Put
    <3> QED BY <1>1, <2>2, <3>1 DEF Stream!Next
  <2>4. CASE ~HasRoom(q, e.kind)
    BY <1>4, <2>1, <2>4 DEF Stream!vars
  <2> QED BY <2>3, <2>4
<1> QED BY <1>6, <1>7

(* The consumer's cleanup closes what is still open.                        *)
LEMMA LeaveStreamLeaves == ASSUME IInv, NEW q \in Calls, LeaveStream(q) PROVE Stream!Leave(q)
<1> DEFINE Q == IF Routed(q) THEN {q} ELSE {}
<1>1. /\ cleanup(q) /\ rc' = rc /\ ended' = ended /\ pc' = [pc EXCEPT ![q] = "left"]
      /\ buf' = [buf EXCEPT ![q] = <<>>] /\ pc[q] = "streaming"
  BY DEF LeaveStream
<1>2. Q \in SUBSET {p \in Calls : Routed(p)} /\ Drops(Q)
  BY <1>1, CleanupDrops
<1>3. \A p \in Calls : pc'[p] = "found" <=> pc[p] = "found"
  BY <1>1 DEF IInv, TypeOK
<1>4. /\ \A p \in Q : Stage[p] = "open"
      /\ Stage' = [p \in Calls |-> IF p \in Q THEN "closed" ELSE Stage[p]]
  <2> HIDE DEF Q
  <2> QED BY <1>1, <1>2, <1>3, DropsCloses
<1>5. Stage[q] # "new" /\ (Stage[q] = "open" => Routed(q)) /\ DOMAIN Stage = Calls
  BY <1>1 DEF IInv, ConnsInv, Here, Stage
<1>6. Stage' = [Stage EXCEPT ![q] = IF @ = "open" THEN "closed" ELSE @]
  <2> HIDE DEF Stage
  <2>1. Stage = [p \in Calls |-> Stage[p]]
    BY DEF Stage
  <2> QED BY <1>4, <1>5, <2>1
<1> QED BY <1>1, <1>5, <1>6 DEF Stream!Leave

(* Each step of the hub is one of the streams, or none that they show.      *)
LEMMA StepStreams == IInv /\ [Next]_vars => [Stream!Next]_(Stream!vars)
<1> SUFFICES ASSUME IInv, [Next]_vars PROVE Stream!Next \/ UNCHANGED Stream!vars
  OBVIOUS
<1> USE DEF hub, caller, chans, runner
<1>1. /\ pc \in [Calls -> {"start", "found", "routed", "failing", "failed", "streaming", "left"}]
      /\ rc \in [Calls -> Conns \cup {None}]
  BY DEF IInv, TypeOK
<1>2. ASSUME Stage' = Stage, buf' = buf, ended' = ended PROVE UNCHANGED Stream!vars
  BY <1>2 DEF Stream!vars
<1>3. ASSUME NEW c \in Conns, Register(c) \/ CloseConn(c) PROVE UNCHANGED Stream!vars
  BY <1>2, <1>3, StageStays DEF Register, CloseConn
<1>4. ASSUME DropLink \/ \E q \in Calls : RunnerEnds(q) \/ \E kind \in Kinds : RunnerSends(q, kind)
      PROVE  UNCHANGED Stream!vars
  BY <1>2, <1>4, StageStays DEF DropLink, RunnerEnds, RunnerSends
<1>5. ASSUME NEW q \in Calls, SendRequest(q) \/ SendFails(q) PROVE UNCHANGED Stream!vars
  <2>1. \A p \in Calls : pc'[p] = "found" <=> pc[p] = "found"
    BY <1>1, <1>5 DEF SendRequest, SendFails
  <2> QED BY <1>2, <1>5, <2>1, StageStays DEF SendRequest, SendFails
<1>6. ASSUME NEW q \in Calls, NEW c \in Conns, LookupConn(q, c) PROVE UNCHANGED Stream!vars
  <2>1. pc[q] = "start" /\ rc[q] = None
    BY <1>6 DEF LookupConn, IInv, ConnsInv
  <2>2. \A p \in Calls : (rc'[p] = None \/ pc'[p] = "found") <=> (rc[p] = None \/ pc[p] = "found")
    BY <1>1, <1>6, <2>1 DEF LookupConn
  <2> QED BY <1>2, <1>6, <2>2, StageStays DEF LookupConn
<1>7. ASSUME NEW c \in Conns, Unregister(c) PROVE Stream!Next
  <2> DEFINE Q == {q \in Calls : Routed(q) /\ qaConn[IdOf[q]] = c}
  <2>1. Drops(Q) /\ Q \in SUBSET {q \in Calls : Routed(q)}
    BY <1>7, UnregisterDrops
  <2>2. rc' = rc /\ pc' = pc /\ buf' = buf /\ ended' = ended
    BY <1>7 DEF Unregister
  <2> HIDE DEF Q
  <2>3. Stream!Close(Q)
    BY <2>1, <2>2, DropsCloses DEF Stream!Close
  <2> QED BY <2>1, <2>3 DEF Stream!Next
<1>8. ASSUME NEW c \in Conns, Deliver(c) PROVE Stream!Next \/ UNCHANGED Stream!vars
  <2>1. Head(wire[c]) \in Message /\ rc' = rc /\ pc' = pc
    BY <1>8 DEF Deliver, IInv, TypeOK
  <2>2. CASE NoRoute(Head(wire[c]))
    BY <1>2, <2>1, <2>2, StageStays DEF NoRoute
  <2>3. CASE handleQAEvent(Head(wire[c]))
    BY <2>1, <2>3, EventEnters
  <2> QED BY <1>8, <2>2, <2>3 DEF Deliver
<1>9. ASSUME NEW q \in Calls, CleanupFailed(q) PROVE Stream!Next
  <2> DEFINE Q == IF Routed(q) THEN {q} ELSE {}
  <2>1. Q \in SUBSET {p \in Calls : Routed(p)} /\ Drops(Q)
    BY <1>9, CleanupDrops DEF CleanupFailed
  <2>2. /\ rc' = rc /\ buf' = buf /\ ended' = ended
        /\ \A p \in Calls : pc'[p] = "found" <=> pc[p] = "found"
    BY <1>1, <1>9 DEF CleanupFailed
  <2> HIDE DEF Q
  <2>3. Stream!Close(Q)
    BY <2>1, <2>2, DropsCloses DEF Stream!Close
  <2> QED BY <2>1, <2>3 DEF Stream!Next
<1>10. ASSUME NEW q \in Calls, Receive(q) PROVE Stream!Next
  <2>1. Stage' = Stage
    BY <1>10, StageStays DEF Receive
  <2>2. Stream!Take(q)
    BY <1>10, <2>1 DEF Receive, Stream!Take
  <2> QED BY <2>2 DEF Stream!Next
<1>11. ASSUME NEW q \in Calls, OpenRoute(q) \/ LeaveStream(q) PROVE Stream!Next
  BY <1>11, OpenRouteOpens, LeaveStreamLeaves DEF Stream!Next
<1>12. CASE UNCHANGED vars
  BY <1>2, <1>12, StageStays DEF vars
<1> HIDE DEF hub, caller, chans, runner
<1> QED BY <1>3, <1>4, <1>5, <1>6, <1>7, <1>8, <1>9, <1>10, <1>11, <1>12 DEF Next

(* The hub, with its locks, maps, read loops and cleanups, is a set of      *)
(* bounded streams addressed by request id, for any calls, connections and  *)
(* ids and any capacity.                                                    *)
THEOREM HubRefinesStreams == Spec => StreamSpec
<1>1. Init => Stream!Init
  BY HubAssumption DEF Init, Stream!Init, Stage, Routed
<1> QED BY <1>1, StepStreams, Invariance, PTL DEF Spec, StreamSpec, Stream!Spec
=============================================================================
