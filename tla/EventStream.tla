----------------------------- MODULE EventStream -----------------------------
(***************************************************************************)
(* What Hub.StartQA promises to the consumer of the channel it returns, and *)
(* no more: bounded streams of events, addressed by a request id.  An id    *)
(* leads to the last stream that was opened under it; an earlier one is cut *)
(* off.  A stream that is open takes events as far as it has room, and is   *)
(* closed once: behind a done or error, because its connection was lost, or *)
(* because its consumer left; that it ends at all is not promised.          *)
(* HubQA.tla implements this module.                                        *)
(***************************************************************************)
EXTENDS Naturals, Sequences

CONSTANTS Streams,   \* invocations of StartQA
          IdOf,      \* the request id of each stream
          Cap        \* how many events a stream holds

VARIABLES stage,     \* of each stream: "new", "open", "cut" or "closed"
          queue,     \* the events it holds
          ended      \* whether its consumer has received a done or error

vars == <<stage, queue, ended>>

Init ==
  /\ stage = [s \in Streams |-> "new"]
  /\ queue = [s \in Streams |-> <<>>]
  /\ ended = [s \in Streams |-> FALSE]

Open(s) ==
  /\ stage[s] = "new"
  /\ stage' = [t \in Streams |->
                 IF t = s THEN "open"
                 ELSE IF stage[t] = "open" /\ IdOf[t] = IdOf[s] THEN "cut" ELSE stage[t]]
  /\ UNCHANGED <<queue, ended>>

(* Output of a terminal leaves the last quarter to the other events. *)
Room(s, kind) == Len(queue[s]) < IF kind = "frame" THEN (Cap * 3) \div 4 ELSE Cap

Put(s, kind) ==
  /\ stage[s] = "open"
  /\ Room(s, kind)
  /\ queue' = [queue EXCEPT ![s] = Append(@, kind)]
  /\ UNCHANGED <<stage, ended>>

(* A done or error: it is dropped only if the stream is full. *)
Finish(s) ==
  /\ stage[s] = "open"
  /\ stage' = [stage EXCEPT ![s] = "closed"]
  /\ queue' = IF Room(s, "final") THEN [queue EXCEPT ![s] = Append(@, "final")] ELSE queue
  /\ UNCHANGED ended

(* A lost connection closes all that it carried. *)
Close(S) ==
  /\ \A s \in S : stage[s] = "open"
  /\ stage' = [s \in Streams |-> IF s \in S THEN "closed" ELSE stage[s]]
  /\ UNCHANGED <<queue, ended>>

Take(s) ==
  /\ queue[s] # <<>>
  /\ ended' = [ended EXCEPT ![s] = @ \/ Head(queue[s]) = "final"]
  /\ queue' = [queue EXCEPT ![s] = Tail(@)]
  /\ UNCHANGED stage

Leave(s) ==
  /\ stage[s] # "new"
  /\ stage' = [stage EXCEPT ![s] = IF @ = "open" THEN "closed" ELSE @]
  /\ queue' = [queue EXCEPT ![s] = <<>>]
  /\ UNCHANGED ended

Next ==
  \/ \E s \in Streams : Open(s) \/ Finish(s) \/ Take(s) \/ Leave(s)
  \/ \E s \in Streams, kind \in {"frame", "event"} : Put(s, kind)
  \/ \E S \in SUBSET Streams : Close(S)

Spec == Init /\ [][Next]_vars
=============================================================================
