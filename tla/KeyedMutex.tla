----------------------------- MODULE KeyedMutex -----------------------------
(***************************************************************************)
(* What workspaceGate promises to handleQARequest, and no more: one lock    *)
(* per workspace key.  A caller asks for a key, gets it or gives up, and    *)
(* gives it back, perhaps straight into the hands of another caller.        *)
(* WorkspaceGate.tla implements this module; RunnerQA.tla is built on it.   *)
(***************************************************************************)
CONSTANTS Callers,   \* goroutines that run handleQARequest
          Keys,      \* canonical workspace roots
          NoKey      \* "asks for nothing"

VARIABLES want,      \* the key each caller waits for or holds
          inside     \* the callers that hold their key

vars == <<want, inside>>

Init ==
  /\ want = [c \in Callers |-> NoKey]
  /\ inside = {}

Waits(c) == want[c] # NoKey /\ c \notin inside

Free(k) == \A d \in inside : want[d] # k

Request(c, k) ==
  /\ want[c] = NoKey
  /\ want' = [want EXCEPT ![c] = k]
  /\ UNCHANGED inside

Enter(c) ==
  /\ Waits(c)
  /\ Free(want[c])
  /\ inside' = inside \cup {c}
  /\ UNCHANGED want

GiveUp(c) ==
  /\ Waits(c)
  /\ want' = [want EXCEPT ![c] = NoKey]
  /\ UNCHANGED inside

Leave(c) ==
  /\ c \in inside
  /\ inside' = inside \ {c}
  /\ want' = [want EXCEPT ![c] = NoKey]

HandOver(c, d) ==
  /\ c \in inside
  /\ Waits(d)
  /\ want[d] = want[c]
  /\ inside' = (inside \ {c}) \cup {d}
  /\ want' = [want EXCEPT ![c] = NoKey]

Next ==
  \/ \E c \in Callers, k \in Keys : Request(c, k)
  \/ \E c \in Callers : Enter(c) \/ GiveUp(c) \/ Leave(c)
  \/ \E c, d \in Callers : HandOver(c, d)

Spec == Init /\ [][Next]_vars
=============================================================================
