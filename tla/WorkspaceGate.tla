---------------------------- MODULE WorkspaceGate ----------------------------
(***************************************************************************)
(* workspaceGate (src/internal/runner/workspace_gate.go): the keyed,        *)
(* reference-counted, cancellable lock that the runner takes around a QA    *)
(* request which reads or checks out a real workspace.                      *)
(*                                                                         *)
(* A critical section of g.mu never blocks, so each is one atomic step.     *)
(* Between two of them a caller only touches the channel of the lock        *)
(* object it looked up, which need not be in the map any more: that is the  *)
(* gap the reference count is there to close.  A lock object nobody         *)
(* reaches is garbage, and its identity may be handed out again.            *)
(*                                                                         *)
(* The channel is Go's: capacity one, senders that block are parked in     *)
(* FIFO order, and a receive from a full channel with a parked sender       *)
(* completes that sender's send in the same step, so the buffer stays full. *)
(***************************************************************************)
EXTENDS Integers, FiniteSets, Sequences, SequencesExt

CONSTANTS Callers,   \* goroutines that run handleQARequest
          Roots,     \* spellings of workspace paths
          Keys,      \* canonical paths
          KeyOf,     \* Abs, Clean and EvalSymlinks of a spelling
          Locks,     \* identities of *workspaceLock objects
          NoKey,     \* not inside a call of acquire
          NoLock     \* the nil *workspaceLock

ASSUME GateAssumption ==
  /\ IsFiniteSet(Callers)
  /\ KeyOf \in [Roots -> Keys]
  /\ NoKey \notin Keys
  /\ NoLock \notin Locks

VARIABLES locks,     \* g.locks: the map from key to lock object
          refs,      \* lock.refs
          sem,       \* len(lock.sem)
          sendq,     \* the callers parked in a send on lock.sem
          pc,        \* where in acquire or release each caller is
          key,       \* acquire's local `key`
          obj,       \* acquire's local `lock`
          done       \* ctx.Done() is closed

vars == <<locks, refs, sem, sendq, pc, key, obj, done>>

(***************************************************************************)
(* idle        outside acquire                                             *)
(* referenced  refs counted, about to run the select with a default        *)
(* queued      took the default: in onQueued, about to run the second one  *)
(* parked      blocked in the second select                                *)
(* holding     its send on lock.sem completed: it owns the workspace       *)
(* cancelled   saw ctx.Done(), about to run releaseRef                     *)
(* released    received from lock.sem, about to run releaseRef             *)
(***************************************************************************)
Phases == {"idle", "referenced", "queued", "parked", "holding", "cancelled", "released"}

Waiting(c)    == pc[c] \in {"referenced", "queued", "parked"}
Holds(c)      == pc[c] = "holding"
Users(l)      == {c \in Callers : obj[c] = l}
Unreachable(l) == Users(l) = {} /\ \A k \in Keys : locks[k] # l

workspaceGateKey(r) == KeyOf[r]

Init ==
  /\ locks = [k \in Keys |-> NoLock]
  /\ refs = [l \in Locks |-> 0]
  /\ sem = [l \in Locks |-> 0]
  /\ sendq = [l \in Locks |-> <<>>]
  /\ pc = [c \in Callers |-> "idle"]
  /\ key = [c \in Callers |-> NoKey]
  /\ obj = [c \in Callers |-> NoLock]
  /\ done = [c \in Callers |-> FALSE]

(* Mutant: only the call that creates the lock object counts itself. *)
RefLockFirstOnly(c, k, l) ==
  /\ refs' = [refs EXCEPT ![l] = 1]
  /\ key' = [key EXCEPT ![c] = k]
  /\ obj' = [obj EXCEPT ![c] = l]
  /\ pc' = [pc EXCEPT ![c] = "referenced"]
  /\ done' = [done EXCEPT ![c] = FALSE]

(* The lookup or creation of the lock object, and refs++, under g.mu. *)
RefLock(c, k, l) ==
  /\ refs' = [refs EXCEPT ![l] = @ + 1]
  /\ key' = [key EXCEPT ![c] = k]
  /\ obj' = [obj EXCEPT ![c] = l]
  /\ pc' = [pc EXCEPT ![c] = "referenced"]
  /\ done' = [done EXCEPT ![c] = FALSE]

LookupLock(c, k) ==
  /\ locks[k] # NoLock
  /\ RefLock(c, k, locks[k])
  /\ UNCHANGED <<locks, sem, sendq>>

CreateLock(c, k) ==
  /\ locks[k] = NoLock
  /\ \E l \in Locks :
       /\ Unreachable(l)
       /\ locks' = [locks EXCEPT ![k] = l]
       /\ RefLock(c, k, l)
  /\ UNCHANGED <<sem, sendq>>

Acquire(c, r) ==
  /\ pc[c] = "idle"
  /\ LookupLock(c, workspaceGateKey(r)) \/ CreateLock(c, workspaceGateKey(r))

(* Mutant: make(chan struct{}, 2). *)
RoomForTwo(l) == sem[l] < 2

(* The capacity of lock.sem is one. *)
Room(l) == sem[l] < 1

(* A send that finds room in the buffer. *)
Send(c) ==
  /\ Room(obj[c])
  /\ sem' = [sem EXCEPT ![obj[c]] = @ + 1]
  /\ pc' = [pc EXCEPT ![c] = "holding"]
  /\ UNCHANGED sendq

(* The ctx.Done() case of either select. *)
SeeDone(c) ==
  /\ done[c]
  /\ pc' = [pc EXCEPT ![c] = "cancelled"]
  /\ UNCHANGED <<sem, sendq>>

Park(c) ==
  /\ pc' = [pc EXCEPT ![c] = "parked"]
  /\ sendq' = [sendq EXCEPT ![obj[c]] = Append(@, c)]
  /\ UNCHANGED sem

(* The first select: its default leads to onQueued. *)
TryAcquire(c) ==
  /\ pc[c] = "referenced"
  /\ \/ Send(c)
     \/ SeeDone(c)
     \/ /\ ~Room(obj[c]) /\ ~done[c]
        /\ pc' = [pc EXCEPT ![c] = "queued"]
        /\ UNCHANGED <<sem, sendq>>
  /\ UNCHANGED <<locks, refs, key, obj, done>>

(* Mutant: blocks on the strength of what the first select saw. *)
AwaitTurnBlind(c) ==
  /\ pc[c] = "queued"
  /\ SeeDone(c) \/ (~done[c] /\ Park(c))
  /\ UNCHANGED <<locks, refs, key, obj, done>>

(* onQueued returned: the second select looks at both channels afresh and *)
(* parks the caller if neither is ready.                                  *)
AwaitTurn(c) ==
  /\ pc[c] = "queued"
  /\ \/ Send(c)
     \/ SeeDone(c)
     \/ ~Room(obj[c]) /\ ~done[c] /\ Park(c)
  /\ UNCHANGED <<locks, refs, key, obj, done>>

(* Mutant: the second select has no ctx.Done() case. *)
CancelUnseen(c) ==
  /\ pc[c] \in {"referenced", "queued", "parked", "holding"}
  /\ ~done[c]
  /\ done' = [done EXCEPT ![c] = TRUE]
  /\ UNCHANGED <<locks, refs, sem, sendq, pc, key, obj>>

(* The caller's context is cancelled: by a stop request, or by whoever      *)
(* owns the parent context.  A parked caller is taken off the queue of      *)
(* lock.sem and resumes in its ctx.Done() case.                             *)
Cancel(c) ==
  /\ pc[c] \in {"referenced", "queued", "parked", "holding"}
  /\ ~done[c]
  /\ done' = [done EXCEPT ![c] = TRUE]
  /\ IF pc[c] = "parked"
     THEN /\ pc' = [pc EXCEPT ![c] = "cancelled"]
          /\ \E i \in DOMAIN sendq[obj[c]] :
               /\ sendq[obj[c]][i] = c
               /\ sendq' = [sendq EXCEPT ![obj[c]] = RemoveAt(@, i)]
     ELSE UNCHANGED <<pc, sendq>>
  /\ UNCHANGED <<locks, refs, sem, key, obj>>

(* Mutant: the parked caller is only woken, and has to try again. *)
FreeTokenWake(c) ==
  LET l == obj[c] IN
  /\ pc[c] = "holding"
  /\ sem' = [sem EXCEPT ![l] = 0]
  /\ IF sendq[l] = <<>>
     THEN /\ pc' = [pc EXCEPT ![c] = "released"]
          /\ UNCHANGED sendq
     ELSE /\ sendq' = [sendq EXCEPT ![l] = Tail(@)]
          /\ pc' = [pc EXCEPT ![c] = "released", ![Head(sendq[l])] = "queued"]
  /\ UNCHANGED <<locks, refs, key, obj, done>>

(* release: <-lock.sem.  With a sender parked, the token goes to it. *)
FreeToken(c) ==
  LET l == obj[c] IN
  /\ pc[c] = "holding"
  /\ IF sendq[l] = <<>>
     THEN /\ sem' = [sem EXCEPT ![l] = @ - 1]
          /\ pc' = [pc EXCEPT ![c] = "released"]
          /\ UNCHANGED sendq
     ELSE /\ sendq' = [sendq EXCEPT ![l] = Tail(@)]
          /\ pc' = [pc EXCEPT ![c] = "released", ![Head(sendq[l])] = "holding"]
          /\ UNCHANGED sem
  /\ UNCHANGED <<locks, refs, key, obj, done>>

(* Mutants: the entry goes with the first call that leaves; or never. *)
DropsEntryEarly(k, l) == locks[k] = l
DropsEntryNever(k, l) == FALSE

(* The condition of delete(g.locks, key), after lock.refs--. *)
DropsEntry(k, l) == refs[l] = 1 /\ sem[l] = 0 /\ locks[k] = l

(* releaseRef, under g.mu; then acquire or release returns. *)
releaseRef(c) ==
  LET l == obj[c]
      k == key[c] IN
  /\ pc[c] \in {"cancelled", "released"}
  /\ refs' = [refs EXCEPT ![l] = @ - 1]
  /\ locks' = IF DropsEntry(k, l) THEN [locks EXCEPT ![k] = NoLock] ELSE locks
  /\ pc' = [pc EXCEPT ![c] = "idle"]
  /\ key' = [key EXCEPT ![c] = NoKey]
  /\ obj' = [obj EXCEPT ![c] = NoLock]
  /\ UNCHANGED <<sem, sendq, done>>

Next ==
  \/ \E c \in Callers, r \in Roots : Acquire(c, r)
  \/ \E c \in Callers : TryAcquire(c)
  \/ \E c \in Callers : AwaitTurn(c)
  \/ \E c \in Callers : Cancel(c)
  \/ \E c \in Callers : FreeToken(c)
  \/ \E c \in Callers : releaseRef(c)

Spec == Init /\ [][Next]_vars

(* A goroutine that can run does: none of these steps waits for a peer.     *)
GateFairness ==
  \A c \in Callers : /\ WF_vars(TryAcquire(c))
                     /\ WF_vars(AwaitTurn(c))
                     /\ WF_vars(releaseRef(c))

(* A holder may run its executor for ever.  Only OwnerFairness says that    *)
(* every owner comes to its deferred release.                              *)
OwnerFairness == \A c \in Callers : WF_vars(FreeToken(c))

GateSpec == Spec /\ GateFairness
-----------------------------------------------------------------------------
(* Types of the variables. *)
TypeOK ==
  /\ locks \in [Keys -> Locks \cup {NoLock}]
  /\ refs \in [Locks -> Int]
  /\ sem \in [Locks -> 0..1]
  /\ sendq \in [Locks -> Seq(Callers)]
  /\ pc \in [Callers -> Phases]
  /\ key \in [Callers -> Keys \cup {NoKey}]
  /\ obj \in [Callers -> Locks \cup {NoLock}]
  /\ done \in [Callers -> BOOLEAN]

(* "serializes operations that can checkout or write the same real          *)
(* workspace" (workspace_gate.go:9): no two callers hold the gate for one   *)
(* workspace, however lookups, releases and map deletions interleave.       *)
MutualExclusion ==
  \A c, d \in Callers : c # d /\ Holds(c) /\ Holds(d) => key[c] # key[d]

(* The map is neither leaky nor forgetful: a key has an entry exactly while *)
(* some call of acquire or release for it has not returned.                 *)
MapExact ==
  \A k \in Keys : locks[k] # NoLock <=> \E c \in Callers : key[c] = k

(* The count is the number of calls that still hold a pointer to the lock:  *)
(* it decides the deletion, so one too few drops a lock that is in use.     *)
RefsExact == \A l \in Locks : refs[l] = Cardinality(Users(l))

(* No lost wake-up: a caller is parked on a lock only while another one     *)
(* holds it, and stands in its queue exactly once.                          *)
NoLostWakeup ==
  \A c \in Callers : pc[c] = "parked" =>
    /\ \E d \in Callers : Holds(d) /\ obj[d] = obj[c]
    /\ Cardinality({i \in DOMAIN sendq[obj[c]] : sendq[obj[c]][i] = c}) = 1

(* First parked, first served: while callers are parked on a lock, only the *)
(* one that parked first can become its owner; a newcomer cannot barge in.  *)
NoBarging ==
  [][\A c \in Callers :
       Holds(c)' /\ ~Holds(c) /\ sendq[obj[c]] # <<>> => c = Head(sendq[obj[c]])]_vars

(* "Waiting is cancellable so a Stop request does not linger behind another *)
(* session" (workspace_gate.go:36): a cancelled call stops waiting even if   *)
(* the owner never releases.                                               *)
CancelEndsWait == \A c \in Callers : (done[c] /\ Waiting(c)) ~> ~Waiting(c)

(* If owners release, every call comes to own the workspace or is cancelled. *)
EveryCallServed ==
  OwnerFairness => \A c \in Callers : Waiting(c) ~> (Holds(c) \/ done[c])

(* The refinement mapping: a caller wants its key from the moment its       *)
(* reference is counted, and is inside from its send to its receive.        *)
Want   == [c \in Callers |-> IF Waiting(c) \/ Holds(c) THEN key[c] ELSE NoKey]
Inside == {c \in Callers : Holds(c)}
Mutex  == INSTANCE KeyedMutex WITH want <- Want, inside <- Inside

(* The gate is the abstract keyed mutex. *)
MutexSpec == Mutex!Spec
=============================================================================
