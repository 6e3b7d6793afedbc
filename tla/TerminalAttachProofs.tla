------------------------- MODULE TerminalAttachProofs -------------------------
(***************************************************************************)
(* Proofs about TerminalAttach, for any opens, ids and sessions: as long as *)
(* no two live terminals share an id, every running attachment can be       *)
(* reached.  That OnePerId holds is up to the server, so it is an           *)
(* assumption of every step here and not a part of the invariant.           *)
(***************************************************************************)
EXTENDS TerminalAttach, TLAPS

Attaching == {"store", "replace"}
Attached  == Attaching \cup {"stored"}

(* d.terminalAtt leads to attachments that were stored under their id, and  *)
(* an attachment has its read loop from tmux attach on.                     *)
EntryInv ==
  /\ \A i \in Ids : terminalAtt[i] # None
       => IdOf[terminalAtt[i]] = i /\ pc[terminalAtt[i]] = "stored"
  /\ \A o \in Opens : loop[o] = "none" <=> pc[o] \notin Attached

IInv == TypeOK /\ EntryInv /\ Reachable

(* No open has arrived.                                                     *)
LEMMA InitIInv == Init => IInv
  BY TerminalAssumption
  DEF Init, IInv, TypeOK, EntryInv, Reachable, Idle, Phases, Attached, Attaching

(* The steps that leave the map, the attachments and their handlers alone.  *)
LEMMA Untouched ==
  ASSUME IInv, TypeOK', UNCHANGED <<terminalAtt, pc, loop>>, shut \subseteq shut'
  PROVE  IInv'
  BY DEF IInv, EntryInv, Reachable

(* An open on its way to tmux attach, or refused.                           *)
LEMMA OpensKeep ==
  ASSUME IInv, NEW o \in Opens,
         Open(o) \/ Refuse(o) \/ Resolve(o) \/ Create(o) \/ Attach(o)
  PROVE  IInv'
<1> USE TerminalAssumption DEF IInv
<1>1. /\ pc[o] \in Phases \ Attached
      /\ UNCHANGED <<terminalAtt, mu, loop, shut, reader>>
      /\ \E p \in Phases \ Attached : pc' = [pc EXCEPT ![o] = p]
  BY DEF Open, Refuse, Resolve, Create, Attach, Goto, Phases, Attached, Attaching
<1>2. TypeOK'
  <2>1. told' \subseteq Opens /\ given' \subseteq Opens /\ tmux' \in [Sessions -> BOOLEAN]
    BY DEF Open, Refuse, Resolve, Create, Attach, TypeOK
  <2> QED BY <1>1, <2>1 DEF TypeOK
<1>3. PICK p \in Phases \ Attached : pc' = [pc EXCEPT ![o] = p]
  BY <1>1
<1>4. pc'[o] = p /\ \A q \in Opens \ {o} : pc'[q] = pc[q]
  BY <1>3 DEF TypeOK
<1>5. EntryInv'
  BY <1>1, <1>4 DEF EntryInv, TypeOK, Attached
<1>6. Reachable'
  BY <1>1, <1>4 DEF Reachable, Attached, Attaching
<1> QED BY <1>2, <1>5, <1>6

(* The attachment has yet to be stored.                                     *)
LEMMA SpawnKeeps == ASSUME IInv, NEW o \in Opens, Spawn(o) PROVE IInv'
<1> USE TerminalAssumption DEF IInv, Spawn, Goto
<1>1. TypeOK'
  BY DEF TypeOK, Phases
<1>2. EntryInv'
  BY DEF EntryInv, TypeOK, Attached, Attaching
<1>3. Reachable'
  BY DEF Reachable, TypeOK
<1> QED BY <1>1, <1>2, <1>3

(* An open stores its attachment; the one it replaces, if any, is over, as  *)
(* the two share an id.                                                     *)
LEMMA StoreKeeps == ASSUME IInv, OnePerId, NEW o \in Opens, Store(o) PROVE IInv'
<1> USE TerminalAssumption DEF IInv
<1>1. pc[o] = "store" /\ IdOf[o] \in Ids
  BY DEF Store
<1>2. CASE terminalAtt[IdOf[o]] = None
  <2>1. /\ terminalAtt' = [terminalAtt EXCEPT ![IdOf[o]] = o]
        /\ pc' = [pc EXCEPT ![o] = "stored"]
        /\ UNCHANGED <<mu, shut, loop, reader, tmux, told, given>>
    BY <1>2 DEF Store, Goto
  <2>2. TypeOK'
    BY <1>1, <2>1 DEF TypeOK, Phases
  <2>3. EntryInv'
    BY <1>1, <2>1 DEF EntryInv, TypeOK, Attached, Attaching
  <2>4. Reachable'
    BY <1>1, <1>2, <2>1 DEF Reachable, TypeOK
  <2> QED BY <2>2, <2>3, <2>4
<1>3. CASE terminalAtt[IdOf[o]] # None
  <2>1. /\ shut' = shut \cup {terminalAtt[IdOf[o]]} /\ mu' = o
        /\ pc' = [pc EXCEPT ![o] = "replace"]
        /\ UNCHANGED <<terminalAtt, loop, reader, tmux, told, given>>
    BY <1>3 DEF Store, Goto
  <2>2. TypeOK'
    BY <1>1, <1>3, <2>1 DEF TypeOK, Phases
  <2>3. EntryInv'
    BY <1>1, <2>1 DEF EntryInv, TypeOK, Attached, Attaching
  <2>4. Reachable'
    BY <1>1, <2>1 DEF Reachable, TypeOK
  <2> QED BY <2>2, <2>3, <2>4
<1> QED BY <1>2, <1>3

(* The old attachment is done.                                              *)
LEMMA ReplaceKeeps == ASSUME IInv, NEW o \in Opens, Replace(o) PROVE IInv'
<1> USE TerminalAssumption DEF IInv
<1>1. /\ pc[o] = "replace" /\ IdOf[o] \in Ids
      /\ loop[terminalAtt[IdOf[o]]] = "done"
      /\ terminalAtt' = [terminalAtt EXCEPT ![IdOf[o]] = o]
      /\ mu' = None
      /\ pc' = [pc EXCEPT ![o] = "stored"]
      /\ UNCHANGED <<loop, shut, reader, tmux, told, given>>
  BY DEF Replace, Goto
<1>2. TypeOK'
  BY <1>1 DEF TypeOK, Phases
<1>3. EntryInv'
  BY <1>1 DEF EntryInv, TypeOK, Attached, Attaching
<1>4. Reachable'
  BY <1>1 DEF Reachable, TypeOK
<1> QED BY <1>2, <1>3, <1>4

(* The read loop tells the server before it takes the entry out.            *)
LEMMA ReadFailsKeeps == ASSUME IInv, NEW o \in Opens, ReadFails(o) PROVE IInv'
<1> USE TerminalAssumption DEF IInv, ReadFails
<1>1. TypeOK'
  BY DEF TypeOK
<1>2. EntryInv'
  BY DEF EntryInv, TypeOK
<1>3. Reachable'
  BY DEF Reachable, TypeOK
<1> QED BY <1>1, <1>2, <1>3

(* The callback deletes whatever stands under its id: another attachment    *)
(* that still runs would have to share the id with this one.                *)
LEMMA ClosedKeeps == ASSUME IInv, OnePerId, NEW o \in Opens, Closed(o) PROVE IInv'
<1> USE TerminalAssumption DEF IInv
<1>1. /\ loop[o] = "failed" /\ IdOf[o] \in Ids
      /\ terminalAtt' = [terminalAtt EXCEPT ![IdOf[o]] = None]
      /\ loop' = [loop EXCEPT ![o] = "done"]
      /\ UNCHANGED <<mu, pc, shut, reader, tmux, told, given>>
  BY DEF Closed
<1>2. TypeOK'
  BY <1>1 DEF TypeOK
<1>3. EntryInv'
  BY <1>1 DEF EntryInv, TypeOK
<1>4. Reachable'
  <2> SUFFICES ASSUME NEW p \in Opens, loop'[p] = "reading", p \notin shut
               PROVE  terminalAtt'[IdOf[p]] = p \/ pc[p] \in Attaching
    BY <1>1 DEF Reachable, Attaching
  <2>1. p # o /\ loop[p] = "reading"
    BY <1>1 DEF TypeOK
  <2>2. CASE IdOf[p] = IdOf[o]
    <3>1. ~Over(o)
      BY <1>1 DEF Over, EntryInv, Attached, Attaching
    <3>2. Over(p)
      BY <2>1, <2>2, <3>1 DEF OnePerId
    <3>3. pc[p] \in Attached
      BY <2>1 DEF EntryInv
    <3> QED BY <2>1, <3>2, <3>3 DEF Over, Attached, Attaching
  <2>3. CASE IdOf[p] # IdOf[o]
    BY <1>1, <2>1, <2>3 DEF Reachable, TypeOK, Attaching
  <2> QED BY <2>2, <2>3
<1> QED BY <1>2, <1>3, <1>4

(* A close takes the entry out and shuts the attachment it led to.          *)
LEMMA TakeOutKeeps == ASSUME IInv, TakeOut PROVE IInv'
<1> USE TerminalAssumption DEF IInv
<1> DEFINE i == reader.arg
<1>1. i \in Ids
  BY DEF TakeOut, TypeOK, Idle
<1>2. /\ terminalAtt' = [terminalAtt EXCEPT ![i] = None]
      /\ UNCHANGED <<mu, pc, loop, tmux, told, given>>
      /\ \/ terminalAtt[i] = None /\ reader' = Idle /\ shut' = shut
         \/ /\ terminalAtt[i] # None
            /\ reader' = [at |-> "wait", arg |-> terminalAtt[i]]
            /\ shut' = shut \cup {terminalAtt[i]}
  BY DEF TakeOut
<1> HIDE DEF i
<1>3. TypeOK'
  BY <1>1, <1>2 DEF TypeOK
<1>4. EntryInv'
  BY <1>1, <1>2 DEF EntryInv, TypeOK
<1>5. Reachable'
  BY <1>1, <1>2 DEF Reachable, TypeOK
<1> QED BY <1>3, <1>4, <1>5

(* The steps of the reader and of tmux that touch no attachment.            *)
LEMMA OthersKeep ==
  ASSUME IInv,
         \/ \E s \in Sessions : SessionDies(s)
         \/ \E i \in Ids, op \in {"input", "close"} : Take(op, i)
         \/ LookUp \/ CloseReturns \/ UNCHANGED vars
  PROVE  IInv'
<1>1. UNCHANGED <<terminalAtt, pc, loop, shut>>
  BY DEF SessionDies, Take, LookUp, CloseReturns, vars
<1>2. TypeOK'
  <2>1. ASSUME NEW s \in Sessions, SessionDies(s) PROVE TypeOK'
    BY <2>1 DEF IInv, TypeOK, SessionDies
  <2>2. ASSUME NEW i \in Ids, NEW op \in {"input", "close"}, Take(op, i) PROVE TypeOK'
    BY <2>2 DEF IInv, TypeOK, Take, OfId
  <2>3. LookUp \/ CloseReturns \/ UNCHANGED vars => TypeOK'
    BY DEF IInv, TypeOK, LookUp, CloseReturns, vars
  <2> QED BY <2>1, <2>2, <2>3
<1> QED BY <1>1, <1>2, Untouched

(* Every step keeps it, while no two live terminals share an id.            *)
LEMMA NextIInv == IInv /\ OnePerId /\ [Next]_vars => IInv'
  BY OpensKeep, SpawnKeeps, StoreKeeps, ReplaceKeeps, ReadFailsKeeps, ClosedKeeps,
     TakeOutKeeps, OthersKeep
  DEF Next, OpenStep

(* As long as no two live terminals share an id, a running attachment is    *)
(* found by input and closed by terminal_close (handleTerminalOpen,         *)
(* handleTerminalClose and the read loop's callback).                       *)
THEOREM NeverOrphaned == Spec => NoOrphan
<1>1. IInv => Reachable
  BY DEF IInv
<1> QED BY <1>1, InitIInv, NextIInv, PTL DEF Spec, NoOrphan
=============================================================================
