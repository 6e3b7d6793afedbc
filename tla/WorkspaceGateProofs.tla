------------------------- MODULE WorkspaceGateProofs -------------------------
(***************************************************************************)
(* TLAPS proofs about WorkspaceGate, for any finite set of callers, any      *)
(* set of workspaces, and any map from spellings to keys.                   *)
(*                                                                         *)
(* The argument: all calls of acquire and release that are under way for    *)
(* one key point to one lock object, because the map keeps its entry as     *)
(* long as refs counts a user of it; and one lock object has one owner,     *)
(* because its channel has room for one token.                              *)
(***************************************************************************)
EXTENDS WorkspaceGate, FiniteSetTheorems, SequenceTheorems, TLAPS

(* Every call under way points to the object that the map has for its key. *)
Pointers ==
  \A c \in Callers : /\ pc[c] = "idle" <=> key[c] = NoKey
                     /\ key[c] = NoKey <=> obj[c] = NoLock
                     /\ key[c] # NoKey => locks[key[c]] = obj[c]

(* No lock object serves two keys. *)
OneKeyPerLock ==
  \A j, k \in Keys : locks[j] = locks[k] /\ locks[j] # NoLock => j = k

(* The buffer of lock.sem holds a token exactly while one user owns it. *)
Owner ==
  /\ \A l \in Locks : sem[l] = 1 <=> \E c \in Callers : Holds(c) /\ obj[c] = l
  /\ \A c, d \in Callers : Holds(c) /\ Holds(d) /\ obj[c] = obj[d] => c = d

Distinct(q) == \A i, j \in 1..Len(q) : q[i] = q[j] => i = j

(* The queue of a lock is its parked callers, once each, and is empty while *)
(* the lock is free.                                                        *)
Queue ==
  \A l \in Locks :
    /\ Distinct(sendq[l])
    /\ \A i \in 1..Len(sendq[l]) : /\ pc[sendq[l][i]] = "parked"
                                   /\ obj[sendq[l][i]] = l
    /\ \A c \in Callers : pc[c] = "parked" /\ obj[c] = l =>
         \E i \in 1..Len(sendq[l]) : sendq[l][i] = c
    /\ sendq[l] # <<>> => sem[l] = 1

(* The inductive invariant. *)
IInv ==
  /\ TypeOK
  /\ Pointers
  /\ MapExact
  /\ OneKeyPerLock
  /\ RefsExact
  /\ Owner
  /\ Queue
-----------------------------------------------------------------------------
(* What RemoveAt, the un-parking of a cancelled caller, leaves of a queue. *)
LEMMA RemoveAtQueue ==
  ASSUME NEW S, NEW q \in Seq(S), NEW p \in 1..Len(q), Distinct(q)
  PROVE  LET r == RemoveAt(q, p) IN
         /\ r \in Seq(S)
         /\ Distinct(r)
         /\ \A i \in 1..Len(r) : r[i] # q[p] /\ \E j \in 1..Len(q) : r[i] = q[j]
         /\ \A j \in 1..Len(q) : j # p => \E i \in 1..Len(r) : r[i] = q[j]
         /\ r # <<>> => q # <<>>
<1> DEFINE a == SubSeq(q, 1, p - 1)
           b == SubSeq(q, p + 1, Len(q))
           r == a \o b
<1>1. /\ Len(q) \in Nat
      /\ \A i \in 1..Len(q) : q[i] \in S
  BY LenProperties, ElementOfSeq
<1>2. /\ a \in Seq(S)
      /\ Len(a) = p - 1
      /\ \A i \in 1..(p - 1) : a[i] = q[i]
  <2>1. \A i \in 1..(p - 1) : q[i] \in S
    BY <1>1
  <2>2. 1 \in Int /\ p - 1 \in Int
    BY <1>1
  <2>3. /\ a \in Seq(S)
        /\ Len(a) = IF 1 <= p - 1 THEN p - 1 - 1 + 1 ELSE 0
        /\ \A i \in 1..(p - 1 - 1 + 1) : a[i] = q[1 + i - 1]
    BY <2>1, <2>2, SubSeqProperties
  <2> QED BY <1>1, <2>3
<1>3. /\ b \in Seq(S)
      /\ Len(b) = Len(q) - p
      /\ \A i \in 1..(Len(q) - p) : b[i] = q[p + i]
  <2>1. \A i \in (p + 1)..Len(q) : q[i] \in S
    BY <1>1
  <2>2. p + 1 \in Int /\ Len(q) \in Int
    BY <1>1
  <2>3. /\ b \in Seq(S)
        /\ Len(b) = IF p + 1 <= Len(q) THEN Len(q) - (p + 1) + 1 ELSE 0
        /\ \A i \in 1..(Len(q) - (p + 1) + 1) : b[i] = q[p + 1 + i - 1]
    BY <2>1, <2>2, SubSeqProperties
  <2> QED BY <1>1, <2>3
<1>4. /\ r \in Seq(S)
      /\ Len(r) = Len(q) - 1
      /\ \A i \in 1..(Len(q) - 1) : r[i] = IF i <= p - 1 THEN q[i] ELSE q[i + 1]
  <2>1. /\ r \in Seq(S)
        /\ Len(r) = Len(a) + Len(b)
        /\ \A i \in 1..(Len(a) + Len(b)) :
             r[i] = IF i <= Len(a) THEN a[i] ELSE b[i - Len(a)]
    BY <1>2, <1>3, ConcatProperties
  <2> HIDE DEF a, b, r
  <2>2. Len(r) = Len(q) - 1
    BY <1>1, <1>2, <1>3, <2>1
  <2>3. ASSUME NEW i \in 1..(Len(q) - 1)
        PROVE  r[i] = IF i <= p - 1 THEN q[i] ELSE q[i + 1]
    <3>1. r[i] = IF i <= Len(a) THEN a[i] ELSE b[i - Len(a)]
      BY <1>1, <1>2, <1>3, <2>1
    <3>2. CASE i <= p - 1
      BY <1>1, <1>2, <3>1, <3>2
    <3>3. CASE i > p - 1
      <4>1. i - Len(a) \in 1..(Len(q) - p) /\ p + (i - Len(a)) = i + 1
        BY <1>1, <1>2, <3>3
      <4> QED BY <1>1, <1>2, <1>3, <3>1, <3>3, <4>1
    <3> QED BY <1>1, <3>2, <3>3
  <2> QED BY <2>1, <2>2, <2>3
<1>5. r = RemoveAt(q, p)
  BY DEF RemoveAt
<1> HIDE DEF a, b, r
<1>6. Distinct(r)
  BY <1>1, <1>4 DEF Distinct
<1>7. \A i \in 1..Len(r) : r[i] # q[p] /\ \E j \in 1..Len(q) : r[i] = q[j]
  BY <1>1, <1>4 DEF Distinct
<1>8. ASSUME NEW j \in 1..Len(q), j # p
      PROVE  \E i \in 1..Len(r) : r[i] = q[j]
  <2>1. CASE j < p
    BY <1>1, <1>4, <2>1
  <2>2. CASE j > p
    <3>1. j - 1 \in 1..Len(r) /\ r[j - 1] = q[j]
      BY <1>1, <1>4, <2>2
    <3> QED BY <3>1
  <2> QED BY <1>1, <1>8, <2>1, <2>2
<1>9. q # <<>>
  BY <1>1
<1> QED BY <1>4, <1>5, <1>6, <1>7, <1>8, <1>9
-----------------------------------------------------------------------------
(* The calls that point at one lock object can be counted.                  *)
LEMMA UsersFinite ==
  ASSUME NEW l
  PROVE  /\ IsFiniteSet(Users(l))
         /\ Cardinality(Users(l)) \in Nat
         /\ Cardinality(Users(l)) = 0 <=> Users(l) = {}
BY FS_Subset, FS_CardinalityType, FS_EmptySet, GateAssumption DEF Users

(* A new gate has no entry, no reference and nobody waiting.                *)
LEMMA InitIInv == Init => IInv
<1> SUFFICES ASSUME Init PROVE IInv
  OBVIOUS
<1>1. TypeOK
  BY EmptySeq DEF Init, TypeOK, Phases
<1>2. \A l \in Locks : Users(l) = {}
  BY GateAssumption DEF Init, Users
<1>3. RefsExact
  BY <1>2, FS_EmptySet DEF Init, RefsExact
<1>4. Owner
  BY DEF Init, Owner, Holds
<1>5. Queue
  <2>1. Len(<<>>) = 0
    OBVIOUS
  <2> QED BY <2>1 DEF Init, Queue, Distinct
<1>6. Pointers /\ MapExact /\ OneKeyPerLock
  BY GateAssumption DEF Init, Pointers, MapExact, OneKeyPerLock
<1> QED BY <1>1, <1>3, <1>4, <1>5, <1>6 DEF IInv

(* Counting a reference to the object that the map has for the key. *)
LEMMA LookupIInv ==
  ASSUME IInv, NEW c \in Callers, NEW k \in Keys, pc[c] = "idle", LookupLock(c, k)
  PROVE  IInv'
<1> DEFINE l == locks[k]
<1> USE DEF LookupLock, RefLock
<1>1. l \in Locks /\ obj[c] = NoLock /\ key[c] = NoKey
  BY DEF IInv, TypeOK, Pointers
<1>2. TypeOK'
  BY <1>1 DEF IInv, TypeOK, Phases
<1>3. Pointers'
  BY <1>1, GateAssumption DEF IInv, TypeOK, Pointers
<1>4. MapExact'
  BY <1>1, GateAssumption DEF IInv, TypeOK, MapExact
<1>5. OneKeyPerLock'
  BY DEF IInv, OneKeyPerLock
<1>6. RefsExact'
  <2>1. Users(l)' = Users(l) \cup {c} /\ c \notin Users(l)
    BY <1>1, GateAssumption DEF IInv, TypeOK, Users
  <2>2. \A m \in Locks : m # l => Users(m)' = Users(m)
    BY <1>1, GateAssumption DEF IInv, TypeOK, Users
  <2>3. Cardinality(Users(l)') = Cardinality(Users(l)) + 1
    BY <2>1, UsersFinite, FS_AddElement
  <2> QED BY <1>1, <2>2, <2>3 DEF IInv, TypeOK, RefsExact
<1>7. Owner'
  BY <1>1 DEF IInv, TypeOK, Owner, Holds
<1>8. Queue'
  BY <1>1 DEF IInv, TypeOK, Queue, Distinct
<1> QED BY <1>2, <1>3, <1>4, <1>5, <1>6, <1>7, <1>8 DEF IInv

(* Making a new lock object, one that nobody can reach. *)
LEMMA CreateIInv ==
  ASSUME IInv, NEW c \in Callers, NEW k \in Keys, pc[c] = "idle", CreateLock(c, k)
  PROVE  IInv'
<1> PICK l \in Locks : /\ Unreachable(l)
                       /\ locks' = [locks EXCEPT ![k] = l]
                       /\ RefLock(c, k, l)
  BY DEF CreateLock
<1> USE DEF RefLock
<1>1. locks[k] = NoLock /\ UNCHANGED <<sem, sendq>>
  BY DEF CreateLock
<1>2. obj[c] = NoLock /\ key[c] = NoKey /\ Users(l) = {} /\ \A j \in Keys : locks[j] # l
  BY DEF IInv, TypeOK, Pointers, Unreachable
<1>3. \A d \in Callers : key[d] # k
  BY <1>1 DEF IInv, MapExact
<1>4. TypeOK'
  BY <1>1 DEF IInv, TypeOK, Phases
<1>5. Pointers'
  BY <1>1, <1>2, <1>3, GateAssumption DEF IInv, TypeOK, Pointers
<1>6. MapExact'
  BY <1>1, <1>2, GateAssumption DEF IInv, TypeOK, MapExact
<1>7. OneKeyPerLock'
  BY <1>2, GateAssumption DEF IInv, TypeOK, OneKeyPerLock
<1>8. RefsExact'
  <2>1. Users(l)' = Users(l) \cup {c} /\ c \notin Users(l)
    BY <1>2, GateAssumption DEF IInv, TypeOK, Users
  <2>2. \A m \in Locks : m # l => Users(m)' = Users(m)
    BY <1>2, GateAssumption DEF IInv, TypeOK, Users
  <2>3. Cardinality(Users(l)') = Cardinality(Users(l)) + 1
    BY <2>1, UsersFinite, FS_AddElement
  <2> QED BY <1>2, <2>2, <2>3 DEF IInv, TypeOK, RefsExact
<1>9. Owner'
  BY <1>1, <1>2 DEF IInv, TypeOK, Owner, Holds
<1>10. Queue'
  BY <1>1, <1>2 DEF IInv, TypeOK, Queue, Distinct
<1> QED BY <1>4, <1>5, <1>6, <1>7, <1>8, <1>9, <1>10 DEF IInv

(* A step on the channel alone leaves the bookkeeping under g.mu alone. *)
LEMMA ChannelStep ==
  ASSUME IInv, UNCHANGED <<locks, refs, key, obj>>, pc' \in [Callers -> Phases],
         \A c \in Callers : pc[c] = "idle" <=> pc'[c] = "idle"
  PROVE  Pointers' /\ MapExact' /\ OneKeyPerLock' /\ RefsExact'
<1>1. \A l \in Locks : Users(l)' = Users(l)
  BY DEF Users
<1>2. RefsExact'
  BY <1>1 DEF IInv, RefsExact
<1>3. Pointers' /\ MapExact' /\ OneKeyPerLock'
  BY DEF IInv, Pointers, MapExact, OneKeyPerLock
<1> QED BY <1>2, <1>3

(* A send that finds room: the caller becomes the one holder of its lock.   *)
LEMMA SendIInv ==
  ASSUME IInv, NEW c \in Callers, pc[c] \in {"referenced", "queued"}, Send(c),
         UNCHANGED <<locks, refs, key, obj, done>>
  PROVE  IInv'
<1> USE DEF Send
<1>1. obj[c] \in Locks /\ sem[obj[c]] = 0
  BY DEF IInv, TypeOK, Pointers, Room
<1>2. TypeOK'
  BY <1>1 DEF IInv, TypeOK, Phases
<1>3. Pointers' /\ MapExact' /\ OneKeyPerLock' /\ RefsExact'
  BY <1>2, ChannelStep DEF TypeOK, IInv
<1>4. Owner'
  BY <1>1 DEF IInv, TypeOK, Owner, Holds
<1>5. Queue'
  BY <1>1 DEF IInv, TypeOK, Queue, Distinct
<1> QED BY <1>2, <1>3, <1>4, <1>5 DEF IInv

(* The ctx.Done() case of a select touches nothing but the phase.           *)
LEMMA SeeDoneIInv ==
  ASSUME IInv, NEW c \in Callers, pc[c] \in {"referenced", "queued"}, SeeDone(c),
         UNCHANGED <<locks, refs, key, obj, done>>
  PROVE  IInv'
<1> USE DEF SeeDone
<1>1. TypeOK'
  BY DEF IInv, TypeOK, Phases
<1>2. Pointers' /\ MapExact' /\ OneKeyPerLock' /\ RefsExact'
  BY <1>1, ChannelStep DEF TypeOK, IInv
<1>3. Owner'
  BY DEF IInv, TypeOK, Owner, Holds
<1>4. Queue'
  BY DEF IInv, TypeOK, Queue, Distinct
<1> QED BY <1>1, <1>2, <1>3, <1>4 DEF IInv

(* The first select, in its three cases.                                    *)
LEMMA TryAcquireIInv ==
  ASSUME IInv, NEW c \in Callers, TryAcquire(c)
  PROVE  IInv'
<1> USE DEF TryAcquire
<1>1. CASE Send(c)
  BY <1>1, SendIInv
<1>2. CASE SeeDone(c)
  BY <1>2, SeeDoneIInv
<1>3. CASE pc' = [pc EXCEPT ![c] = "queued"] /\ UNCHANGED <<sem, sendq>>
  <2>1. TypeOK'
    BY <1>3 DEF IInv, TypeOK, Phases
  <2>2. Pointers' /\ MapExact' /\ OneKeyPerLock' /\ RefsExact'
    BY <1>3, <2>1, ChannelStep DEF TypeOK, IInv
  <2>3. Owner'
    BY <1>3 DEF IInv, TypeOK, Owner, Holds
  <2>4. Queue'
    BY <1>3 DEF IInv, TypeOK, Queue, Distinct
  <2> QED BY <2>1, <2>2, <2>3, <2>4 DEF IInv
<1> QED BY <1>1, <1>2, <1>3

(* Parking: the caller joins the end of the queue of a lock that is held. *)
LEMMA ParkIInv ==
  ASSUME IInv, NEW c \in Callers, pc[c] = "queued", ~Room(obj[c]), Park(c),
         UNCHANGED <<locks, refs, key, obj, done>>
  PROVE  IInv'
<1> DEFINE l == obj[c]
           q == sendq[l]
<1> USE DEF Park
<1>1. l \in Locks /\ sem[l] = 1 /\ q \in Seq(Callers)
  BY DEF IInv, TypeOK, Pointers, Room
<1>2. /\ Append(q, c) \in Seq(Callers)
      /\ Len(Append(q, c)) = Len(q) + 1
      /\ \A i \in 1..Len(q) : Append(q, c)[i] = q[i]
      /\ Append(q, c)[Len(q) + 1] = c
      /\ Len(q) \in Nat
  BY <1>1, AppendProperties, LenProperties
<1>3. TypeOK'
  BY <1>1, <1>2 DEF IInv, TypeOK, Phases
<1>4. Pointers' /\ MapExact' /\ OneKeyPerLock' /\ RefsExact'
  BY <1>3, ChannelStep DEF TypeOK, IInv
<1>5. Owner'
  BY DEF IInv, TypeOK, Owner, Holds
<1>6. sendq' = [sendq EXCEPT ![l] = Append(q, c)]
  OBVIOUS
<1>7. Queue'
  <2> SUFFICES ASSUME NEW m \in Locks
               PROVE  /\ Distinct(sendq'[m])
                      /\ \A i \in 1..Len(sendq'[m]) : /\ pc'[sendq'[m][i]] = "parked"
                                                      /\ obj'[sendq'[m][i]] = m
                      /\ \A d \in Callers : pc'[d] = "parked" /\ obj'[d] = m =>
                           \E i \in 1..Len(sendq'[m]) : sendq'[m][i] = d
                      /\ sendq'[m] # <<>> => sem'[m] = 1
    BY DEF Queue, Distinct
  <2>1. CASE m # l
    <3>1. sendq'[m] = sendq[m] /\ sem'[m] = sem[m]
      BY <1>6, <2>1 DEF IInv, TypeOK
    <3> QED BY <2>1, <3>1 DEF IInv, TypeOK, Queue
  <2>2. CASE m = l
    <3>1. sendq'[m] = Append(q, c)
      BY <1>1, <1>6, <2>2 DEF IInv, TypeOK
    <3>2. \A i \in 1..Len(q) : q[i] # c
      BY <1>1 DEF IInv, Queue
    <3>3. Distinct(q)
      BY <1>1 DEF IInv, Queue
    <3>4. Distinct(Append(q, c))
      BY <1>2, <3>2, <3>3 DEF Distinct
    <3>5. \A i \in 1..Len(q) : q[i] \in Callers /\ pc[q[i]] = "parked" /\ obj[q[i]] = l
      BY <1>1 DEF IInv, Queue
    <3>6. \A i \in 1..Len(q) + 1 : /\ pc'[Append(q, c)[i]] = "parked"
                                  /\ obj'[Append(q, c)[i]] = l
      BY <1>2, <3>5 DEF IInv, TypeOK
    <3>7. ASSUME NEW d \in Callers, pc'[d] = "parked", obj'[d] = l
          PROVE  \E i \in 1..Len(q) + 1 : Append(q, c)[i] = d
      <4>1. CASE d = c
        <5>1. Len(q) + 1 \in 1..Len(q) + 1
          BY <1>2
        <5> QED BY <1>2, <4>1, <5>1
      <4>2. CASE d # c
        <5>1. PICK i \in 1..Len(q) : q[i] = d
          BY <1>1, <3>7, <4>2 DEF IInv, TypeOK, Queue
        <5> QED BY <1>2, <5>1
      <4> QED BY <4>1, <4>2
    <3> QED BY <1>1, <1>2, <2>2, <3>1, <3>4, <3>6, <3>7
  <2> QED BY <2>1, <2>2
<1> QED BY <1>3, <1>4, <1>5, <1>7 DEF IInv

(* The second select: send, give up, or park.                               *)
LEMMA AwaitTurnIInv ==
  ASSUME IInv, NEW c \in Callers, AwaitTurn(c)
  PROVE  IInv'
BY SendIInv, SeeDoneIInv, ParkIInv DEF AwaitTurn

(* Cancelling a parked caller takes it, and no one else, off the queue. *)
LEMMA CancelIInv ==
  ASSUME IInv, NEW c \in Callers, Cancel(c)
  PROVE  IInv'
<1> DEFINE l == obj[c]
           q == sendq[l]
<1>1. CASE pc[c] # "parked"
  <2>1. /\ UNCHANGED <<locks, refs, sem, sendq, pc, key, obj>>
        /\ done' = [done EXCEPT ![c] = TRUE]
    BY <1>1 DEF Cancel
  <2>2. TypeOK'
    BY <2>1 DEF IInv, TypeOK
  <2>3. Pointers' /\ MapExact' /\ OneKeyPerLock' /\ RefsExact'
    BY <2>1, <2>2, ChannelStep DEF TypeOK, IInv
  <2>4. Owner' /\ Queue'
    BY <2>1 DEF IInv, Owner, Queue, Holds, Distinct
  <2> QED BY <2>2, <2>3, <2>4 DEF IInv
<1>2. CASE pc[c] = "parked"
  <2>1. l \in Locks /\ q \in Seq(Callers) /\ Len(q) \in Nat
    BY <1>2, LenProperties DEF IInv, TypeOK, Pointers
  <2>2. PICK p \in 1..Len(q) : /\ q[p] = c
                               /\ sendq' = [sendq EXCEPT ![l] = RemoveAt(q, p)]
    BY <1>2, <2>1, LenProperties DEF Cancel
  <2>3. /\ UNCHANGED <<locks, refs, sem, key, obj>>
        /\ done' = [done EXCEPT ![c] = TRUE]
        /\ pc' = [pc EXCEPT ![c] = "cancelled"]
    BY <1>2 DEF Cancel
  <2>4. Distinct(q)
    BY <2>1 DEF IInv, Queue
  <2> DEFINE r == RemoveAt(q, p)
  <2>5. /\ r \in Seq(Callers)
        /\ Distinct(r)
        /\ \A i \in 1..Len(r) : r[i] # q[p] /\ \E j \in 1..Len(q) : r[i] = q[j]
        /\ \A j \in 1..Len(q) : j # p => \E i \in 1..Len(r) : r[i] = q[j]
        /\ r # <<>> => q # <<>>
    <3> HIDE DEF l, q
    <3> QED BY ONLY <2>1, <2>2, <2>4, RemoveAtQueue, ZenonT(60)
  <2> HIDE DEF r
  <2>6. sendq' = [sendq EXCEPT ![l] = r]
    BY <2>2 DEF r
  <2>7. TypeOK'
    BY <2>1, <2>3, <2>5, <2>6 DEF IInv, TypeOK, Phases
  <2>8. Pointers' /\ MapExact' /\ OneKeyPerLock' /\ RefsExact'
    BY <1>2, <2>3, <2>7, ChannelStep DEF TypeOK, IInv
  <2>9. Owner'
    BY <1>2, <2>3 DEF IInv, TypeOK, Owner, Holds
  <2>10. Queue'
    <3> SUFFICES ASSUME NEW m \in Locks
                 PROVE  /\ Distinct(sendq'[m])
                        /\ \A i \in 1..Len(sendq'[m]) : /\ pc'[sendq'[m][i]] = "parked"
                                                        /\ obj'[sendq'[m][i]] = m
                        /\ \A d \in Callers : pc'[d] = "parked" /\ obj'[d] = m =>
                             \E i \in 1..Len(sendq'[m]) : sendq'[m][i] = d
                        /\ sendq'[m] # <<>> => sem'[m] = 1
      BY DEF Queue, Distinct
    <3>1. CASE m # l
      <4>1. sendq'[m] = sendq[m] /\ sem'[m] = sem[m]
        BY <2>3, <2>6, <3>1 DEF IInv, TypeOK
      <4> QED BY <1>2, <2>3, <3>1, <4>1 DEF IInv, TypeOK, Queue
    <3>2. CASE m = l
      <4>1. sendq'[m] = r
        BY <2>1, <2>6, <3>2 DEF IInv, TypeOK
      <4>2. \A j \in 1..Len(q) : q[j] \in Callers /\ pc[q[j]] = "parked" /\ obj[q[j]] = l
        BY <2>1 DEF IInv, Queue
      <4>3. \A i \in 1..Len(r) : r[i] \in Callers /\ pc'[r[i]] = "parked" /\ obj'[r[i]] = l
        <5> TAKE i \in 1..Len(r)
        <5>1. PICK j \in 1..Len(q) : r[i] = q[j]
          BY <2>5
        <5>2. r[i] # c
          BY <2>2, <2>5
        <5> QED BY <2>3, <4>2, <5>1, <5>2 DEF IInv, TypeOK
      <4>4. ASSUME NEW d \in Callers, pc'[d] = "parked", obj'[d] = l
            PROVE  \E i \in 1..Len(r) : r[i] = d
        <5>1. d # c /\ pc[d] = "parked" /\ obj[d] = l
          BY <2>3, <4>4 DEF IInv, TypeOK
        <5>2. PICK j \in 1..Len(q) : q[j] = d
          BY <2>1, <5>1 DEF IInv, Queue
        <5> QED BY <2>2, <2>5, <5>1, <5>2
      <4>5. r # <<>> => sem'[m] = 1
        BY <2>1, <2>3, <2>5, <3>2 DEF IInv, Queue
      <4> QED BY <2>5, <3>2, <4>1, <4>3, <4>4, <4>5
    <3> QED BY <3>1, <3>2
  <2> QED BY <2>7, <2>8, <2>9, <2>10 DEF IInv
<1> QED BY <1>1, <1>2

(* The release of the token: to the caller that parked first, if there is one. *)
LEMMA FreeTokenIInv ==
  ASSUME IInv, NEW c \in Callers, FreeToken(c)
  PROVE  IInv'
<1> DEFINE l == obj[c]
           q == sendq[l]
<1>1. /\ l \in Locks /\ q \in Seq(Callers) /\ Len(q) \in Nat
      /\ pc[c] = "holding" /\ sem[l] = 1
  BY LenProperties DEF IInv, TypeOK, Pointers, Owner, Holds, FreeToken
<1>2. UNCHANGED <<locks, refs, key, obj, done>>
  BY DEF FreeToken
<1>3. CASE q = <<>>
  <2>1. /\ sem' = [sem EXCEPT ![l] = @ - 1]
        /\ pc' = [pc EXCEPT ![c] = "released"]
        /\ UNCHANGED sendq
    BY <1>3 DEF FreeToken
  <2>2. TypeOK'
    BY <1>1, <1>2, <2>1 DEF IInv, TypeOK, Phases
  <2>3. Pointers' /\ MapExact' /\ OneKeyPerLock' /\ RefsExact'
    BY <1>1, <1>2, <2>1, <2>2, ChannelStep DEF TypeOK, IInv
  <2>4. Owner'
    <3>1. \A d \in Callers : Holds(d)' <=> Holds(d) /\ d # c
      BY <2>1 DEF IInv, TypeOK, Holds
    <3>2. \A d \in Callers : Holds(d) /\ obj[d] = l => d = c
      BY <1>1 DEF IInv, Owner, Holds
    <3>3. \A m \in Locks : sem'[m] = IF m = l THEN 0 ELSE sem[m]
      BY <1>1, <2>1 DEF IInv, TypeOK
    <3> QED BY <1>1, <1>2, <3>1, <3>2, <3>3 DEF IInv, Owner
  <2>5. Queue'
    <3>1. \A d \in Callers : pc'[d] = "parked" <=> pc[d] = "parked"
      BY <1>1, <2>1 DEF IInv, TypeOK
    <3>2. \A m \in Locks : sendq[m] # <<>> => sem'[m] = sem[m]
      BY <1>1, <1>3, <2>1 DEF IInv, TypeOK
    <3>3. \A m \in Locks : \A i \in 1..Len(sendq[m]) : sendq[m][i] \in Callers
      BY ElementOfSeq DEF IInv, TypeOK
    <3> QED BY <1>2, <2>1, <3>1, <3>2, <3>3 DEF IInv, Queue, Distinct
  <2> QED BY <2>2, <2>3, <2>4, <2>5 DEF IInv
<1>4. CASE q # <<>>
  <2> DEFINE h == Head(q)
             t == Tail(q)
  <2>1. /\ sendq' = [sendq EXCEPT ![l] = t]
        /\ pc' = [pc EXCEPT ![c] = "released", ![h] = "holding"]
        /\ UNCHANGED sem
    BY <1>4 DEF FreeToken
  <2>2. /\ h \in Callers /\ t \in Seq(Callers)
        /\ Len(t) = Len(q) - 1 /\ Len(q) > 0
        /\ \A i \in 1..Len(t) : t[i] = q[i + 1]
        /\ h = q[1]
    BY <1>1, <1>4, HeadTailProperties, EmptySeq
  <2> HIDE DEF h, t
  <2>3. Distinct(q) /\ \A i \in 1..Len(q) : pc[q[i]] = "parked" /\ obj[q[i]] = l
    BY <1>1 DEF IInv, Queue
  <2>4. h # c /\ pc[h] = "parked" /\ obj[h] = l
    BY <1>1, <2>2, <2>3
  <2>5. TypeOK'
    BY <1>1, <1>2, <2>1, <2>2 DEF IInv, TypeOK, Phases
  <2>6. Pointers' /\ MapExact' /\ OneKeyPerLock' /\ RefsExact'
    BY <1>1, <1>2, <2>1, <2>2, <2>4, <2>5, ChannelStep DEF TypeOK, IInv
  <2>7. Owner'
    <3>1. \A d \in Callers : pc'[d] = IF d = c THEN "released"
                                      ELSE IF d = h THEN "holding" ELSE pc[d]
      BY <2>1, <2>2, <2>4 DEF IInv, TypeOK
    <3>2. \A d \in Callers : Holds(d) /\ obj[d] = l => d = c
      BY <1>1 DEF IInv, Owner, Holds
    <3>3. \A d \in Callers : Holds(d)' <=> d = h \/ (Holds(d) /\ d # c)
      BY <2>4, <3>1 DEF Holds
    <3>4. \A m \in Locks : sem'[m] = 1 <=> \E d \in Callers : Holds(d)' /\ obj'[d] = m
      <4> TAKE m \in Locks
      <4>1. CASE m = l
        BY <1>1, <1>2, <2>1, <2>2, <2>4, <3>3, <4>1
      <4>2. CASE m # l
        BY <1>2, <2>1, <2>4, <3>3, <4>2 DEF IInv, Owner
      <4> QED BY <4>1, <4>2
    <3>5. \A d, e \in Callers : Holds(d)' /\ Holds(e)' /\ obj'[d] = obj'[e] => d = e
      BY <1>2, <2>4, <3>2, <3>3 DEF IInv, Owner
    <3> QED BY <3>4, <3>5 DEF Owner
  <2>8. Queue'
    <3>1. \A d \in Callers : pc'[d] = IF d = c THEN "released"
                                      ELSE IF d = h THEN "holding" ELSE pc[d]
      BY <2>1, <2>2, <2>4 DEF IInv, TypeOK
    <3>2. \A d \in Callers : pc'[d] = "parked" <=> pc[d] = "parked" /\ d # h
      BY <1>1, <2>2, <2>4, <3>1
    <3> SUFFICES ASSUME NEW m \in Locks
                 PROVE  /\ Distinct(sendq'[m])
                        /\ \A i \in 1..Len(sendq'[m]) : /\ pc'[sendq'[m][i]] = "parked"
                                                        /\ obj'[sendq'[m][i]] = m
                        /\ \A d \in Callers : pc'[d] = "parked" /\ obj'[d] = m =>
                             \E i \in 1..Len(sendq'[m]) : sendq'[m][i] = d
                        /\ sendq'[m] # <<>> => sem'[m] = 1
      BY DEF Queue, Distinct
    <3>3. CASE m # l
      <4>1. sendq'[m] = sendq[m] /\ sem'[m] = sem[m]
        BY <2>1, <3>3 DEF IInv, TypeOK
      <4>2. \A i \in 1..Len(sendq[m]) : /\ sendq[m][i] \in Callers
                                        /\ pc[sendq[m][i]] = "parked"
                                        /\ obj[sendq[m][i]] = m
        BY ElementOfSeq DEF IInv, TypeOK, Queue
      <4> QED BY <1>2, <2>4, <3>2, <3>3, <4>1, <4>2 DEF IInv, Queue
    <3>4. CASE m = l
      <4>1. sendq'[m] = t /\ sem'[m] = 1
        BY <1>1, <2>1, <3>4 DEF IInv, TypeOK
      <4>2. Distinct(t)
        BY <1>1, <2>2, <2>3 DEF Distinct
      <4>3. ASSUME NEW i \in 1..Len(t)
            PROVE  pc'[t[i]] = "parked" /\ obj'[t[i]] = l
        <5>1. i + 1 \in 1..Len(q) /\ t[i] = q[i + 1] /\ i + 1 # 1 /\ 1 \in 1..Len(q)
          BY <1>1, <2>2
        <5>2. q[i + 1] # h /\ q[i + 1] \in Callers
          BY <1>1, <2>2, <2>3, <5>1, ElementOfSeq DEF Distinct
        <5> QED BY <1>2, <2>3, <3>2, <5>1, <5>2
      <4>4. ASSUME NEW d \in Callers, pc'[d] = "parked", obj'[d] = l
            PROVE  \E i \in 1..Len(t) : t[i] = d
        <5>1. pc[d] = "parked" /\ d # h /\ obj[d] = l
          BY <1>2, <3>2, <4>4
        <5>2. PICK j \in 1..Len(q) : q[j] = d
          BY <1>1, <5>1 DEF IInv, Queue
        <5>3. j - 1 \in 1..Len(t) /\ t[j - 1] = d
          BY <1>1, <2>2, <5>1, <5>2
        <5> QED BY <5>3
      <4> QED BY <3>4, <4>1, <4>2, <4>3, <4>4
    <3> QED BY <3>3, <3>4
  <2> QED BY <2>5, <2>6, <2>7, <2>8 DEF IInv
<1> QED BY <1>3, <1>4

(* Uncounting a reference.  The entry goes with the last user and not before: *)
(* another user of the key would be another user of the lock object.         *)
LEMMA ReleaseRefIInv ==
  ASSUME IInv, NEW c \in Callers, releaseRef(c)
  PROVE  IInv'
<1>1. /\ obj[c] \in Locks /\ key[c] \in Keys /\ locks[key[c]] = obj[c]
      /\ pc[c] \in {"cancelled", "released"}
  BY DEF IInv, TypeOK, Pointers, releaseRef
<1> PICK l \in Locks, k \in Keys : l = obj[c] /\ k = key[c]
  BY <1>1
<1>2. /\ l = obj[c] /\ k = key[c] /\ locks[k] = l
      /\ pc[c] \in {"cancelled", "released"}
  BY <1>1
<1>3. /\ refs' = [refs EXCEPT ![l] = @ - 1]
      /\ locks' = IF DropsEntry(k, l) THEN [locks EXCEPT ![k] = NoLock] ELSE locks
      /\ pc' = [pc EXCEPT ![c] = "idle"]
      /\ key' = [key EXCEPT ![c] = NoKey]
      /\ obj' = [obj EXCEPT ![c] = NoLock]
      /\ UNCHANGED <<sem, sendq, done>>
  BY <1>2 DEF releaseRef
<1>4. TypeOK'
  BY <1>2, <1>3 DEF IInv, TypeOK, Phases
<1>5. /\ c \in Users(l)
      /\ Users(l)' = Users(l) \ {c}
      /\ \A m \in Locks : m # l => Users(m)' = Users(m)
  BY <1>2, <1>3, GateAssumption DEF IInv, TypeOK, Users
<1>6. Cardinality(Users(l) \ {c}) = Cardinality(Users(l)) - 1
  BY <1>5, UsersFinite, FS_RemoveElement
<1>7. RefsExact'
  BY <1>2, <1>3, <1>5, <1>6 DEF IInv, TypeOK, RefsExact
<1>8. refs[l] = 1 <=> Users(l) = {c}
  <2>1. IsFiniteSet(Users(l) \ {c})
    BY <1>5, UsersFinite, FS_RemoveElement
  <2>2. Cardinality(Users(l) \ {c}) = 0 <=> Users(l) \ {c} = {}
    BY <2>1, FS_EmptySet
  <2> QED BY <1>2, <1>5, <1>6, <2>2, UsersFinite DEF IInv, RefsExact
<1>9. DropsEntry(k, l) <=> \A d \in Callers : d # c => key[d] # k
  <2>1. Users(l) = {c} => sem[l] = 0
    BY <1>2 DEF IInv, TypeOK, Owner, Holds, Users
  <2>2. \A d \in Callers : obj[d] = l <=> key[d] = k
    BY <1>2, GateAssumption DEF IInv, TypeOK, Pointers, OneKeyPerLock
  <2> QED BY <1>2, <1>8, <2>1, <2>2 DEF DropsEntry, Users
<1>10. MapExact'
  BY <1>2, <1>3, <1>9, GateAssumption DEF IInv, TypeOK, MapExact
<1>11. Pointers'
  BY <1>2, <1>3, <1>9, GateAssumption DEF IInv, TypeOK, Pointers
<1>12. OneKeyPerLock'
  BY <1>2, <1>3 DEF IInv, TypeOK, OneKeyPerLock
<1>13. Owner'
  <2>1. \A d \in Callers : Holds(d)' <=> Holds(d)
    BY <1>2, <1>3 DEF IInv, TypeOK, Holds
  <2>2. \A d \in Callers : Holds(d) => d # c /\ obj'[d] = obj[d]
    BY <1>2, <1>3 DEF IInv, TypeOK, Holds
  <2> QED BY <1>3, <2>1, <2>2 DEF IInv, Owner
<1>14. Queue'
  <2>1. \A d \in Callers : pc'[d] = "parked" <=> pc[d] = "parked"
    BY <1>2, <1>3 DEF IInv, TypeOK
  <2>2. \A d \in Callers : pc[d] = "parked" => obj'[d] = obj[d]
    BY <1>2, <1>3 DEF IInv, TypeOK
  <2>3. \A m \in Locks : \A i \in 1..Len(sendq[m]) : sendq[m][i] \in Callers
    BY ElementOfSeq DEF IInv, TypeOK
  <2> QED BY <1>3, <2>1, <2>2, <2>3 DEF IInv, Queue, Distinct
<1> QED BY <1>4, <1>7, <1>10, <1>11, <1>12, <1>13, <1>14 DEF IInv

(* No step of the gate breaks IInv.                                         *)
LEMMA NextIInv == IInv /\ [Next]_vars => IInv'
<1> SUFFICES ASSUME IInv, [Next]_vars PROVE IInv'
  OBVIOUS
<1>1. ASSUME NEW c \in Callers, NEW r \in Roots, Acquire(c, r)
      PROVE  IInv'
  <2>1. workspaceGateKey(r) \in Keys
    BY GateAssumption DEF workspaceGateKey
  <2> QED BY <1>1, <2>1, LookupIInv, CreateIInv DEF Acquire
<1>2. ASSUME UNCHANGED vars PROVE IInv'
  <2>1. \A l : Users(l)' = Users(l)
    BY <1>2 DEF vars, Users
  <2>2. RefsExact'
    BY <1>2, <2>1 DEF IInv, vars, RefsExact
  <2>3. TypeOK' /\ Pointers' /\ MapExact' /\ OneKeyPerLock' /\ Owner' /\ Queue'
    BY <1>2 DEF IInv, vars, TypeOK, Pointers, MapExact, OneKeyPerLock, Owner, Holds,
                Queue, Distinct
  <2> QED BY <2>2, <2>3 DEF IInv
<1> QED BY <1>1, <1>2, TryAcquireIInv, AwaitTurnIInv, CancelIInv, FreeTokenIInv,
           ReleaseRefIInv DEF Next

(* The strengthened invariant holds in every state of every behaviour.       *)
THEOREM Invariance == Spec => []IInv
<1> QED BY InitIInv, NextIInv, PTL DEF Spec
-----------------------------------------------------------------------------
(* The variables keep their types; in particular lock.sem never holds more    *)
(* than one token.                                                          *)
THEOREM TypeCorrect == Spec => []TypeOK
<1>1. IInv => TypeOK
  BY DEF IInv
<1> QED BY <1>1, Invariance, PTL

(* At most one QA request at a time owns a workspace, whatever the number of  *)
(* requests, workspaces and spellings (workspace_gate.go:9).                *)
THEOREM GateMutualExclusion == Spec => []MutualExclusion
<1>1. IInv => MutualExclusion
  <2> SUFFICES ASSUME IInv, NEW c \in Callers, NEW d \in Callers,
                      Holds(c), Holds(d), key[c] = key[d]
               PROVE  c = d
    BY DEF MutualExclusion
  <2>1. key[c] # NoKey /\ key[d] # NoKey
    BY DEF IInv, Pointers, Holds
  <2>2. obj[c] = obj[d]
    BY <2>1 DEF IInv, Pointers
  <2> QED BY <2>2 DEF IInv, Owner
<1> QED BY <1>1, Invariance, PTL

(* The map has an entry for exactly the keys of the calls under way, and the  *)
(* count is exact: no leak, and no lock object dropped while in use.        *)
THEOREM GateMapExact == Spec => [](MapExact /\ RefsExact)
<1>1. IInv => MapExact /\ RefsExact
  BY DEF IInv
<1> QED BY <1>1, Invariance, PTL

(* refs counts exactly the calls that still hold a pointer to the lock.     *)
COROLLARY GateRefsExact == Spec => []RefsExact
  BY GateMapExact, PTL

(* A parked caller waits for an owner that exists, and is queued once.       *)
THEOREM GateNoLostWakeup == Spec => []NoLostWakeup
<1>1. IInv => NoLostWakeup
  <2> SUFFICES ASSUME IInv, NEW c \in Callers, pc[c] = "parked"
               PROVE  /\ \E d \in Callers : Holds(d) /\ obj[d] = obj[c]
                      /\ Cardinality({i \in DOMAIN sendq[obj[c]] :
                                        sendq[obj[c]][i] = c}) = 1
    BY DEF NoLostWakeup
  <2> DEFINE q == sendq[obj[c]]
  <2>1. obj[c] \in Locks /\ q \in Seq(Callers) /\ DOMAIN q = 1..Len(q)
    BY LenProperties DEF IInv, TypeOK, Pointers
  <2>2. PICK p \in 1..Len(q) : q[p] = c
    BY <2>1 DEF IInv, Queue
  <2>3. sem[obj[c]] = 1
    BY <2>1, <2>2, EmptySeq DEF IInv, Queue
  <2>4. {i \in DOMAIN q : q[i] = c} = {p}
    BY <2>1, <2>2 DEF IInv, Queue, Distinct
  <2>5. Cardinality({p}) = 1
    BY FS_Singleton
  <2> QED BY <2>1, <2>3, <2>4, <2>5 DEF IInv, Owner
<1> QED BY <1>1, Invariance, PTL

(* A newcomer never overtakes a parked caller.                              *)
THEOREM GateNoBarging == Spec => NoBarging
<1>1. ASSUME IInv, [Next]_vars, NEW c \in Callers,
             Holds(c)', ~Holds(c), sendq[obj[c]] # <<>>
      PROVE  c = Head(sendq[obj[c]])
  <2>1. ASSUME NEW d \in Callers, NEW r \in Roots, Acquire(d, r)
        PROVE  FALSE
    BY <1>1, <2>1 DEF IInv, TypeOK, Acquire, LookupLock, CreateLock, RefLock, Holds
  <2>2. ASSUME NEW d \in Callers, TryAcquire(d) \/ AwaitTurn(d)
        PROVE  FALSE
    <3>1. d = c /\ Room(obj[c]) /\ pc[c] \in {"referenced", "queued"}
      BY <1>1, <2>2 DEF IInv, TypeOK, TryAcquire, AwaitTurn, Send, SeeDone, Park, Holds
    <3> QED BY <1>1, <3>1 DEF IInv, TypeOK, Pointers, Queue, Room
  <2>3. ASSUME NEW d \in Callers, Cancel(d) \/ releaseRef(d)
        PROVE  FALSE
    BY <1>1, <2>3 DEF IInv, TypeOK, Cancel, releaseRef, Holds
  <2>4. ASSUME NEW d \in Callers, FreeToken(d)
        PROVE  c = Head(sendq[obj[c]])
    <3>1. d # c
      BY <1>1, <2>4 DEF FreeToken, Holds
    <3>2. sendq[obj[d]] # <<>> /\ c = Head(sendq[obj[d]])
      BY <1>1, <2>4, <3>1 DEF IInv, TypeOK, FreeToken, Holds
    <3>3. obj[d] \in Locks /\ obj[c] = obj[d]
      <4>1. obj[d] \in Locks
        BY <1>1, <2>4 DEF IInv, TypeOK, Pointers, FreeToken
      <4>2. Len(sendq[obj[d]]) \in Nat \ {0} /\ Head(sendq[obj[d]]) = sendq[obj[d]][1]
        BY <1>1, <3>2, <4>1, EmptySeq DEF IInv, TypeOK
      <4> QED BY <1>1, <3>2, <4>1, <4>2 DEF IInv, Queue
    <3> QED BY <3>2, <3>3
  <2>5. CASE UNCHANGED vars
    BY <1>1, <2>5 DEF vars, Holds
  <2> QED BY <1>1, <2>1, <2>2, <2>3, <2>4, <2>5 DEF Next
<1>2. IInv /\ [Next]_vars =>
        [\A c \in Callers :
           Holds(c)' /\ ~Holds(c) /\ sendq[obj[c]] # <<>> => c = Head(sendq[obj[c]])]_vars
  BY <1>1
<1> QED BY <1>2, Invariance, PTL DEF Spec, NoBarging
-----------------------------------------------------------------------------
(* Counting a reference is the abstract Request.                            *)
LEMMA AcquireRefines ==
  ASSUME IInv, NEW c \in Callers, NEW r \in Roots, Acquire(c, r)
  PROVE  \E k \in Keys : Mutex!Request(c, k)
<1> DEFINE k == workspaceGateKey(r)
<1>1. k \in Keys
  BY GateAssumption DEF workspaceGateKey
<1>2. PICK l \in Locks : RefLock(c, k, l)
  <2>1. locks[k] # NoLock => locks[k] \in Locks
    BY <1>1 DEF IInv, TypeOK
  <2> QED BY <2>1 DEF Acquire, LookupLock, CreateLock
<1>3. pc[c] = "idle"
  BY DEF Acquire
<1> HIDE DEF k
<1>4. /\ \A d \in Callers : pc'[d] = IF d = c THEN "referenced" ELSE pc[d]
      /\ \A d \in Callers : key'[d] = IF d = c THEN k ELSE key[d]
  BY <1>2 DEF IInv, TypeOK, RefLock
<1>5. Want[c] = NoKey /\ Want' = [Want EXCEPT ![c] = k]
  BY <1>3, <1>4 DEF Want, Waiting, Holds
<1>6. UNCHANGED Inside
  BY <1>3, <1>4 DEF Inside, Holds
<1>7. Mutex!Request(c, k)
  BY <1>5, <1>6 DEF Mutex!Request, Want, Inside
<1> QED BY <1>1, <1>7

(* A send that succeeds enters: the key is free because the token is. *)
LEMMA SendRefines ==
  ASSUME IInv, NEW c \in Callers, Waiting(c), Send(c), UNCHANGED <<locks, key, obj>>
  PROVE  Mutex!Enter(c)
<1>1. \A d \in Callers : pc'[d] = IF d = c THEN "holding" ELSE pc[d]
  BY DEF IInv, TypeOK, Send
<1>2. obj[c] \in Locks /\ key[c] \in Keys /\ key[c] # NoKey /\ sem[obj[c]] = 0
  BY GateAssumption DEF IInv, TypeOK, Pointers, Send, Room, Waiting
<1>3. \A d \in Callers : Holds(d) => key[d] # key[c] /\ d # c
  BY <1>2 DEF IInv, TypeOK, Pointers, Owner, Holds, Waiting
<1>4. Want' = Want /\ Want[c] = key[c]
  BY <1>1 DEF Want, Waiting, Holds
<1>5. Inside' = Inside \cup {c} /\ c \notin Inside
  BY <1>1, <1>3 DEF Inside, Holds
<1>6. \A d \in Inside : Want[d] # Want[c]
  BY <1>3, <1>4 DEF Want, Inside, Holds
<1> QED BY <1>2, <1>4, <1>5, <1>6 DEF Mutex!Enter, Mutex!Waits, Mutex!Free, Want, Inside

(* A call that sees its context cancelled gives up. *)
LEMMA GiveUpRefines ==
  ASSUME IInv, NEW c \in Callers, Waiting(c), pc' = [pc EXCEPT ![c] = "cancelled"],
         key' = key
  PROVE  Mutex!GiveUp(c)
<1>1. \A d \in Callers : pc'[d] = IF d = c THEN "cancelled" ELSE pc[d]
  BY DEF IInv, TypeOK
<1>2. Want[c] # NoKey
  BY DEF IInv, Pointers, Want, Waiting
<1>3. Want' = [Want EXCEPT ![c] = NoKey]
  <2>1. key' = key
    OBVIOUS
  <2>2. ASSUME NEW d \in Callers
        PROVE  (Waiting(d) \/ Holds(d))' <=> d # c /\ (Waiting(d) \/ Holds(d))
    BY <1>1 DEF Waiting, Holds
  <2>3. ASSUME NEW d \in Callers
        PROVE  Want'[d] = IF d = c THEN NoKey ELSE Want[d]
    BY <2>1, <2>2 DEF Want
  <2> QED BY <2>3 DEF Want
<1>4. UNCHANGED Inside /\ c \notin Inside
  BY <1>1 DEF Inside, Waiting, Holds
<1> QED BY <1>2, <1>3, <1>4 DEF Mutex!GiveUp, Mutex!Waits, Want, Inside

(* Releasing the token leaves, or hands over to the first parked caller. *)
LEMMA FreeTokenRefines ==
  ASSUME IInv, NEW c \in Callers, FreeToken(c)
  PROVE  Mutex!Leave(c) \/ \E d \in Callers : Mutex!HandOver(c, d)
<1> DEFINE q == sendq[obj[c]]
<1>1. /\ obj[c] \in Locks /\ q \in Seq(Callers) /\ pc[c] = "holding"
      /\ c \in Inside /\ UNCHANGED key
  BY DEF IInv, TypeOK, Pointers, FreeToken, Inside, Holds
<1>2. CASE q = <<>>
  <2>1. \A d \in Callers : pc'[d] = IF d = c THEN "released" ELSE pc[d]
    BY <1>2 DEF IInv, TypeOK, FreeToken
  <2>2. Want' = [Want EXCEPT ![c] = NoKey]
    BY <1>1, <2>1 DEF Want, Waiting, Holds
  <2>3. Inside' = Inside \ {c}
    BY <2>1 DEF Inside, Holds
  <2> QED BY <1>1, <2>2, <2>3 DEF Mutex!Leave, Want, Inside
<1>3. CASE q # <<>>
  <2> PICK h \in Callers : h = Head(q)
    BY <1>1, <1>3, HeadTailProperties
  <2>1. h = Head(q) /\ h = q[1] /\ 1 \in 1..Len(q)
    BY <1>1, <1>3, EmptySeq
  <2>2. pc[h] = "parked" /\ obj[h] = obj[c]
    BY <1>1, <2>1 DEF IInv, Queue
  <2>3. pc' = [pc EXCEPT ![c] = "released", ![h] = "holding"]
    BY <1>3, <2>1 DEF FreeToken
  <2> HIDE DEF q
  <2>4. \A d \in Callers : pc'[d] = IF d = c THEN "released"
                                    ELSE IF d = h THEN "holding" ELSE pc[d]
    BY <1>1, <2>1, <2>2, <2>3 DEF IInv, TypeOK
  <2>5. key[h] = key[c] /\ key[h] # NoKey
    BY <1>1, <2>1, <2>2 DEF IInv, TypeOK, Pointers, OneKeyPerLock
  <2>6. Want' = [Want EXCEPT ![c] = NoKey] /\ Want[h] = key[h] /\ Want[c] = key[c]
    BY <1>1, <2>1, <2>2, <2>4 DEF Want, Waiting, Holds
  <2>7. Inside' = (Inside \ {c}) \cup {h} /\ h \notin Inside
    BY <1>1, <2>1, <2>2, <2>4 DEF Inside, Holds
  <2>8. Mutex!HandOver(c, h)
    BY <1>1, <2>1, <2>5, <2>6, <2>7 DEF Mutex!HandOver, Mutex!Waits, Want, Inside
  <2> QED BY <2>1, <2>8
<1> QED BY <1>2, <1>3

(* Every step of the gate is a step of the keyed mutex or changes nothing   *)
(* that it sees.                                                            *)
LEMMA StepRefines == IInv /\ [Next]_vars => [Mutex!Next]_(Mutex!vars)
<1> SUFFICES ASSUME IInv, [Next]_vars
             PROVE  Mutex!Next \/ UNCHANGED <<Want, Inside>>
  BY DEF Mutex!vars, Want, Inside
<1>1. ASSUME NEW c \in Callers, NEW r \in Roots, Acquire(c, r) PROVE Mutex!Next
  BY <1>1, AcquireRefines DEF Mutex!Next
<1>2. ASSUME NEW c \in Callers, TryAcquire(c) \/ AwaitTurn(c)
      PROVE  Mutex!Next \/ UNCHANGED <<Want, Inside>>
  <2>1. UNCHANGED <<locks, key, obj>> /\ Waiting(c)
    BY <1>2 DEF TryAcquire, AwaitTurn, Waiting
  <2>2. CASE Send(c)
    BY <2>1, <2>2, SendRefines DEF Mutex!Next
  <2>3. CASE SeeDone(c)
    BY <2>1, <2>3, GiveUpRefines DEF Mutex!Next, SeeDone
  <2>4. CASE \E p \in {"queued", "parked"} : pc' = [pc EXCEPT ![c] = p]
    <3>1. \A d \in Callers : (Waiting(d)' <=> Waiting(d)) /\ (Holds(d)' <=> Holds(d))
      BY <2>1, <2>4 DEF IInv, TypeOK, Waiting, Holds
    <3> QED BY <2>1, <3>1 DEF Want, Inside
  <2> QED BY <1>2, <2>2, <2>3, <2>4 DEF TryAcquire, AwaitTurn, Park
<1>3. ASSUME NEW c \in Callers, Cancel(c)
      PROVE  Mutex!Next \/ UNCHANGED <<Want, Inside>>
  <2>1. CASE pc[c] = "parked"
    BY <1>3, <2>1, GiveUpRefines DEF Cancel, Waiting, Mutex!Next
  <2>2. CASE pc[c] # "parked"
    BY <1>3, <2>2 DEF Cancel, Want, Inside, Waiting, Holds
  <2> QED BY <2>1, <2>2
<1>4. ASSUME NEW c \in Callers, FreeToken(c) PROVE Mutex!Next
  BY <1>4, FreeTokenRefines DEF Mutex!Next
<1>5. ASSUME NEW c \in Callers, releaseRef(c) PROVE UNCHANGED <<Want, Inside>>
  <2>1. \A d \in Callers : /\ Waiting(d)' <=> Waiting(d)
                           /\ Holds(d)' <=> Holds(d)
                           /\ Waiting(d) \/ Holds(d) => key'[d] = key[d]
    BY <1>5 DEF IInv, TypeOK, releaseRef, Waiting, Holds
  <2> QED BY <2>1 DEF Want, Inside
<1>6. CASE UNCHANGED vars
  BY <1>6 DEF vars, Want, Inside, Waiting, Holds
<1> QED BY <1>1, <1>2, <1>3, <1>4, <1>5, <1>6 DEF Next

(* workspaceGate implements the keyed mutex: an owner enters when its key is   *)
(* free, leaves or hands over, and a waiting call can give up at any time.   *)
THEOREM GateRefinesMutex == Spec => MutexSpec
<1>1. Init => Mutex!Init
  BY DEF Init, Mutex!Init, Want, Inside, Waiting, Holds
<1> QED BY <1>1, StepRefines, Invariance, PTL DEF Spec, MutexSpec, Mutex!Spec
=============================================================================
