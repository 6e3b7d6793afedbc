--------------------------- MODULE CloudRunsProofs ----------------------------
(***************************************************************************)
(* Proofs about CloudRuns, for any runs, any number of slots and any        *)
(* restarts.  The runs of TLC have one slot; here two executions may be     *)
(* under way, also of one run.  IInv follows an execution from its slot to  *)
(* its session, exit file and log: as long as it shares its run with no     *)
(* other one, these are its own.                                            *)
(***************************************************************************)
EXTENDS CloudRuns, FiniteSetTheorems, TLAPS

Early == {"prepare", "start", "launch"}        \* it has no session yet
Late  == {"report", "clear", "release"}        \* waitRunTerminal has returned

(* What the polling goroutine has claimed, and the room it saw for it.      *)
PollInv ==
  /\ poll = "send" => claimed \in Runs
  /\ PollNeverBlocks

(* An execution and its tail have a run, and two of one run share it.       *)
Holders ==
  /\ \A e \in Execs : pc[e] # "free" \/ tail[e] # "off" => run[e] \in Runs
  /\ \A e, f \in Execs : e # f /\ run[e] = run[f] /\ run[e] # None
                           => run[e] \in shared

(* A session is started by an execution of its run, which has not returned. *)
SessOwner ==
  \A r \in Runs : sess[r].by # None =>
    /\ run[sess[r].by] = r
    /\ pc[sess[r].by] \in Waiting \cup Late

(* Before it launches, nothing is alive under the name of its session, and  *)
(* the files are reset when it does.                                        *)
Fresh ==
  \A e \in Execs : pc[e] \in Early /\ run[e] \notin shared =>
    /\ ~Alive(run[e])
    /\ pc[e] = "launch" => exit[run[e]] = "absent"

(* While its executor works there is no exit file, so it goes on waiting,   *)
(* or a probe failed.                                                       *)
Busy ==
  \A r \in Runs \ shared : sess[r].st = "busy" /\ sess[r].by # None =>
    /\ run[sess[r].by] = r
    /\ pc[sess[r].by] \in {"wait", "probe"} \/ (pc[sess[r].by] \in Late /\ failed[sess[r].by])
    /\ exit[r] = "absent"

(* While it waits, the session is its own, and a zero in the exit file is   *)
(* how its executor exited.                                                 *)
Own ==
  \A e \in Execs : pc[e] \in Waiting /\ run[e] \notin shared =>
    /\ Alive(run[e]) => sess[run[e]].by = e
    /\ exit[run[e]] = "zero" => code[e] = "zero"

(* The tail runs while its execution waits and is told to stop when it does *)
(* no more; it has not read more than there is.                             *)
TailInv ==
  \A e \in Execs :
    /\ pc[e] \in Early => tail[e] = "off"
    /\ tail[e] = "on" <=> pc[e] \in Waiting
    /\ tail[e] = "stop" => pc[e] \in Late \cup {"free"}
    /\ tail[e] # "off" /\ run[e] \notin shared => off[e] <= log[run[e]]

IInv ==
  /\ TypeOK
  /\ PollInv
  /\ Holders
  /\ SessOwner
  /\ Fresh
  /\ Busy
  /\ Own
  /\ CompletedIsTrue
  /\ TailInv

(* A step that leaves the polling goroutine where it is and takes no slot.  *)
LEMMA PollUntouched ==
  ASSUME IInv, poll' = poll, claimed' = claimed, Slots' \subseteq Slots
  PROVE  PollInv'
<1>1. IsFiniteSet(Slots)
  BY CloudAssumption, FS_Subset DEF Slots
<1>2. Cardinality(Slots') <= Cardinality(Slots)
  BY <1>1, FS_Subset
<1>3. Cardinality(Slots') \in Int /\ Cardinality(Slots) \in Int /\ Cap \in Int
  BY <1>1, FS_Subset, FS_CardinalityType, CloudAssumption
<1> QED BY <1>2, <1>3 DEF IInv, PollInv, PollNeverBlocks, HasSlot

(* A new process has claimed nothing and executes nothing.                  *)
LEMMA StartKeeps == ASSUME IInv, Start PROVE IInv'
<1> USE CloudAssumption DEF IInv, TypeOK, Start, execVars, tailVars, diskVars
<1>1. TypeOK'
  BY SMTT(30) DEF Phases
<1>2. PollInv'
  BY DEF PollInv, PollNeverBlocks
<1>3. (Holders /\ SessOwner /\ Fresh /\ Busy /\ Own /\ CompletedIsTrue /\ TailInv)'
  BY DEF Holders, SessOwner, Fresh, Busy, Own, CompletedIsTrue, TailInv, Alive
<1> QED BY <1>1, <1>2, <1>3

(* With the process its executions are gone; their sessions are nobody's.   *)
LEMMA StopKeeps == ASSUME IInv, Stop PROVE IInv'
<1> USE CloudAssumption DEF IInv, TypeOK, Stop
<1>1. TypeOK'
  <2> DEFINE S == [st : {"none", "busy", "over", "writing", "shell"},
                   by : Execs \cup {None}]
  <2>1. \A s \in S : [s EXCEPT !.by = None] \in S
    OBVIOUS
  <2>2. sess' \in [Runs -> S]
    BY <2>1
  <2> QED BY <2>2, SMTT(30) DEF Phases
<1>2. PollInv'
  BY DEF PollInv, PollNeverBlocks
<1>3. Holders'
  BY DEF Holders
<1>4. SessOwner'
  BY DEF SessOwner
<1>5. Fresh'
  BY DEF Fresh, Early
<1>6. Busy'
  BY DEF Busy, Late
<1>7. Own'
  BY DEF Own, Waiting
<1>8. CompletedIsTrue'
  BY DEF CompletedIsTrue
<1>9. TailInv'
  BY DEF TailInv, Holders, Waiting, Early, Late
<1> QED BY <1>1, <1>2, <1>3, <1>4, <1>5, <1>6, <1>7, <1>8, <1>9

(* The list says nothing about what is executed here.                       *)
LEMMA PollRunsKeeps == ASSUME IInv, PollRuns PROVE IInv'
<1> USE CloudAssumption DEF IInv, TypeOK, PollRuns, execVars, tailVars, diskVars
<1>1. TypeOK'
  BY SMTT(30) DEF Phases
<1>2. PollInv'
  BY DEF PollInv, PollNeverBlocks
<1>3. (Holders /\ SessOwner /\ Fresh /\ Busy /\ Own /\ CompletedIsTrue /\ TailInv)'
  BY DEF Holders, SessOwner, Fresh, Busy, Own, CompletedIsTrue, TailInv, Alive
<1> QED BY <1>1, <1>2, <1>3

(* The loop goes back to its timer.                                         *)
LEMMA EndPollKeeps == ASSUME IInv, EndPoll PROVE IInv'
<1> USE CloudAssumption DEF IInv, TypeOK, EndPoll, execVars, tailVars, diskVars
<1>1. TypeOK'
  BY SMTT(30) DEF Phases
<1>2. PollInv'
  BY DEF PollInv, PollNeverBlocks
<1>3. (Holders /\ SessOwner /\ Fresh /\ Busy /\ Own /\ CompletedIsTrue /\ TailInv)'
  BY DEF Holders, SessOwner, Fresh, Busy, Own, CompletedIsTrue, TailInv, Alive
<1> QED BY <1>1, <1>2, <1>3

(* Nothing is claimed.                                                      *)
LEMMA PassOverKeeps == ASSUME IInv, NEW r \in Runs, PassOver(r) PROVE IInv'
<1> USE CloudAssumption DEF IInv, TypeOK, PassOver, execVars, tailVars, diskVars
<1>1. TypeOK'
  BY SMTT(30) DEF Phases
<1>2. PollInv'
  BY PollUntouched DEF Slots
<1>3. (Holders /\ SessOwner /\ Fresh /\ Busy /\ Own /\ CompletedIsTrue /\ TailInv)'
  BY DEF Holders, SessOwner, Fresh, Busy, Own, CompletedIsTrue, TailInv, Alive
<1> QED BY <1>1, <1>2, <1>3

(* The room seen right before the claim is the room of the send.            *)
LEMMA ClaimKeeps == ASSUME IInv, NEW r \in Runs, Claim(r) PROVE IInv'
<1> USE CloudAssumption DEF IInv, TypeOK, Claim, execVars, tailVars, diskVars
<1>1. TypeOK'
  BY SMTT(30) DEF Phases
<1>2. PollInv'
  BY DEF PollInv, PollNeverBlocks, HasSlot, Slots
<1>3. (Holders /\ SessOwner /\ Fresh /\ Busy /\ Own /\ CompletedIsTrue /\ TailInv)'
  BY DEF Holders, SessOwner, Fresh, Busy, Own, CompletedIsTrue, TailInv, Alive
<1> QED BY <1>1, <1>2, <1>3

(* A claimed run that is alive, or that is executed already, is shared.     *)
LEMMA SpawnKeeps == ASSUME IInv, NEW e \in Execs, Spawn(e) PROVE IInv'
<1> USE CloudAssumption DEF IInv, TypeOK, Spawn, Goto, tailVars, diskVars
<1>1. TypeOK'
  BY SMTT(30) DEF PollInv, Phases
<1>2. PollInv'
  BY DEF PollInv, PollNeverBlocks
<1>3. Holders'
  BY DEF PollInv, Holders
<1>4. SessOwner'
  BY DEF SessOwner
<1>5. Fresh'
  BY DEF Fresh, Alive
<1>6. Busy'
  BY DEF Busy, Late
<1>7. Own'
  BY DEF Own, Waiting, Alive
<1>8. CompletedIsTrue'
  BY DEF CompletedIsTrue
<1>9. TailInv'
  BY DEF TailInv, Holders, Waiting
<1> QED BY <1>1, <1>2, <1>3, <1>4, <1>5, <1>6, <1>7, <1>8, <1>9

(* executeRun returns before it has entered d.running.                      *)
LEMMA RefuseKeeps == ASSUME IInv, NEW e \in Execs, Refuse(e) PROVE IInv'
<1> USE CloudAssumption DEF IInv, TypeOK, Refuse, Goto, Upload, tailVars, diskVars
<1>1. TypeOK'
  BY SMTT(30) DEF Phases
<1>2. PollInv'
  BY PollUntouched DEF Slots
<1>3. Holders'
  BY DEF Holders
<1>4. SessOwner'
  BY DEF SessOwner, Late
<1>5. Fresh'
  BY DEF Fresh, Early, Alive
<1>6. Busy'
  BY DEF Busy, Late
<1>7. Own'
  BY DEF Own, Waiting, Alive
<1>8. CompletedIsTrue'
  BY DEF CompletedIsTrue
<1>9. TailInv'
  BY DEF TailInv, Waiting, Early
<1> QED BY <1>1, <1>2, <1>3, <1>4, <1>5, <1>6, <1>7, <1>8, <1>9

(* setRuntime.                                                              *)
LEMMA RegisterKeeps == ASSUME IInv, NEW e \in Execs, Register(e) PROVE IInv'
<1> USE CloudAssumption DEF IInv, TypeOK, Register, Goto, pollVars, tailVars, diskVars
<1>1. TypeOK'
  BY SMTT(30) DEF Holders, Phases
<1>2. PollInv'
  BY PollUntouched DEF Slots
<1>3. Holders'
  BY DEF Holders
<1>4. SessOwner'
  BY DEF SessOwner, Waiting, Late
<1>5. Fresh'
  BY DEF Fresh, Early, Alive
<1>6. Busy'
  BY DEF Busy, Late
<1>7. Own'
  BY DEF Own, Waiting, Alive
<1>8. CompletedIsTrue'
  BY DEF CompletedIsTrue
<1>9. TailInv'
  BY DEF TailInv, Waiting, Early
<1> QED BY <1>1, <1>2, <1>3, <1>4, <1>5, <1>6, <1>7, <1>8, <1>9

(* It reports a failure.                                                    *)
LEMMA NoExecutorKeeps == ASSUME IInv, NEW e \in Execs, NoExecutor(e) PROVE IInv'
<1> USE CloudAssumption DEF IInv, TypeOK, NoExecutor, Goto, pollVars, tailVars, diskVars
<1>1. TypeOK'
  BY SMTT(30) DEF Phases
<1>2. PollInv'
  BY PollUntouched DEF Slots
<1>3. Holders'
  BY DEF Holders
<1>4. SessOwner'
  BY DEF SessOwner, Late
<1>5. Fresh'
  BY DEF Fresh, Early, Alive
<1>6. Busy'
  BY DEF Busy, Late
<1>7. Own'
  BY DEF Own, Waiting, Alive
<1>8. CompletedIsTrue'
  BY DEF CompletedIsTrue
<1>9. TailInv'
  BY DEF TailInv, Holders, Waiting, Early, Late
<1> QED BY <1>1, <1>2, <1>3, <1>4, <1>5, <1>6, <1>7, <1>8, <1>9

(* Nobody else is writing the exit file of a run that is not shared.        *)
LEMMA ResetFilesKeeps == ASSUME IInv, NEW e \in Execs, ResetFiles(e) PROVE IInv'
<1> USE CloudAssumption DEF IInv, TypeOK, ResetFiles, Goto, pollVars, tailVars
<1>1. TypeOK'
  BY SMTT(30) DEF Holders, Phases
<1>2. PollInv'
  BY PollUntouched DEF Slots
<1>3. Holders'
  BY DEF Holders
<1>4. SessOwner'
  BY DEF SessOwner, Waiting, Late
<1>5. Fresh'
  BY DEF Fresh, Holders, Early, Alive
<1>6. Busy'
  BY DEF Busy, Late
<1>7. Own'
  BY DEF Own, Waiting, Alive
<1>8. CompletedIsTrue'
  BY DEF CompletedIsTrue
<1>9. TailInv'
  BY DEF TailInv, Holders, Waiting, Early
<1> QED BY <1>1, <1>2, <1>3, <1>4, <1>5, <1>6, <1>7, <1>8, <1>9

(* It reports a failure.                                                    *)
LEMMA LaunchFailsKeeps == ASSUME IInv, NEW e \in Execs, LaunchFails(e) PROVE IInv'
<1> USE CloudAssumption DEF IInv, TypeOK, LaunchFails, Goto, pollVars, tailVars, diskVars
<1>1. TypeOK'
  BY SMTT(30) DEF Phases
<1>2. PollInv'
  BY PollUntouched DEF Slots
<1>3. Holders'
  BY DEF Holders
<1>4. SessOwner'
  BY DEF SessOwner, Late
<1>5. Fresh'
  BY DEF Fresh, Early, Alive
<1>6. Busy'
  BY DEF Busy, Late
<1>7. Own'
  BY DEF Own, Waiting, Alive
<1>8. CompletedIsTrue'
  BY DEF CompletedIsTrue
<1>9. TailInv'
  BY DEF TailInv, Waiting, Early
<1> QED BY <1>1, <1>2, <1>3, <1>4, <1>5, <1>6, <1>7, <1>8, <1>9

(* The new session is its own, and its files are empty.                     *)
LEMMA LaunchKeeps == ASSUME IInv, NEW e \in Execs, Launch(e) PROVE IInv'
<1> USE CloudAssumption DEF IInv, TypeOK, Launch, Goto, pollVars
<1>1. TypeOK'
  BY SMTT(30) DEF Holders, Phases
<1>2. PollInv'
  BY PollUntouched DEF Slots
<1>3. Holders'
  BY DEF Holders
<1>4. SessOwner'
  BY DEF SessOwner, Waiting
<1>5. Fresh'
  BY DEF Fresh, Holders, Early, Alive
<1>6. Busy'
  BY DEF Busy, Fresh, Early, Late
<1>7. Own'
  BY DEF Own, Fresh, Holders, Early, Alive
<1>8. CompletedIsTrue'
  BY DEF CompletedIsTrue
<1>9. TailInv'
  BY DEF TailInv, Holders, Waiting, Early
<1> QED BY <1>1, <1>2, <1>3, <1>4, <1>5, <1>6, <1>7, <1>8, <1>9

(* It goes to read only an exit file that is there.                         *)
LEMMA TickKeeps == ASSUME IInv, NEW e \in Execs, Tick(e) PROVE IInv'
<1> USE CloudAssumption DEF IInv, TypeOK, Tick, Goto, pollVars, tailVars, diskVars
<1>1. TypeOK'
  BY SMTT(30) DEF Phases
<1>2. PollInv'
  BY PollUntouched DEF Slots
<1>3. Holders'
  BY DEF Holders
<1>4. SessOwner'
  BY DEF SessOwner, Waiting
<1>5. Fresh'
  BY DEF Fresh, Early, Alive
<1>6. Busy'
  BY DEF Busy, Late
<1>7. Own'
  BY DEF Own, Waiting, Alive
<1>8. CompletedIsTrue'
  BY DEF CompletedIsTrue
<1>9. TailInv'
  BY DEF TailInv, Waiting, Early
<1> QED BY <1>1, <1>2, <1>3, <1>4, <1>5, <1>6, <1>7, <1>8, <1>9

(* The file it reads is written when its executor is over.                  *)
LEMMA ReadExitKeeps == ASSUME IInv, NEW e \in Execs, ReadExit(e) PROVE IInv'
<1> USE CloudAssumption DEF IInv, TypeOK, ReadExit, Goto, pollVars, diskVars
<1>1. TypeOK'
  BY SMTT(30) DEF Phases
<1>2. PollInv'
  BY PollUntouched DEF Slots
<1>3. Holders'
  BY DEF Holders
<1>4. SessOwner'
  BY DEF SessOwner, Late
<1>5. Fresh'
  BY DEF Fresh, Early, Alive
<1>6. Busy'
  BY DEF Busy, Late
<1>7. Own'
  BY DEF Own, Waiting, Alive
<1>8. CompletedIsTrue'
  <2>1. failed'[e] <=> exit[run[e]] = "nonzero"
    OBVIOUS
  <2>2. blank'[e] <=> exit[run[e]] \in {"absent", "empty"}
    OBVIOUS
  <2>3. exit[run[e]] \in {"absent", "empty", "zero", "nonzero"}
    BY DEF Holders
  <2>4. run[e] \notin shared /\ exit[run[e]] = "zero" => code[e] = "zero"
    BY DEF Own, Waiting
  <2>5. \A f \in Execs \ {e} : /\ pc'[f] = pc[f] /\ failed'[f] = failed[f]
                               /\ blank'[f] = blank[f]
    OBVIOUS
  <2> QED BY <2>1, <2>2, <2>3, <2>4, <2>5 DEF CompletedIsTrue
<1>9. TailInv'
  BY DEF TailInv, Waiting, Early, Late
<1> QED BY <1>1, <1>2, <1>3, <1>4, <1>5, <1>6, <1>7, <1>8, <1>9

(* It gives up a session that is gone, or one that it could not find, and   *)
(* has failed then.                                                         *)
LEMMA ProbeKeeps == ASSUME IInv, NEW e \in Execs, Probe(e) PROVE IInv'
<1> USE CloudAssumption DEF IInv, TypeOK, Probe, Goto, pollVars, diskVars
<1>1. TypeOK'
  <2>1. CASE Goto(e, "wait") /\ UNCHANGED <<failed, tail>>
    BY <2>1, SMTT(30) DEF Phases
  <2>2. CASE /\ failed' = [failed EXCEPT ![e] = TRUE]
             /\ tail' = [tail EXCEPT ![e] = "stop"]
             /\ Goto(e, "report")
    BY <2>2, SMTT(30) DEF Phases
  <2> QED BY <2>1, <2>2
<1>2. PollInv'
  BY PollUntouched DEF Slots
<1>3. Holders'
  BY DEF Holders
<1>4. SessOwner'
  BY DEF SessOwner, Waiting, Late
<1>5. Fresh'
  BY DEF Fresh, Early, Alive
<1>6. Busy'
  BY DEF Busy, Alive, Late
<1>7. Own'
  BY DEF Own, Waiting, Alive
<1>8. CompletedIsTrue'
  BY DEF CompletedIsTrue
<1>9. TailInv'
  BY DEF TailInv, Waiting, Early, Late
<1> QED BY <1>1, <1>2, <1>3, <1>4, <1>5, <1>6, <1>7, <1>8, <1>9

(* What the server does with the result changes nothing here.               *)
LEMMA SendResultKeeps == ASSUME IInv, NEW e \in Execs, SendResult(e) PROVE IInv'
<1> USE CloudAssumption DEF IInv, TypeOK, SendResult, Goto, Upload, tailVars, diskVars
<1>1. TypeOK'
  BY SMTT(30) DEF Phases
<1>2. PollInv'
  BY PollUntouched DEF Slots
<1>3. Holders'
  BY DEF Holders
<1>4. SessOwner'
  BY DEF SessOwner, Late
<1>5. Fresh'
  BY DEF Fresh, Early, Alive
<1>6. Busy'
  BY DEF Busy, Late
<1>7. Own'
  BY DEF Own, Waiting, Alive
<1>8. CompletedIsTrue'
  BY DEF CompletedIsTrue
<1>9. TailInv'
  BY DEF TailInv, Waiting, Early, Late
<1> QED BY <1>1, <1>2, <1>3, <1>4, <1>5, <1>6, <1>7, <1>8, <1>9

(* The entry of d.running goes.                                             *)
LEMMA clearRuntimeKeeps == ASSUME IInv, NEW e \in Execs, clearRuntime(e) PROVE IInv'
<1> USE CloudAssumption DEF IInv, TypeOK, clearRuntime, Goto, pollVars, tailVars, diskVars
<1>1. TypeOK'
  BY SMTT(30) DEF Phases
<1>2. PollInv'
  BY PollUntouched DEF Slots
<1>3. Holders'
  BY DEF Holders
<1>4. SessOwner'
  BY DEF SessOwner, Late
<1>5. Fresh'
  BY DEF Fresh, Early, Alive
<1>6. Busy'
  BY DEF Busy, Late
<1>7. Own'
  BY DEF Own, Waiting, Alive
<1>8. CompletedIsTrue'
  BY DEF CompletedIsTrue
<1>9. TailInv'
  BY DEF TailInv, Waiting, Early, Late
<1> QED BY <1>1, <1>2, <1>3, <1>4, <1>5, <1>6, <1>7, <1>8, <1>9

(* The slot is free; the run stays with the tail while it reads.            *)
LEMMA ReleaseKeeps == ASSUME IInv, NEW e \in Execs, Release(e) PROVE IInv'
<1> USE CloudAssumption DEF IInv, TypeOK, Release, Goto, pollVars, tailVars
<1>1. TypeOK'
  <2>1. sess' \in [Runs -> [st : {"none", "busy", "over", "writing", "shell"},
                           by : Execs \cup {None}]]
    <3> SUFFICES ASSUME NEW r \in Runs
                 PROVE  sess'[r] \in [st : {"none", "busy", "over", "writing", "shell"},
                                     by : Execs \cup {None}]
      OBVIOUS
    <3> QED OBVIOUS
  <2>2. run' \in [Execs -> Runs \cup {None}] /\ code' \in [Execs -> {"none", "zero", "nonzero"}]
    OBVIOUS
  <2> QED BY <2>1, <2>2, SMTT(30) DEF Phases
<1>2. PollInv'
  BY PollUntouched DEF Slots
<1>3. Holders'
  BY DEF Holders
<1>4. SessOwner'
  BY DEF SessOwner
<1>5. Fresh'
  BY DEF Fresh, Holders, Early, Alive
<1>6. Busy'
  BY DEF Busy, Late
<1>7. Own'
  BY DEF Own, Holders, Waiting, Alive
<1>8. CompletedIsTrue'
  BY DEF CompletedIsTrue
<1>9. TailInv'
  BY DEF TailInv, Waiting, Early
<1> QED BY <1>1, <1>2, <1>3, <1>4, <1>5, <1>6, <1>7, <1>8, <1>9

(* The tail reads to the end of the log.                                    *)
LEMMA TailTickKeeps == ASSUME IInv, NEW e \in Execs, TailTick(e) PROVE IInv'
<1> USE CloudAssumption DEF IInv, TypeOK, TailTick, readNew, readSome, pollVars, execVars, diskVars
<1>1. TypeOK'
  <2>1. run[e] \in Runs
    <3>1. tail[e] # "off" /\ e \in Execs /\ Holders
      OBVIOUS
    <3> QED BY ONLY <3>1 DEF Holders
  <2>2. off' \in [Execs -> Nat] /\ missed' \subseteq Execs
    <3>1. CASE readNew(e)
      BY <2>1, <3>1
    <3>2. CASE readSome(e)
      BY <2>1, <3>2
    <3> QED BY <3>1, <3>2
  <2>3. UNCHANGED <<poll, offer, claimed, lives, server>>
    OBVIOUS
  <2>4. UNCHANGED <<pc, run, failed, blank, running, shared>>
    OBVIOUS
  <2>5. UNCHANGED <<tail, sess, exit, log, code>>
    OBVIOUS
  <2> QED BY ONLY TypeOK, <2>2, <2>3, <2>4, <2>5, SMTT(60) DEF TypeOK
<1>2. PollInv'
  BY PollUntouched DEF Slots
<1>3. TailInv'
  <2>1. off[e] \in Nat /\ log[run[e]] \in Nat
    BY DEF Holders
  <2>2. off'[e] <= log[run[e]] /\ \A f \in Execs \ {e} : off'[f] = off[f]
    <3>1. CASE readNew(e)
      BY <2>1, <3>1
    <3>2. CASE readSome(e)
      BY <2>1, <3>2
    <3> QED BY <3>1, <3>2
  <2>3. UNCHANGED <<pc, run, shared, tail, log>>
    OBVIOUS
  <2> QED BY ONLY TailInv, <2>2, <2>3 DEF TailInv
<1>4. (Holders /\ SessOwner /\ Fresh /\ Busy /\ Own /\ CompletedIsTrue)'
  BY DEF Holders, SessOwner, Fresh, Busy, Own, CompletedIsTrue, Alive
<1> QED BY <1>1, <1>2, <1>3, <1>4

(* The tail reads to the end once more, and lets go of the run.             *)
LEMMA TailEndKeeps == ASSUME IInv, NEW e \in Execs, TailEnd(e) PROVE IInv'
<1> USE CloudAssumption DEF IInv, TypeOK, TailEnd, readNew, readSome, readNone, pollVars, diskVars
<1>1. TypeOK'
  <2>1. run[e] \in Runs
    <3>1. tail[e] = "stop" /\ e \in Execs /\ Holders
      OBVIOUS
    <3> QED BY ONLY <3>1 DEF Holders
  <2>2. off' \in [Execs -> Nat] /\ missed' \subseteq Execs
    <3>1. CASE readNew(e)
      BY <2>1, <3>1
    <3>2. CASE readSome(e)
      BY <2>1, <3>2
    <3>3. CASE readNone(e)
      BY <2>1, <3>3
    <3> QED BY <3>1, <3>2, <3>3
  <2>3. run' \in [Execs -> Runs \cup {None}] /\ tail' \in [Execs -> {"off", "on", "stop"}]
    OBVIOUS
  <2> QED BY <2>2, <2>3, SMTT(30)
<1>2. PollInv'
  BY PollUntouched DEF Slots
<1>3. Holders'
  BY DEF Holders
<1>4. SessOwner'
  BY DEF SessOwner, Waiting, Late
<1>5. Fresh'
  BY DEF Fresh, Early, Alive
<1>6. Busy'
  BY DEF Busy, Late
<1>7. Own'
  BY DEF Own, Waiting, Alive
<1>8. CompletedIsTrue'
  BY DEF CompletedIsTrue
<1>9. TailInv'
  BY DEF TailInv
<1> QED BY <1>1, <1>2, <1>3, <1>4, <1>5, <1>6, <1>7, <1>8, <1>9

(* The log grows.                                                           *)
LEMMA OutputKeeps == ASSUME IInv, NEW r \in Runs, Output(r) PROVE IInv'
<1> USE CloudAssumption DEF IInv, TypeOK, Output, pollVars, execVars, tailVars
<1>1. TypeOK'
  BY SMTT(30) DEF Phases
<1>2. PollInv'
  BY PollUntouched DEF Slots
<1>3. TailInv'
  BY DEF TailInv
<1>4. (Holders /\ SessOwner /\ Fresh /\ Busy /\ Own /\ CompletedIsTrue)'
  BY DEF Holders, SessOwner, Fresh, Busy, Own, CompletedIsTrue, Alive
<1> QED BY <1>1, <1>2, <1>3, <1>4

(* The executor exits, with the code the script is going to write.          *)
LEMMA FinishKeeps == ASSUME IInv, NEW r \in Runs, Finish(r) PROVE IInv'
<1> USE CloudAssumption DEF IInv, TypeOK, Finish, Script, pollVars, execVars, tailVars
<1>1. TypeOK'
  BY SMTT(30) DEF Phases
<1>2. PollInv'
  BY PollUntouched DEF Slots
<1>3. SessOwner'
  BY DEF SessOwner
<1>4. Fresh'
  BY DEF Fresh, Alive
<1>5. Busy'
  BY DEF Busy, Late
<1>6. Own'
  BY DEF Own, Busy, SessOwner, Alive
<1>7. CompletedIsTrue'
  BY DEF CompletedIsTrue, Busy, SessOwner, Late
<1>8. (Holders /\ TailInv)'
  BY DEF Holders, TailInv
<1> QED BY <1>1, <1>2, <1>3, <1>4, <1>5, <1>6, <1>7, <1>8

(* The exit file comes after the end of the executor.                       *)
LEMMA CreateExitKeeps == ASSUME IInv, NEW r \in Runs, CreateExit(r) PROVE IInv'
<1> USE CloudAssumption DEF IInv, TypeOK, CreateExit, Script, pollVars, execVars, tailVars
<1>1. TypeOK'
  BY SMTT(30) DEF Phases
<1>2. PollInv'
  BY PollUntouched DEF Slots
<1>3. SessOwner'
  BY DEF SessOwner
<1>4. Fresh'
  BY DEF Fresh, Alive
<1>5. Busy'
  BY DEF Busy, Late
<1>6. Own'
  BY DEF Own, Alive
<1>7. (Holders /\ CompletedIsTrue /\ TailInv)'
  BY DEF Holders, CompletedIsTrue, TailInv
<1> QED BY <1>1, <1>2, <1>3, <1>4, <1>5, <1>6, <1>7

(* The exit file says how the executor of this session exited.              *)
LEMMA WriteExitKeeps == ASSUME IInv, NEW r \in Runs, WriteExit(r) PROVE IInv'
<1> USE CloudAssumption DEF IInv, TypeOK, WriteExit, Script, pollVars, execVars, tailVars
<1>1. TypeOK'
  BY SMTT(30) DEF Phases
<1>2. PollInv'
  BY PollUntouched DEF Slots
<1>3. SessOwner'
  BY DEF SessOwner
<1>4. Fresh'
  BY DEF Fresh, Holders, Alive
<1>5. Busy'
  BY DEF Busy, Late
<1>6. Own'
  BY DEF Own, Holders, Waiting, Alive
<1>7. (Holders /\ CompletedIsTrue /\ TailInv)'
  BY DEF Holders, CompletedIsTrue, TailInv
<1> QED BY <1>1, <1>2, <1>3, <1>4, <1>5, <1>6, <1>7

(* Nothing is alive under the name of the session.                          *)
LEMMA CloseKeeps == ASSUME IInv, NEW r \in Runs, Close(r) PROVE IInv'
<1> USE CloudAssumption DEF IInv, TypeOK, Close, pollVars, execVars, tailVars
<1>1. TypeOK'
  BY SMTT(30) DEF NoSession
<1>2. PollInv'
  BY PollUntouched DEF Slots
<1>3. SessOwner'
  BY DEF SessOwner, NoSession
<1>4. Fresh'
  BY DEF Fresh, Alive
<1>5. Busy'
  BY DEF Busy, NoSession
<1>6. Own'
  BY DEF Own, Alive, NoSession
<1>7. (Holders /\ CompletedIsTrue /\ TailInv)'
  BY DEF Holders, CompletedIsTrue, TailInv
<1> QED BY <1>1, <1>2, <1>3, <1>4, <1>5, <1>6, <1>7

-----------------------------------------------------------------------------
(* NewCloudDaemon: no session of the runner is known.                       *)
LEMMA InitIInv == Init => IInv
  BY CloudAssumption
     DEF Init, IInv, TypeOK, Phases, NoSession, PollInv, PollNeverBlocks, Holders,
         SessOwner, Fresh, Early, Busy, Own, Waiting, CompletedIsTrue, TailInv

(* Nothing happens when nothing changes.                                    *)
LEMMA StutterKeeps == ASSUME IInv, UNCHANGED vars PROVE IInv'
<1> USE DEF vars, pollVars, execVars, tailVars, diskVars, IInv
<1>1. (TypeOK /\ PollInv)'
  BY DEF TypeOK, PollInv, PollNeverBlocks, HasSlot, Slots
<1>2. (Holders /\ SessOwner /\ Fresh /\ Busy /\ Own /\ CompletedIsTrue /\ TailInv)'
  BY DEF Holders, SessOwner, Fresh, Alive, Busy, Own, CompletedIsTrue, TailInv
<1> QED BY <1>1, <1>2

(* Every step of the process, of its executions and of the sessions.        *)
LEMMA NextIInv == IInv /\ [Next]_vars => IInv'
<1> SUFFICES ASSUME IInv, [Next]_vars PROVE IInv'
  OBVIOUS
<1>1. CASE Start \/ Stop
  BY <1>1, StartKeeps, StopKeeps
<1>2. CASE Poller
  BY <1>2, PollRunsKeeps, EndPollKeeps, PassOverKeeps, ClaimKeeps, SpawnKeeps DEF Poller
<1>3. ASSUME NEW e \in Execs, Execution(e) PROVE IInv'
  BY <1>3, RefuseKeeps, RegisterKeeps, NoExecutorKeeps, ResetFilesKeeps, LaunchFailsKeeps,
     LaunchKeeps, TickKeeps, ReadExitKeeps, ProbeKeeps, SendResultKeeps, clearRuntimeKeeps,
     ReleaseKeeps DEF Execution
<1>4. ASSUME NEW e \in Execs, Tail(e) PROVE IInv'
  BY <1>4, TailTickKeeps, TailEndKeeps DEF Tail
<1>5. ASSUME NEW r \in Runs, Session(r) PROVE IInv'
  BY <1>5, OutputKeeps, FinishKeeps, CreateExitKeeps, WriteExitKeeps, CloseKeeps
     DEF Session
<1> QED BY <1>1, <1>2, <1>3, <1>4, <1>5, StutterKeeps DEF Next

(* The invariant of the cloud daemon.                                       *)
THEOREM Invariance == Spec => []IInv
  BY InitIInv, NextIInv, PTL DEF Spec

(* The state is well typed.                                                 *)
COROLLARY TypeCorrect == Spec => []TypeOK
  BY Invariance, PTL DEF IInv

(* The polling goroutine finds room in sem whenever it sends, whatever the  *)
(* capacity (pollOnce).                                                     *)
THEOREM PollingGoesOn == Spec => []PollNeverBlocks
  BY Invariance, PTL DEF IInv, PollInv

(* As long as the executor of an execution works, the execution waits for   *)
(* it and keeps its slot, or a probe failed and it is failed, for any       *)
(* number of executions at a time (executeRun, waitRunTerminal).            *)
THEOREM SlotsAreHeld == Spec => []WorkHoldsSlot
<1>1. IInv => WorkHoldsSlot
  BY DEF IInv, Busy, WorkHoldsSlot, Waiting
<1> QED BY <1>1, Invariance, PTL

(* A result that says completed is of an executor that exited with zero, or *)
(* whose exit code was not there yet when it was read (waitRunTerminal).    *)
THEOREM CompletedExitedWithZero == Spec => []CompletedIsTrue
  BY Invariance, PTL DEF IInv

(* A tail that missed nothing has uploaded the whole log when it returns,   *)
(* of an executor that is over or was given up (tailRunTerminalLog).        *)
THEOREM LogsAreWhole == Spec => TailComplete
<1> DEFINE Whole == \A e \in Execs :
      tail[e] = "stop" /\ tail'[e] = "off" /\ poll' # "down" =>
        \/ run[e] \in shared
        \/ e \in missed'
        \/ /\ off'[e] = log[run[e]]
           /\ sess[run[e]].st = "busy" /\ sess[run[e]].by = e => failed[e]
<1>1. IInv /\ [Next]_vars => [Whole]_vars
  <2> SUFFICES ASSUME IInv, Next, NEW e \in Execs, tail[e] = "stop", tail'[e] = "off",
                      poll' # "down", run[e] \notin shared, e \notin missed'
               PROVE  /\ off'[e] = log[run[e]]
                      /\ sess[run[e]].st = "busy" /\ sess[run[e]].by = e => failed[e]
    OBVIOUS
  <2>1. TailEnd(e)
    <3>1. Start \/ Stop \/ Poller \/ (\E r \in Runs : Session(r)) => FALSE
      BY DEF Start, Stop, Poller, PollRuns, EndPoll, PassOver, Claim, Spawn, Session,
             Output, Finish, CreateExit, WriteExit, Close, Script, tailVars
    <3>2. ASSUME NEW f \in Execs, Execution(f) PROVE FALSE
      BY <3>2 DEF Execution, Refuse, Register, NoExecutor, ResetFiles, LaunchFails, Launch,
             Tick, ReadExit, Probe, SendResult, clearRuntime, Release, tailVars, IInv, TypeOK
    <3>3. ASSUME NEW f \in Execs, Tail(f) PROVE f = e /\ TailEnd(f)
      BY <3>3 DEF Tail, TailTick, TailEnd, IInv, TypeOK
    <3> QED BY <3>1, <3>2, <3>3 DEF Next
  <2>2. run[e] \in Runs /\ off[e] \in Int /\ log[run[e]] \in Int /\ off[e] <= log[run[e]]
    BY DEF IInv, Holders, TailInv, TypeOK
  <2>3. off'[e] = log[run[e]]
    <3>1. off \in [Execs -> Nat]
      BY DEF IInv, TypeOK
    <3>2. CASE readNew(e)
      <4>1. off'[e] = IF log[run[e]] > off[e] THEN log[run[e]] ELSE off[e]
        BY <3>1, <3>2 DEF readNew
      <4> QED BY <2>2, <4>1
    <3>3. CASE readSome(e)
      BY <3>3 DEF readSome
    <3>4. CASE readNone(e)
      BY <2>2, <3>4 DEF readNone
    <3> QED BY <2>1, <3>2, <3>3, <3>4 DEF TailEnd
  <2>4. sess[run[e]].st = "busy" /\ sess[run[e]].by = e => pc[e] \in Waiting \/ failed[e]
    BY <2>2, CloudAssumption DEF IInv, Busy, Waiting
  <2>5. pc[e] \notin Waiting
    BY DEF IInv, TailInv, Late, Waiting
  <2> QED BY <2>3, <2>4, <2>5
<1> QED BY <1>1, Invariance, PTL DEF Spec, TailComplete
=============================================================================
