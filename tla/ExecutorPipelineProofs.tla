------------------------ MODULE ExecutorPipelineProofs ------------------------
(***************************************************************************)
(* Proofs about ExecutorPipeline, for any lines, any number of them and any *)
(* capacity of the channel and the pipes.  Each of the three invariants is  *)
(* made inductive by a part of its own: StageInv says how far the process,  *)
(* the readers and the wait are when the handler is where it is, FrameInv   *)
(* which numbers are given out and not sent yet, AnswerInv what the answer  *)
(* will be.                                                                 *)
(***************************************************************************)
EXTENDS ExecutorPipeline, SequenceTheorems, TLAPS

StageInv ==
  /\ main = "setup" => proc = "none"
  /\ proc = "none" => /\ main \in {"setup", "returned"} /\ waiter = "process"
                      /\ seq = 0 /\ sent = 0 /\ frames = {}
                      /\ \A s \in Streams : rd[s].st = "read"
  /\ closed => proc = "exited"
  /\ waiter # "process" => proc = "exited"
  /\ waiter = "done" => \A s \in Streams : Over(s)
  /\ main \in {"last", "flush", "end"} => waiter = "done"
  /\ main = "flush" => kind = "claude"
  /\ main = "last" => kind = "codex"
  /\ main = "returned" /\ proc # "none" /\ ~(kind = "codex" /\ ctx) => waiter = "done"

InFlight(s) == IF rd[s].st = "frame" THEN 1 ELSE 0

FrameInv ==
  /\ \A s \in Streams : rd[s].st = "frame" => rd[s].n < seq
  /\ rd["out"].st = "frame" /\ rd["err"].st = "frame" => rd["out"].n # rd["err"].n
  /\ \A n \in Nat : n \in frames <=> /\ n < seq
                                     /\ ~\E s \in Streams : rd[s].st = "frame" /\ rd[s].n = n
  /\ seq = sent + InFlight("out") + InFlight("err")

AnswerInv ==
  /\ json => kind = "codex"
  /\ final.isJSON => final.text # <<>>
  /\ main = "end" /\ kind = "codex" /\ final.text # <<>> => acc = final.text
  /\ ended = "done" => main = "returned" /\ waiter = "done"
  /\ AnswerIsFinal

IInv == TypeOK /\ StageInv /\ FrameInv /\ AnswerInv

(* The parts speak of few of the variables.                                 *)
LEMMA FramesUntouched ==
  ASSUME FrameInv, UNCHANGED <<seq, sent, frames>>,
         \A s \in Streams : rd'[s].st = "frame" \/ rd[s].st = "frame"
                              => rd'[s].st = rd[s].st /\ rd'[s].n = rd[s].n
  PROVE  FrameInv'
  BY DEF FrameInv, InFlight, Streams

LEMMA AnswerUntouched ==
  ASSUME AnswerInv, UNCHANGED <<kind, json, final, acc, result, ended, answer>>,
         main' = "end" => main = "end",
         ended = "done" => UNCHANGED <<main, waiter>>
  PROVE  AnswerInv'
  BY DEF AnswerInv, AnswerIsFinal

(* An event of a line is one of those the handler knows.                    *)
LEMMA EventType ==
  ASSUME kind \in {"codex", "claude"}, NEW l \in Features PROVE Event(l) \in EventKinds
  BY DEF Event, codexEvent, claudeEvent, EventKinds, Features

-----------------------------------------------------------------------------
(* The process *)

(* The command is not found, ...                                           *)
LEMMA StartFailsKeeps == ASSUME IInv, StartFails PROVE IInv'
<1> USE DEF IInv, StartFails, procVars, readVars, chanVars
<1>1. TypeOK'
  BY DEF TypeOK, ProcType, ReadType, ChanType, MainType
<1>2. StageInv'
  BY DEF StageInv, Over
<1>3. FrameInv'
  BY FramesUntouched
<1>4. AnswerInv'
  BY DEF AnswerInv, AnswerIsFinal
<1> QED BY <1>1, <1>2, <1>3, <1>4

(* ... or the process starts.                                               *)
LEMMA StartKeeps == ASSUME IInv, Start PROVE IInv'
<1> USE DEF IInv, Start, readVars, chanVars
<1>1. TypeOK'
  BY DEF TypeOK, ProcType, ReadType, ChanType, MainType
<1>2. StageInv'
  BY DEF StageInv, Over
<1>3. FrameInv'
  BY FramesUntouched
<1>4. AnswerInv'
  BY AnswerUntouched DEF AnswerInv
<1> QED BY <1>1, <1>2, <1>3, <1>4

(* What the process writes is in its pipe.                                  *)
LEMMA WritesKeep ==
  ASSUME IInv, WriteErr \/ \E l \in Lines : WriteOut(l) PROVE IInv'
<1> USE DEF IInv
<1>1. UNCHANGED <<kind, json, proc, procErr, final, ctx, closed, rd, seq, frames, sent>>
  BY DEF WriteErr, WriteOut
<1>2. UNCHANGED chanVars /\ UNCHANGED mainVars
  BY DEF WriteErr, WriteOut
<1>3. /\ pipe' \in [Streams -> Seq(Item)]
      /\ wrote' \in [out : Nat, err : Nat, all : Text, msg : Text]
  <2>1. CASE WriteErr
    <3>1. [ev |-> "reasoning", text |-> <<>>] \in Item
      BY DEF Item, EventKinds, Text
    <3>2. Append(pipe["err"], [ev |-> "reasoning", text |-> <<>>]) \in Seq(Item)
      BY <3>1 DEF TypeOK, ReadType, Streams
    <3>3. /\ pipe' = [pipe EXCEPT !["err"] = Append(@, [ev |-> "reasoning", text |-> <<>>])]
          /\ wrote' = [wrote EXCEPT !.err = @ + 1]
      BY <2>1 DEF WriteErr
    <3>4. pipe' \in [Streams -> Seq(Item)]
      BY <3>2, <3>3 DEF TypeOK, ReadType
    <3>5. wrote' \in [out : Nat, err : Nat, all : Text, msg : Text]
      BY <3>3 DEF TypeOK, ProcType
    <3> QED BY <3>4, <3>5
  <2>2. ASSUME NEW l \in Lines, WriteOut(l)
        PROVE  /\ pipe' \in [Streams -> Seq(Item)]
               /\ wrote' \in [out : Nat, err : Nat, all : Text, msg : Text]
    <3> DEFINE Put(text, all, msg) ==
          /\ pipe' = [pipe EXCEPT !["out"] = Append(@, [ev |-> Event(l), text |-> text])]
          /\ wrote' = [out |-> wrote.out + 1, err |-> wrote.err, all |-> all, msg |-> msg]
    <3>1. Event(l) \in EventKinds
      BY EventType, PipelineAssumption DEF TypeOK, ProcType
    <3>2. ASSUME NEW text \in Text, NEW all \in Text, NEW msg \in Text, Put(text, all, msg)
          PROVE  /\ pipe' \in [Streams -> Seq(Item)]
                 /\ wrote' \in [out : Nat, err : Nat, all : Text, msg : Text]
      <4>1. [ev |-> Event(l), text |-> text] \in Item
        BY <3>1 DEF Item
      <4>2. Append(pipe["out"], [ev |-> Event(l), text |-> text]) \in Seq(Item)
        BY <4>1 DEF TypeOK, ReadType, Streams
      <4>3. pipe' \in [Streams -> Seq(Item)]
        BY <3>2, <4>2 DEF TypeOK, ReadType
      <4>4. wrote' \in [out : Nat, err : Nat, all : Text, msg : Text]
        BY <3>2 DEF TypeOK, ProcType
      <4> QED BY <4>3, <4>4
    <3>3. \E text, all, msg \in Text : Put(text, all, msg)
      <4>1. wrote.all \in Text /\ wrote.msg \in Text
        BY DEF TypeOK, ProcType
      <4> DEFINE piece == Len(wrote.all) + 1
      <4>2. piece \in Nat
        BY <4>1 DEF Text
      <4> HIDE DEF piece
      <4>3. /\ <<>> \in Text /\ <<piece>> \in Text
            /\ Append(wrote.all, piece) \in Text /\ Append(wrote.msg, piece) \in Text
        BY <4>1, <4>2 DEF Text
      <4>4. \/ Put(<<piece>>, Append(wrote.all, piece), <<piece>>)
            \/ Put(Append(wrote.msg, piece), Append(wrote.all, piece), Append(wrote.msg, piece))
            \/ Put(wrote.msg, wrote.all, wrote.msg)
            \/ Put(<<>>, wrote.all, wrote.msg)
        BY <2>2 DEF WriteOut, piece
      <4> HIDE DEF Put
      <4> QED BY <4>1, <4>3, <4>4
    <3> HIDE DEF Put
    <3> QED BY <3>2, <3>3
  <2> QED BY <2>1, <2>2
<1>4. TypeOK'
  BY <1>1, <1>2, <1>3 DEF TypeOK, ProcType, ReadType, ChanType, MainType, chanVars, mainVars
<1>5. StageInv'
  BY <1>1, <1>2 DEF StageInv, Over, chanVars, mainVars
<1>6. FrameInv'
  BY <1>1, FramesUntouched
<1>7. AnswerInv'
  BY <1>1, <1>2, AnswerUntouched DEF chanVars, mainVars
<1> QED BY <1>4, <1>5, <1>6, <1>7

(* No handler has looked at the last message while the process runs.        *)
LEMMA ExitKeeps == ASSUME IInv, Exit PROVE IInv'
<1> USE DEF IInv
<1>1. /\ proc = "running" /\ proc' = "exited" /\ procErr' \in BOOLEAN
      /\ UNCHANGED <<kind, json, wrote, ctx, readVars, chanVars, mainVars>>
  BY DEF Exit
<1>2. final' \in [text : Text, isJSON : BOOLEAN] /\ (final'.isJSON => final'.text # <<>>)
  <2>1. CASE final' = final
    BY <2>1 DEF TypeOK, ProcType, AnswerInv
  <2>2. CASE \E t \in {<<>>, wrote.all, wrote.msg}, j \in BOOLEAN :
               final' = [text |-> t, isJSON |-> j /\ t # <<>>]
    <3>1. PICK t \in {<<>>, wrote.all, wrote.msg}, j \in BOOLEAN :
            final' = [text |-> t, isJSON |-> j /\ t # <<>>]
      BY <2>2
    <3>2. <<>> \in Text
      BY DEF Text
    <3>3. t \in Text
      BY <3>1, <3>2 DEF TypeOK, ProcType
    <3> QED BY <3>1, <3>3
  <2> QED BY <2>1, <2>2 DEF Exit
<1>3. TypeOK'
  BY <1>1, <1>2 DEF TypeOK, ProcType, ReadType, ChanType, MainType, readVars, chanVars, mainVars
<1>4. StageInv'
  BY <1>1 DEF StageInv, Over, readVars, chanVars, mainVars
<1>5. FrameInv'
  BY <1>1, FramesUntouched DEF readVars
<1>6. AnswerInv'
  BY <1>1, <1>2 DEF AnswerInv, AnswerIsFinal, StageInv, chanVars, mainVars
<1> QED BY <1>3, <1>4, <1>5, <1>6

(* A stop, while the handler is on its way, ...                              *)
LEMMA StopKeeps == ASSUME IInv, Stop PROVE IInv'
<1> USE DEF IInv
<1>1. /\ main # "returned" /\ ctx' = TRUE
      /\ UNCHANGED <<kind, json, proc, procErr, wrote, final>>
      /\ UNCHANGED readVars /\ UNCHANGED chanVars /\ UNCHANGED mainVars
  BY DEF Stop, procVars
<1>2. TypeOK'
  BY <1>1 DEF TypeOK, ProcType, ReadType, ChanType, MainType, readVars, chanVars, mainVars
<1>3. StageInv'
  BY <1>1 DEF StageInv, Over, readVars, chanVars, mainVars
<1>4. FrameInv'
  BY <1>1, FramesUntouched DEF readVars
<1>5. AnswerInv'
  BY <1>1, AnswerUntouched DEF chanVars, mainVars
<1> QED BY <1>2, <1>3, <1>4, <1>5

(* ... and the kill that follows it.                                        *)
LEMMA CancelKeeps == ASSUME IInv, Cancel PROVE IInv'
<1> USE DEF IInv
<1>1. /\ proc = "running" /\ proc' = "exited" /\ procErr' \in BOOLEAN
      /\ UNCHANGED <<kind, json, wrote, final, ctx>>
      /\ UNCHANGED readVars /\ UNCHANGED chanVars /\ UNCHANGED mainVars
  BY DEF Cancel
<1>2. TypeOK'
  BY <1>1 DEF TypeOK, ProcType, ReadType, ChanType, MainType, readVars, chanVars, mainVars
<1>3. StageInv'
  BY <1>1 DEF StageInv, Over, readVars, chanVars, mainVars
<1>4. FrameInv'
  BY <1>1, FramesUntouched DEF readVars
<1>5. AnswerInv'
  BY <1>1, AnswerUntouched DEF chanVars, mainVars
<1> QED BY <1>2, <1>3, <1>4, <1>5

-----------------------------------------------------------------------------
(* The readers *)

(* A line taken from a pipe waits for its number; no line is on its way to  *)
(* the handler of a process that did not start.                             *)
LEMMA ReadKeeps == ASSUME IInv, NEW s \in Streams, Read(s) PROVE IInv'
<1> USE DEF IInv
<1>1. /\ rd[s].st = "read" /\ proc # "none" /\ pipe[s] # <<>>
      /\ pipe' = [pipe EXCEPT ![s] = Tail(@)]
      /\ \/ rd' = rd
         \/ rd' = [rd EXCEPT ![s] = [st |-> "number", line |-> Head(pipe[s]), n |-> 0]]
      /\ UNCHANGED <<closed, seq, frames, sent>>
      /\ ~closed /\ ctx' = ctx
      /\ UNCHANGED procVars /\ UNCHANGED chanVars /\ UNCHANGED mainVars
  BY DEF Read
<1>2. pipe[s] \in Seq(Item) /\ Head(pipe[s]) \in Item /\ Tail(pipe[s]) \in Seq(Item)
  BY <1>1 DEF TypeOK, ReadType
<1>3. pipe' \in [Streams -> Seq(Item)]
  BY <1>1, <1>2 DEF TypeOK, ReadType
<1>4. rd' \in [Streams -> [st : {"read", "number", "frame", "handle", "over"},
                           line : Item, n : Nat]]
  <2>1. [st |-> "number", line |-> Head(pipe[s]), n |-> 0]
          \in [st : {"read", "number", "frame", "handle", "over"}, line : Item, n : Nat]
    BY <1>2
  <2>2. rd \in [Streams -> [st : {"read", "number", "frame", "handle", "over"},
                            line : Item, n : Nat]]
    BY DEF TypeOK, ReadType
  <2>3. CASE rd' = rd
    BY <2>2, <2>3
  <2>4. CASE rd' = [rd EXCEPT ![s] = [st |-> "number", line |-> Head(pipe[s]), n |-> 0]]
    BY <2>1, <2>2, <2>4
  <2> QED BY <1>1, <2>3, <2>4
<1>5. TypeOK'
  BY <1>1, <1>3, <1>4 DEF TypeOK, ProcType, ReadType, ChanType, MainType, procVars, chanVars, mainVars
<1>6. \A r \in Streams : /\ rd'[r].st = "frame" \/ rd[r].st = "frame"
                              => rd'[r].st = rd[r].st /\ rd'[r].n = rd[r].n
                         /\ rd[r].st = "over" => rd'[r].st = "over"
  <2>1. CASE rd' = rd
    BY <2>1
  <2>2. CASE rd' = [rd EXCEPT ![s] = [st |-> "number", line |-> Head(pipe[s]), n |-> 0]]
    <3>1. rd'[s].st = "number" /\ \A r \in Streams \ {s} : rd'[r] = rd[r]
      BY <2>2 DEF TypeOK, ReadType
    <3> QED BY <1>1, <3>1
  <2> QED BY <1>1, <2>1, <2>2
<1>7. StageInv'
  BY <1>1, <1>6 DEF StageInv, Over, procVars, chanVars, mainVars
<1>8. FrameInv'
  BY <1>1, <1>6, FramesUntouched
<1>9. AnswerInv'
  BY <1>1, AnswerUntouched DEF procVars, chanVars, mainVars
<1> QED BY <1>5, <1>7, <1>8, <1>9

(* The end of a pipe, or a line too long for the reader.                    *)
LEMMA ReadEndKeeps == ASSUME IInv, NEW s \in Streams, ReadEnd(s) PROVE IInv'
<1> USE DEF IInv
<1>1. /\ rd[s].st = "read" /\ proc # "none"
      /\ rd' = [rd EXCEPT ![s] = [st |-> "over", line |-> NoLine, n |-> 0]]
      /\ UNCHANGED <<pipe, closed, seq, frames, sent, ctx>>
      /\ UNCHANGED procVars /\ UNCHANGED chanVars /\ UNCHANGED mainVars
  <2>1. [Reading EXCEPT !.st = "over"] = [st |-> "over", line |-> NoLine, n |-> 0]
    BY DEF Reading
  <2>2. proc # "none"
    BY DEF ReadEnd, TooLong, StageInv
  <2> QED BY <2>1, <2>2 DEF ReadEnd
<1>2. NoLine \in Item
  BY DEF NoLine, Item, EventKinds, Text
<1>3. rd' \in [Streams -> [st : {"read", "number", "frame", "handle", "over"},
                           line : Item, n : Nat]]
  BY <1>1, <1>2 DEF TypeOK, ReadType
<1>4. TypeOK'
  BY <1>1, <1>3 DEF TypeOK, ProcType, ReadType, ChanType, MainType, procVars, chanVars, mainVars
<1>5. \A r \in Streams : /\ rd'[r].st = "frame" \/ rd[r].st = "frame"
                              => rd'[r].st = rd[r].st /\ rd'[r].n = rd[r].n
                         /\ rd[r].st = "over" => rd'[r].st = "over"
  BY <1>1 DEF TypeOK, ReadType
<1>6. StageInv'
  BY <1>1, <1>5 DEF StageInv, Over, procVars, chanVars, mainVars
<1>7. FrameInv'
  BY <1>1, <1>5, FramesUntouched
<1>8. AnswerInv'
  BY <1>1, AnswerUntouched DEF procVars, chanVars, mainVars
<1> QED BY <1>4, <1>6, <1>7, <1>8

(* A number is given out once: it is above those sent and the one the other *)
(* reader holds.                                                            *)
LEMMA EmitKeeps == ASSUME IInv, NEW s \in Streams, Emit(s) PROVE IInv'
<1> USE DEF IInv
<1>1. /\ rd[s].st = "number"
      /\ UNCHANGED <<pipe, closed, frames, sent, ctx>>
      /\ UNCHANGED procVars /\ UNCHANGED chanVars /\ UNCHANGED mainVars
  BY DEF Emit
<1>2. \/ rd' = [rd EXCEPT ![s].st = "handle"] /\ seq' = seq
      \/ rd' = [rd EXCEPT ![s] = [st |-> "frame", line |-> @.line, n |-> seq]] /\ seq' = seq + 1
  BY DEF Emit
<1>3. proc # "none"
  BY <1>1 DEF StageInv
<1>4. seq' \in Nat /\ rd' \in [Streams -> [st : {"read", "number", "frame", "handle", "over"},
                                           line : Item, n : Nat]]
  <2>1. /\ rd \in [Streams -> [st : {"read", "number", "frame", "handle", "over"},
                               line : Item, n : Nat]]
        /\ seq \in Nat
    BY DEF TypeOK, ReadType
  <2>2. CASE rd' = [rd EXCEPT ![s].st = "handle"] /\ seq' = seq
    BY <2>1, <2>2
  <2>3. CASE /\ rd' = [rd EXCEPT ![s] = [st |-> "frame", line |-> @.line, n |-> seq]]
             /\ seq' = seq + 1
    <3>1. [st |-> "frame", line |-> rd[s].line, n |-> seq]
            \in [st : {"read", "number", "frame", "handle", "over"}, line : Item, n : Nat]
      BY <2>1
    <3> QED BY <2>1, <2>3, <3>1
  <2> QED BY <1>2, <2>2, <2>3
<1>5. TypeOK'
  BY <1>1, <1>4 DEF TypeOK, ProcType, ReadType, ChanType, MainType, procVars, chanVars, mainVars
<1>6. \A r \in Streams : rd[r].st = "over" => rd'[r].st = "over"
  BY <1>1, <1>2 DEF TypeOK, ReadType
<1>7. StageInv'
  BY <1>1, <1>3, <1>6 DEF StageInv, Over, procVars, chanVars, mainVars
<1>8. FrameInv'
  <2>1. CASE rd' = [rd EXCEPT ![s].st = "handle"] /\ seq' = seq
    <3>1. \A r \in Streams : rd'[r].st = "frame" \/ rd[r].st = "frame"
                               => rd'[r].st = rd[r].st /\ rd'[r].n = rd[r].n
      BY <1>1, <2>1 DEF TypeOK, ReadType
    <3> QED BY <1>1, <2>1, <3>1, FramesUntouched
  <2>2. CASE /\ rd' = [rd EXCEPT ![s] = [st |-> "frame", line |-> @.line, n |-> seq]]
             /\ seq' = seq + 1
    <3>1. rd'[s].st = "frame" /\ rd'[s].n = seq
      BY <2>2 DEF TypeOK, ReadType
    <3>2. \A r \in Streams \ {s} : rd'[r] = rd[r]
      BY <2>2 DEF TypeOK, ReadType
    <3>3. seq \in Nat /\ sent \in Nat
      BY DEF TypeOK, ReadType
    <3>4. /\ \A r \in Streams : rd'[r].st = "frame" => rd'[r].n < seq'
          /\ rd'["out"].st = "frame" /\ rd'["err"].st = "frame" => rd'["out"].n # rd'["err"].n
      BY <2>2, <3>1, <3>2, <3>3 DEF FrameInv, Streams, TypeOK, ReadType
    <3>5. \A n \in Nat : n \in frames' <=>
                           /\ n < seq'
                           /\ ~\E r \in Streams : rd'[r].st = "frame" /\ rd'[r].n = n
      <4> SUFFICES ASSUME NEW n \in Nat
                   PROVE  n \in frames' <=>
                            /\ n < seq'
                            /\ ~\E r \in Streams : rd'[r].st = "frame" /\ rd'[r].n = n
        OBVIOUS
      <4>1. n \in frames <=> /\ n < seq
                             /\ ~\E r \in Streams : rd[r].st = "frame" /\ rd[r].n = n
        BY DEF FrameInv
      <4>2. n < seq' <=> n < seq \/ n = seq
        BY <2>2, <3>3
      <4>3. (\E r \in Streams : rd'[r].st = "frame" /\ rd'[r].n = n)
              <=> n = seq \/ \E r \in Streams : rd[r].st = "frame" /\ rd[r].n = n
        BY <1>1, <3>1, <3>2
      <4>4. ~(n < seq /\ n = seq)
        BY <3>3
      <4> QED BY <1>1, <4>1, <4>2, <4>3, <4>4
    <3>6. seq' = sent' + InFlight("out")' + InFlight("err")'
      BY <1>1, <2>2, <3>1, <3>2, <3>3 DEF FrameInv, InFlight, Streams
    <3> QED BY <3>4, <3>5, <3>6 DEF FrameInv
  <2> QED BY <1>2, <2>1, <2>2
<1>9. AnswerInv'
  BY <1>1, AnswerUntouched DEF procVars, chanVars, mainVars
<1> QED BY <1>5, <1>7, <1>8, <1>9

(* A frame that is sent is no longer in flight.                             *)
LEMMA SendFrameKeeps == ASSUME IInv, NEW s \in Streams, SendFrame(s) PROVE IInv'
<1> USE DEF IInv
<1>1. /\ rd[s].st = "frame"
      /\ frames' = frames \cup {rd[s].n} /\ sent' = sent + 1
      /\ rd' = [rd EXCEPT ![s].st = "handle"]
      /\ UNCHANGED <<pipe, closed, seq, ctx>>
      /\ UNCHANGED procVars /\ UNCHANGED chanVars /\ UNCHANGED mainVars
  BY DEF SendFrame
<1>2. proc # "none"
  BY <1>1 DEF StageInv
<1>3. rd[s].n \in Nat /\ rd' \in [Streams -> [st : {"read", "number", "frame", "handle", "over"},
                                              line : Item, n : Nat]]
  BY <1>1 DEF TypeOK, ReadType
<1>4. TypeOK'
  BY <1>1, <1>3 DEF TypeOK, ProcType, ReadType, ChanType, MainType, procVars, chanVars, mainVars
<1>5. /\ rd'[s].st = "handle"
      /\ \A r \in Streams \ {s} : rd'[r] = rd[r]
  BY <1>1 DEF TypeOK, ReadType
<1>6. \A r \in Streams : rd[r].st = "over" => rd'[r].st = "over"
  BY <1>1, <1>5
<1>7. StageInv'
  BY <1>1, <1>2, <1>6 DEF StageInv, Over, procVars, chanVars, mainVars
<1>8. FrameInv'
  <2>1. seq \in Nat /\ sent \in Nat
    BY DEF TypeOK, ReadType
  <2> QED BY <1>1, <1>3, <1>5, <2>1 DEF FrameInv, InFlight, Streams
<1>9. AnswerInv'
  BY <1>1, AnswerUntouched DEF procVars, chanVars, mainVars
<1> QED BY <1>4, <1>7, <1>8, <1>9

(* An event that is pushed is the handler's.                                *)
LEMMA PushKeeps == ASSUME IInv, NEW s \in Streams, Push(s) PROVE IInv'
<1> USE DEF IInv
<1>1. /\ rd[s].st = "handle"
      /\ events' = Append(events, rd[s].line)
      /\ rd' = [rd EXCEPT ![s] = Reading]
      /\ UNCHANGED <<pipe, closed, seq, frames, sent, ctx, evOpen, waiter>>
      /\ UNCHANGED procVars /\ UNCHANGED mainVars
  BY DEF Push
<1>2. proc # "none"
  BY <1>1 DEF StageInv
<1>3. Reading \in [st : {"read", "number", "frame", "handle", "over"}, line : Item, n : Nat]
  BY DEF Reading, NoLine, Item, EventKinds, Text
<1>4. rd' \in [Streams -> [st : {"read", "number", "frame", "handle", "over"},
                           line : Item, n : Nat]]
  BY <1>1, <1>3 DEF TypeOK, ReadType
<1>5. events' \in Seq(Item)
  BY <1>1 DEF TypeOK, ReadType, ChanType
<1>6. TypeOK'
  BY <1>1, <1>4, <1>5 DEF TypeOK, ProcType, ReadType, ChanType, MainType, procVars, mainVars
<1>7. \A r \in Streams : /\ rd'[r].st = "frame" \/ rd[r].st = "frame"
                              => rd'[r].st = rd[r].st /\ rd'[r].n = rd[r].n
                         /\ rd[r].st = "over" => rd'[r].st = "over"
  BY <1>1 DEF TypeOK, ReadType, Reading
<1>8. StageInv'
  BY <1>1, <1>2, <1>7 DEF StageInv, Over, procVars, mainVars
<1>9. FrameInv'
  BY <1>1, <1>7, FramesUntouched
<1>10. AnswerInv'
  BY <1>1, AnswerUntouched DEF procVars, mainVars
<1> QED BY <1>6, <1>8, <1>9, <1>10

(* A line of Claude is handled before the reader is over, and so before the *)
(* wait is.                                                                 *)
LEMMA ProcessLineKeeps == ASSUME IInv, NEW s \in Streams, ProcessLine(s) PROVE IInv'
<1> USE DEF IInv
<1>1. /\ kind = "claude" /\ rd[s].st = "handle"
      /\ rd' = [rd EXCEPT ![s] = Reading]
      /\ UNCHANGED <<pipe, closed, seq, frames, sent, ctx, main, failedTurn, seenTool, ended, answer>>
      /\ UNCHANGED procVars /\ UNCHANGED chanVars
  BY DEF ProcessLine
<1>2. waiter # "done" /\ proc # "none"
  BY <1>1 DEF StageInv, Over
<1>3. Reading \in [st : {"read", "number", "frame", "handle", "over"}, line : Item, n : Nat]
  BY DEF Reading, NoLine, Item, EventKinds, Text
<1>4. rd' \in [Streams -> [st : {"read", "number", "frame", "handle", "over"},
                           line : Item, n : Nat]]
  BY <1>1, <1>3 DEF TypeOK, ReadType
<1>5. last' \in Text /\ acc' \in Text /\ result' \in Text /\ thinking' \in BOOLEAN
  <2> DEFINE l == rd[s].line
             chunk == IF last # <<>> /\ IsPrefix(last, l.text)
                      THEN SubSeq(l.text, Len(last) + 1, Len(l.text)) ELSE l.text
  <2>1. l.text \in Text /\ last \in Text /\ acc \in Text /\ result \in Text
    BY DEF TypeOK, ReadType, MainType, Item
  <2>2. SubSeq(l.text, Len(last) + 1, Len(l.text)) \in Text
    <3> DEFINE m == Len(last) + 1
               n == Len(l.text)
               t == l.text
    <3>1. t \in Seq(Nat) /\ m \in Int /\ n \in Int /\ m >= 1
      BY <2>1 DEF Text
    <3>2. \A i \in m..n : t[i] \in Nat
      <4>1. \A i \in m..n : i \in 1..Len(t)
        BY <3>1
      <4> QED BY <3>1, <4>1
    <3> HIDE DEF m, n, t
    <3>3. SubSeq(t, m, n) \in Seq(Nat)
      BY <3>1, <3>2, SubSeqProperties
    <3> QED BY <3>3 DEF m, n, t, Text
  <2>3. chunk \in Text
    BY <2>1, <2>2
  <2>4. acc \o chunk \in Text
    <3> HIDE DEF chunk
    <3> QED BY <2>1, <2>3 DEF Text
  <2>5. /\ last' = IF l.ev = "response" THEN l.text ELSE last
        /\ acc' = IF l.ev = "response" /\ ~ctx THEN acc \o chunk ELSE acc
        /\ result' = IF l.ev \in {"result", "result_error"} /\ l.text # <<>> THEN l.text ELSE result
        /\ thinking' = (thinking \/ l.ev \in {"reasoning", "tool_call", "tool_result", "result_error"})
    BY DEF ProcessLine
  <2> HIDE DEF chunk, l
  <2>6. thinking' \in BOOLEAN
    BY <2>5
  <2> QED BY <2>1, <2>4, <2>5, <2>6
<1>6. TypeOK'
  BY <1>1, <1>4, <1>5 DEF TypeOK, ProcType, ReadType, ChanType, MainType, procVars, chanVars
<1>7. \A r \in Streams : /\ rd'[r].st = "frame" \/ rd[r].st = "frame"
                              => rd'[r].st = rd[r].st /\ rd'[r].n = rd[r].n
                         /\ rd[r].st = "over" => rd'[r].st = "over"
  BY <1>1 DEF TypeOK, ReadType, Reading
<1>8. StageInv'
  BY <1>1, <1>2, <1>7 DEF StageInv, Over, procVars, chanVars
<1>9. FrameInv'
  BY <1>1, <1>7, FramesUntouched
<1>10. AnswerInv'
  BY <1>1, <1>2 DEF AnswerInv, AnswerIsFinal, procVars, chanVars
<1> QED BY <1>6, <1>8, <1>9, <1>10

-----------------------------------------------------------------------------
(* The wait *)

(* The pipes are closed once the process is gone, ...                       *)
LEMMA WaitKeeps == ASSUME IInv, Wait PROVE IInv'
<1> USE DEF IInv
<1>1. /\ proc = "exited" /\ waiter = "process" /\ closed' = TRUE /\ waiter' = "readers"
      /\ UNCHANGED <<pipe, rd, seq, frames, sent, events, evOpen, ctx>>
      /\ UNCHANGED procVars /\ UNCHANGED mainVars
  BY DEF Wait
<1>2. TypeOK'
  BY <1>1 DEF TypeOK, ProcType, ReadType, ChanType, MainType, procVars, mainVars
<1>3. StageInv'
  BY <1>1 DEF StageInv, Over, procVars, mainVars
<1>4. FrameInv'
  BY <1>1, FramesUntouched
<1>5. AnswerInv'
  BY <1>1 DEF AnswerInv, AnswerIsFinal, procVars, mainVars
<1> QED BY <1>2, <1>3, <1>4, <1>5

(* ... and the channel when both readers are over.                          *)
LEMMA JoinKeeps == ASSUME IInv, Join PROVE IInv'
<1> USE DEF IInv
<1>1. /\ waiter = "readers" /\ \A s \in Streams : Over(s)
      /\ waiter' = "done" /\ evOpen' = FALSE
      /\ UNCHANGED <<events, ctx>>
      /\ UNCHANGED procVars /\ UNCHANGED readVars /\ UNCHANGED mainVars
  <2> USE DEF Join
  <2>1. waiter = "readers" /\ (\A s \in Streams : Over(s)) /\ waiter' = "done" /\ evOpen' = FALSE
    OBVIOUS
  <2>2. UNCHANGED <<events, ctx>> /\ UNCHANGED procVars /\ UNCHANGED readVars /\ UNCHANGED mainVars
    OBVIOUS
  <2> QED BY <2>1, <2>2
<1>2. TypeOK'
  <2>1. ProcType' /\ ReadType' /\ MainType'
    BY <1>1 DEF TypeOK, ProcType, ReadType, MainType, procVars, readVars, mainVars
  <2>2. evOpen' \in BOOLEAN
    BY <1>1
  <2>3. ChanType' /\ (ctx \in BOOLEAN)'
    BY <1>1, <2>2 DEF TypeOK, ChanType
  <2> QED BY <2>1, <2>3 DEF TypeOK
<1>3. StageInv'
  BY <1>1 DEF StageInv, Over, procVars, readVars, mainVars
<1>4. FrameInv'
  BY <1>1, FramesUntouched DEF readVars
<1>5. AnswerInv'
  BY <1>1 DEF AnswerInv, AnswerIsFinal, procVars, mainVars
<1> QED BY <1>2, <1>3, <1>4, <1>5

-----------------------------------------------------------------------------
(* The handler *)

(* It returns from its loop only because of a stop.                         *)
LEMMA ConsumeKeeps == ASSUME IInv, Consume PROVE IInv'
<1> USE DEF IInv
<1>1. /\ kind = "codex" /\ main = "loop" /\ events # <<>> /\ events' = Tail(events)
      /\ UNCHANGED <<evOpen, waiter, ctx, last, result, ended, answer>>
      /\ UNCHANGED procVars /\ UNCHANGED readVars
  BY DEF Consume
<1>2. events' \in Seq(Item) /\ Head(events).text \in Text
  <2>1. events' \in Seq(Item) /\ Head(events) \in Item
    BY <1>1 DEF TypeOK, ChanType
  <2> QED BY <2>1 DEF Item
<1>3. \/ /\ main' = "returned" /\ ctx
         /\ UNCHANGED <<acc, thinking, failedTurn, seenTool>>
      \/ /\ main' = main
         /\ acc' = acc \o Head(events).text
         /\ thinking' \in BOOLEAN /\ failedTurn' \in BOOLEAN /\ seenTool' \in BOOLEAN
  <2>1. CASE Return /\ ctx
    BY <2>1 DEF Return
  <2>2. CASE ~(Return /\ ctx)
    BY <2>2 DEF Consume
  <2> QED BY <2>1, <2>2
<1>4. main' \in {"loop", "returned"} /\ acc' \in Text
      /\ {thinking', failedTurn', seenTool'} \subseteq BOOLEAN
  <2>1. acc \in Text /\ {thinking, failedTurn, seenTool} \subseteq BOOLEAN
    BY DEF TypeOK, MainType
  <2>2. acc \o Head(events).text \in Text
    BY <1>2, <2>1 DEF Text
  <2>3. main' \in {"loop", "returned"}
    BY <1>1, <1>3
  <2>4. acc' \in Text
    BY <1>3, <2>1, <2>2
  <2>5. {thinking', failedTurn', seenTool'} \subseteq BOOLEAN
    BY <1>3, <2>1
  <2> QED BY <2>3, <2>4, <2>5
<1>5. TypeOK'
  BY <1>1, <1>2, <1>4 DEF TypeOK, ProcType, ReadType, ChanType, MainType, procVars, readVars
<1>6. StageInv'
  BY <1>1, <1>3 DEF StageInv, Over, procVars, readVars
<1>7. FrameInv'
  BY <1>1, FramesUntouched DEF readVars
<1>8. AnswerInv'
  BY <1>1, <1>4 DEF AnswerInv, AnswerIsFinal, procVars
<1> QED BY <1>5, <1>6, <1>7, <1>8

(* The loop ends when the wait does.                                        *)
LEMMA LoopEndsKeeps == ASSUME IInv, LoopEnds PROVE IInv'
<1> USE DEF IInv
<1>1. /\ main = "loop" /\ waiter = "done"
      /\ main' = (IF kind = "codex" THEN "last" ELSE "flush")
      /\ UNCHANGED <<acc, last, result, thinking, failedTurn, seenTool, ended, answer, ctx>>
      /\ UNCHANGED procVars /\ UNCHANGED readVars /\ UNCHANGED chanVars
  BY DEF LoopEnds
<1>2. TypeOK'
  BY <1>1 DEF TypeOK, ProcType, ReadType, ChanType, MainType, procVars, readVars, chanVars
<1>3. StageInv'
  BY <1>1 DEF StageInv, Over, TypeOK, ProcType, procVars, readVars, chanVars
<1>4. FrameInv'
  BY <1>1, FramesUntouched DEF readVars
<1>5. AnswerInv'
  BY <1>1 DEF AnswerInv, AnswerIsFinal, procVars, chanVars
<1> QED BY <1>2, <1>3, <1>4, <1>5

(* The last message, and ...                                                *)
LEMMA ReadLastKeeps == ASSUME IInv, ReadLast PROVE IInv'
<1> USE DEF IInv
<1>1. /\ main = "last" /\ kind = "codex" /\ ended # "done" /\ waiter = "done"
      /\ UNCHANGED <<last, result, thinking, failedTurn, seenTool, ended, answer, ctx>>
      /\ UNCHANGED procVars /\ UNCHANGED readVars /\ UNCHANGED chanVars
  BY DEF ReadLast, StageInv, AnswerInv
<1>2. \/ main' = "end" /\ acc' = acc /\ final.text \in {<<>>, acc}
      \/ main' = "returned" /\ acc' = acc /\ ctx
      \/ main' = "end" /\ acc' = final.text
  BY DEF ReadLast
<1>3. acc' \in Text
  BY <1>2 DEF TypeOK, ProcType, MainType
<1>4. TypeOK'
  BY <1>1, <1>2, <1>3 DEF TypeOK, ProcType, ReadType, ChanType, MainType, procVars, readVars, chanVars
<1>5. StageInv'
  BY <1>1, <1>2 DEF StageInv, Over, procVars, readVars, chanVars
<1>6. FrameInv'
  BY <1>1, FramesUntouched DEF readVars
<1>7. AnswerInv'
  BY <1>1, <1>2 DEF AnswerInv, AnswerIsFinal, procVars, chanVars
<1> QED BY <1>4, <1>5, <1>6, <1>7

(* ... the result complete what was streamed.                               *)
LEMMA FlushKeeps == ASSUME IInv, flushFinalResponse PROVE IInv'
<1> USE DEF IInv
<1>1. /\ main = "flush" /\ kind = "claude" /\ ended # "done" /\ waiter = "done"
      /\ UNCHANGED <<last, result, thinking, failedTurn, seenTool, ended, answer, ctx>>
      /\ UNCHANGED procVars /\ UNCHANGED readVars /\ UNCHANGED chanVars
  BY DEF flushFinalResponse, StageInv, AnswerInv
<1>2. main' \in {"end", "returned"} /\ acc' \in {acc, result}
  BY DEF flushFinalResponse
<1>3. TypeOK'
  BY <1>1, <1>2 DEF TypeOK, ProcType, ReadType, ChanType, MainType, procVars, readVars, chanVars
<1>4. StageInv'
  BY <1>1, <1>2 DEF StageInv, Over, procVars, readVars, chanVars
<1>5. FrameInv'
  BY <1>1, FramesUntouched DEF readVars
<1>6. AnswerInv'
  BY <1>1, <1>2 DEF AnswerInv, AnswerIsFinal, procVars, chanVars
<1> QED BY <1>3, <1>4, <1>5, <1>6

(* The answer is chosen when the wait is over.                              *)
LEMMA FinishKeeps == ASSUME IInv, Finish PROVE IInv'
<1> USE DEF IInv
<1> DEFINE answers == IF kind = "codex" THEN codexFinalAnswer ELSE claudeAnswer
<1>1. /\ main = "end" /\ main' = "returned" /\ waiter = "done" /\ ended # "done"
      /\ UNCHANGED <<acc, last, result, thinking, failedTurn, seenTool, ctx>>
      /\ UNCHANGED procVars /\ UNCHANGED readVars /\ UNCHANGED chanVars
  BY DEF Finish, StageInv, AnswerInv
<1>2. \/ ended' = ended /\ answer' = answer
      \/ ended' = "error" /\ answer' = answer
      \/ ended' = "done" /\ answer' \in answers
  BY DEF Finish
<1>3. ASSUME NEW a \in answers
      PROVE  /\ a \in Text
             /\ kind = "codex" => /\ final.text # <<>> => a = final.text
                                  /\ json => final.isJSON
             /\ kind = "claude" => a = result \/ (a = acc /\ Len(acc) >= Len(result))
  <2>1. CASE kind = "codex"
    BY <1>1, <1>3, <2>1 DEF codexFinalAnswer, AnswerInv, TypeOK, ProcType, MainType
  <2>2. CASE kind = "claude"
    <3>1. a = LongerOf(result, acc)
      BY <1>3, <2>2 DEF claudeAnswer
    <3>2. acc \in Text /\ result \in Text /\ Len(acc) \in Nat /\ Len(result) \in Nat
      BY DEF TypeOK, MainType, Text
    <3> QED BY <2>2, <3>1, <3>2 DEF LongerOf
  <2> QED BY <2>1, <2>2 DEF TypeOK, ProcType
<1> HIDE DEF answers
<1>4. answer' \in Text /\ ended' \in {"none", "done", "error"}
  BY <1>2, <1>3 DEF TypeOK, MainType
<1>5. TypeOK'
  BY <1>1, <1>4 DEF TypeOK, ProcType, ReadType, ChanType, MainType, procVars, readVars, chanVars
<1>6. StageInv'
  BY <1>1 DEF StageInv, Over, procVars, readVars, chanVars
<1>7. FrameInv'
  BY <1>1, FramesUntouched DEF readVars
<1>8. AnswerInv'
  <2>1. AnswerIsFinal'
    BY <1>1, <1>2, <1>3 DEF AnswerIsFinal, TypeOK, ProcType, procVars
  <2> QED BY <1>1, <2>1 DEF AnswerInv, procVars, chanVars
<1> QED BY <1>5, <1>6, <1>7, <1>8

-----------------------------------------------------------------------------
(* The invariant *)

(* It holds before the process starts, ...                                  *)
LEMMA InitIInv == Init => IInv
<1> SUFFICES ASSUME Init PROVE IInv
  OBVIOUS
<1> USE DEF Init
<1>1. <<>> \in Text /\ <<>> \in Seq(Item) /\ Reading \in [st : {"read"}, line : Item, n : Nat]
  BY DEF Text, Reading, NoLine, Item, EventKinds
<1>2. TypeOK
  BY <1>1 DEF TypeOK, ProcType, ReadType, ChanType, MainType
<1>3. \A s \in Streams : rd[s].st = "read"
  BY DEF Reading
<1>4. StageInv
  BY <1>3 DEF StageInv
<1>5. FrameInv
  BY <1>3 DEF FrameInv, InFlight, Streams
<1>6. AnswerInv
  BY DEF AnswerInv, AnswerIsFinal
<1> QED BY <1>2, <1>4, <1>5, <1>6 DEF IInv

(* ... and every step keeps it.                                             *)
LEMMA NextIInv == IInv /\ [Next]_vars => IInv'
<1> SUFFICES ASSUME IInv, [Next]_vars PROVE IInv'
  OBVIOUS
<1>1. CASE Process
  BY <1>1, ExitKeeps, WritesKeep DEF Process
<1>2. CASE Stop \/ Cancel
  BY <1>2, StopKeeps, CancelKeeps
<1>3. CASE Waiter
  BY <1>3, WaitKeeps, JoinKeeps DEF Waiter
<1>4. CASE Handler
  BY <1>4, StartFailsKeeps, StartKeeps, ConsumeKeeps, LoopEndsKeeps, ReadLastKeeps, FlushKeeps,
     FinishKeeps DEF Handler
<1>5. ASSUME NEW s \in Streams, Reader(s) PROVE IInv'
  BY <1>5, ReadKeeps, ReadEndKeeps, EmitKeeps, SendFrameKeeps, PushKeeps, ProcessLineKeeps DEF Reader
<1>6. CASE UNCHANGED vars
  <2> USE <1>6 DEF IInv, vars, procVars, readVars, chanVars, mainVars
  <2>1. TypeOK'
    BY DEF TypeOK, ProcType, ReadType, ChanType, MainType
  <2>2. StageInv'
    BY DEF StageInv, Over
  <2>3. FrameInv'
    BY FramesUntouched
  <2>4. AnswerInv'
    BY AnswerUntouched
  <2> QED BY <2>1, <2>2, <2>3, <2>4
<1> QED BY <1>1, <1>2, <1>3, <1>4, <1>5, <1>6 DEF Next

(* The inductive invariant of every run of an executor.                     *)
THEOREM Invariance == Spec => []IInv
<1>1. Init => IInv
  BY InitIInv
<1>2. IInv /\ [Next]_vars => IInv'
  BY NextIInv
<1> QED BY <1>1, <1>2, PTL DEF Spec

(* Every variable stays in its type.                                        *)
THEOREM TypeCorrect == Spec => []TypeOK
<1>1. IInv => TypeOK
  BY DEF IInv
<1> QED BY <1>1, Invariance, PTL

(* Process and readers are gone when the handler has returned, but for a    *)
(* run of Codex that was stopped.                                           *)
THEOREM NoneLeftBehind == Spec => []NothingLeftBehind
<1>1. IInv => NothingLeftBehind
  BY DEF IInv, StageInv, NothingLeftBehind, TypeOK, ProcType
<1> QED BY <1>1, Invariance, PTL

(* The answer of a done is the last message, or all that was streamed.      *)
THEOREM AnswersAreFinal == Spec => []AnswerIsFinal
<1>1. IInv => AnswerIsFinal
  BY DEF IInv, AnswerInv
<1> QED BY <1>1, Invariance, PTL

(* With no reader at work every number that was given out was sent, once.   *)
THEOREM FramesAreContiguous == Spec => []FramesContiguous
<1>1. IInv => FramesContiguous
  <2> SUFFICES ASSUME IInv, main = "returned", ~ctx PROVE frames = 0..(sent - 1)
    BY DEF FramesContiguous
  <2>1. frames \subseteq Nat /\ seq \in Nat /\ sent \in Nat
    BY DEF IInv, TypeOK, ReadType
  <2>2. \A s \in Streams : rd[s].st # "frame"
    BY DEF IInv, StageInv, Over
  <2>3. seq = sent /\ \A n \in Nat : n \in frames <=> n < seq
    BY <2>1, <2>2 DEF IInv, FrameInv, InFlight, Streams
  <2>4. \A n : n \in 0..(sent - 1) <=> n \in Nat /\ n < sent
    BY <2>1
  <2> QED BY <2>1, <2>3, <2>4
<1> QED BY <1>1, Invariance, PTL
=============================================================================
