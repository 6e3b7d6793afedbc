--------------------------- MODULE ExecutorPipeline ---------------------------
(***************************************************************************)
(* One run of an executor: runCodexQAExec and runClaudeQAExec, with the     *)
(* frames of qa_terminal_output.go and the kill of process_group_unix.go.   *)
(*                                                                         *)
(* Two readers drain the pipes of a child process.  cmd.Wait closes the     *)
(* pipes when the process is gone, whether they are drained or not.  For    *)
(* Codex the readers push parsed events into a bounded channel, which the   *)
(* handler consumes; a goroutine of its own waits, for the process and then *)
(* for the readers, and closes the channel.  For Claude the readers handle  *)
(* the lines themselves, under a lock, and the handler waits.               *)
(*                                                                         *)
(* A text is the sequence of the pieces it is made of.                      *)
(***************************************************************************)
EXTENDS Integers, Sequences, SequencesExt

CONSTANTS Lines,    \* what a line on stdout can be, see Features
          EvCap,    \* capacity of events (64 in the code)
          PipeCap,  \* bound: lines a pipe holds
          MaxOut,   \* bound: lines on stdout
          MaxErr    \* bound: lines on stderr

(* A line, by what parseCodexExecJSONEvent and processLine look for.        *)
Features == [type : {"error", "turn_completed", "turn_failed", "item",
                     "assistant", "result", "junk"},
             failed : BOOLEAN, output : BOOLEAN, tool : BOOLEAN,
             text : {"none", "response", "reasoning"}]

ASSUME PipelineAssumption ==
  /\ Lines \subseteq Features
  /\ EvCap \in Nat \ {0} /\ PipeCap \in Nat \ {0} /\ MaxOut \in Nat /\ MaxErr \in Nat

VARIABLES kind,      \* the executor
          json,      \* req.RequireFinalJSON
          ctx,       \* the request was stopped
          proc, procErr,
          wrote,     \* [out, err] lines written, [all, msg] response text, in total
                     \* and of the current message
          final,     \* Codex: the last-message file; [text, isJSON]
          pipe, closed,
          rd,        \* the readers: state, line, number of its frame
          seq,       \* qaTerminalOutputEmitter.seq
          frames,    \* numbers of the frames sent
          sent,      \* how many frames were sent
          events, evOpen,
          waiter,    \* where in cmd.Wait, wg.Wait, close(events)
          main,      \* where the handler is
          acc,       \* the answer accumulated
          last,      \* Claude: lastText
          result,    \* Claude: finalResult
          thinking,  \* some thinking was accumulated
          failedTurn, seenTool,
          ended,     \* the ending sent, and its answer
          answer

procVars == <<kind, json, proc, procErr, wrote, final>>
readVars == <<pipe, closed, rd, seq, frames, sent>>
chanVars == <<events, evOpen, waiter>>
mainVars == <<main, acc, last, result, thinking, failedTurn, seenTool, ended, answer>>
vars == <<procVars, ctx, readVars, chanVars, mainVars>>

Streams == {"out", "err"}
NoLine  == [ev |-> "none", text |-> <<>>]
Reading == [st |-> "read", line |-> NoLine, n |-> 0]
Over(s) == rd[s].st = "over"

Init ==
  /\ kind \in {"codex", "claude"} /\ json \in BOOLEAN /\ (json => kind = "codex")
  /\ ctx = FALSE
  /\ proc = "none" /\ procErr = FALSE
  /\ wrote = [out |-> 0, err |-> 0, all |-> <<>>, msg |-> <<>>]
  /\ final = [text |-> <<>>, isJSON |-> FALSE]
  /\ pipe = [s \in Streams |-> <<>>] /\ closed = FALSE
  /\ rd = [s \in Streams |-> Reading]
  /\ seq = 0 /\ frames = {} /\ sent = 0
  /\ events = <<>> /\ evOpen = TRUE /\ waiter = "process"
  /\ main = "setup" /\ acc = <<>> /\ last = <<>> /\ result = <<>>
  /\ thinking = FALSE /\ failedTurn = FALSE /\ seenTool = FALSE
  /\ ended = "none" /\ answer = <<>>
-----------------------------------------------------------------------------
(* The parsers *)

(* parseCodexExecJSONEvent *)
codexEvent(l) ==
  CASE l.type = "junk" -> "none"
    [] l.type = "error" -> "executor_error"
    [] l.type = "turn_completed" -> IF l.failed THEN "turn_failed" ELSE "turn_done"
    [] l.type = "turn_failed" \/ l.failed -> "turn_failed"
    [] OTHER -> IF l.output THEN "tool_result"
                ELSE IF l.text # "none" THEN l.text
                ELSE IF l.tool THEN "tool_call" ELSE "none"

(* processLine, processAssistant, processContent: a line that is no JSON    *)
(* becomes thinking; other types change nothing.                            *)
claudeEvent(l) ==
  CASE l.type = "junk" -> "reasoning"
    [] l.type = "result" -> IF l.failed THEN "result_error" ELSE "result"
    [] l.type = "assistant" -> IF l.output THEN "tool_result" ELSE IF l.tool THEN "tool_call" ELSE l.text
    [] OTHER -> "none"

Event(l) == IF kind = "codex" THEN codexEvent(l) ELSE claudeEvent(l)
-----------------------------------------------------------------------------
(* The process *)

StartFails ==
  /\ main = "setup"
  /\ main' = "returned" /\ ended' = "error"
  /\ UNCHANGED <<procVars, ctx, readVars, chanVars, acc, last, result, thinking,
                 failedTurn, seenTool, answer>>

Start ==
  /\ main = "setup"
  /\ proc' = "running"
  /\ main' = "loop"
  /\ UNCHANGED <<kind, json, procErr, wrote, final, ctx, readVars, chanVars, acc, last,
                 result, thinking, failedTurn, seenTool, ended, answer>>

(* Text comes in pieces.  A line of Codex has one; a line of Claude repeats *)
(* its message so far, with a piece more, or starts another message; its    *)
(* result is the last message.                                              *)
WriteOut(l) ==
  LET piece == Len(wrote.all) + 1
      more  == Append(wrote.msg, piece)
      Put(text, all, msg) ==
        /\ pipe' = [pipe EXCEPT !["out"] = Append(@, [ev |-> Event(l), text |-> text])]
        /\ wrote' = [out |-> wrote.out + 1, err |-> wrote.err, all |-> all, msg |-> msg]
  IN /\ proc = "running" /\ wrote.out < MaxOut /\ Len(pipe["out"]) < PipeCap
     /\ CASE Event(l) = "response" ->
               \/ Put(<<piece>>, Append(wrote.all, piece), <<piece>>)
               \/ kind = "claude" /\ Put(more, Append(wrote.all, piece), more)
          [] Event(l) \in {"result", "result_error"} -> Put(wrote.msg, wrote.all, wrote.msg)
          [] OTHER -> Put(<<>>, wrote.all, wrote.msg)
     /\ UNCHANGED <<kind, json, proc, procErr, final, ctx, closed, rd, seq, frames, sent,
                    chanVars, mainVars>>

WriteErr ==
  /\ proc = "running" /\ wrote.err < MaxErr /\ Len(pipe["err"]) < PipeCap
  /\ pipe' = [pipe EXCEPT !["err"] = Append(@, [ev |-> "reasoning", text |-> <<>>])]
  /\ wrote' = [wrote EXCEPT !.err = @ + 1]
  /\ UNCHANGED <<kind, json, proc, procErr, final, ctx, closed, rd, seq, frames, sent,
                 chanVars, mainVars>>

(* Codex leaves its last message in a file, or none; it need not be all of  *)
(* what it streamed.                                                        *)
Exit ==
  /\ proc = "running"
  /\ proc' = "exited" /\ procErr' \in BOOLEAN
  /\ IF kind = "claude" THEN UNCHANGED final
     ELSE \E t \in {<<>>, wrote.all, wrote.msg}, j \in BOOLEAN :
            final' = [text |-> t, isJSON |-> j /\ t # <<>>]
  /\ UNCHANGED <<kind, json, wrote, ctx, readVars, chanVars, mainVars>>

Stop ==
  /\ ~ctx /\ main \notin {"setup", "returned"}
  /\ ctx' = TRUE
  /\ UNCHANGED <<procVars, readVars, chanVars, mainVars>>

(* cmd.Cancel kills the group, some time after the context is done. *)
Cancel ==
  /\ ctx /\ proc = "running"
  /\ proc' = "exited" /\ procErr' = TRUE
  /\ UNCHANGED <<kind, json, wrote, final, ctx, readVars, chanVars, mainVars>>
-----------------------------------------------------------------------------
(* The readers *)

(* scanCodexJSONL skips lines without an event. *)
Read(s) ==
  /\ rd[s].st = "read" /\ proc # "none" /\ ~closed /\ pipe[s] # <<>>
  /\ pipe' = [pipe EXCEPT ![s] = Tail(@)]
  /\ rd' = IF kind = "codex" /\ Head(pipe[s]).ev = "none" THEN rd
           ELSE [rd EXCEPT ![s] = [st |-> "number", line |-> Head(pipe[s]), n |-> 0]]
  /\ UNCHANGED <<procVars, ctx, closed, seq, frames, sent, chanVars, mainVars>>

(* End of file, or of the pipe; or the next line is longer than the scanner *)
(* takes.  Then nobody reads what follows, and the process may block on it. *)
TooLong(s) == proc # "none" /\ pipe[s] # <<>>
ReadEnd(s) ==
  /\ rd[s].st = "read"
  /\ closed \/ (proc = "exited" /\ pipe[s] = <<>>) \/ TooLong(s)
  /\ rd' = [rd EXCEPT ![s] = [Reading EXCEPT !.st = "over"]]
  /\ UNCHANGED <<procVars, ctx, pipe, closed, seq, frames, sent, chanVars, mainVars>>

(* Mutant: the counter is advanced after the send. *)
EmitLate(s) ==
  /\ rd[s].st = "number"
  /\ IF main = "returned"
     THEN rd' = [rd EXCEPT ![s].st = "handle"] /\ UNCHANGED seq
     ELSE rd' = [rd EXCEPT ![s] = [st |-> "frame", line |-> @.line, n |-> sent]] /\ UNCHANGED seq
  /\ UNCHANGED <<procVars, ctx, pipe, closed, frames, sent, chanVars, mainVars>>

(* qaTerminalOutputEmitter.Emit: numbers the frame under its lock, unless   *)
(* the handler has returned and closed it, ...                              *)
Emit(s) ==
  /\ rd[s].st = "number"
  /\ IF main = "returned"
     THEN rd' = [rd EXCEPT ![s].st = "handle"] /\ UNCHANGED seq
     ELSE rd' = [rd EXCEPT ![s] = [st |-> "frame", line |-> @.line, n |-> seq]] /\ seq' = seq + 1
  /\ UNCHANGED <<procVars, ctx, pipe, closed, frames, sent, chanVars, mainVars>>

(* ... and sends it outside. *)
SendFrame(s) ==
  /\ rd[s].st = "frame"
  /\ frames' = frames \cup {rd[s].n} /\ sent' = sent + 1
  /\ rd' = [rd EXCEPT ![s].st = "handle"]
  /\ UNCHANGED <<procVars, ctx, pipe, closed, seq, chanVars, mainVars>>

(* events <- evt *)
Push(s) ==
  /\ kind = "codex" /\ rd[s].st = "handle"
  /\ Len(events) < EvCap
  /\ events' = Append(events, rd[s].line)
  /\ rd' = [rd EXCEPT ![s] = Reading]
  /\ UNCHANGED <<procVars, ctx, pipe, closed, seq, frames, sent, evOpen, waiter, mainVars>>

(* claudeExecStreamState.processLine, under mu.  A text that repeats the    *)
(* last one adds what is new in it; nothing is added once ctx is done.      *)
ProcessLine(s) ==
  LET l     == rd[s].line
      chunk == IF last # <<>> /\ IsPrefix(last, l.text)
               THEN SubSeq(l.text, Len(last) + 1, Len(l.text)) ELSE l.text
  IN /\ kind = "claude" /\ rd[s].st = "handle"
     /\ rd' = [rd EXCEPT ![s] = Reading]
     /\ last' = IF l.ev = "response" THEN l.text ELSE last
     /\ acc' = IF l.ev = "response" /\ ~ctx THEN acc \o chunk ELSE acc
     /\ result' = IF l.ev \in {"result", "result_error"} /\ l.text # <<>> THEN l.text ELSE result
     /\ thinking' = (thinking \/ l.ev \in {"reasoning", "tool_call", "tool_result", "result_error"})
     /\ UNCHANGED <<procVars, ctx, pipe, closed, seq, frames, sent, chanVars, main, failedTurn,
                    seenTool, ended, answer>>
-----------------------------------------------------------------------------
(* The wait *)

(* cmd.Wait returns when the process is gone, and closes the pipes. *)
Wait ==
  /\ waiter = "process" /\ proc = "exited"
  /\ closed' = TRUE /\ waiter' = "readers"
  /\ UNCHANGED <<procVars, ctx, pipe, rd, seq, frames, sent, events, evOpen, mainVars>>

(* Mutant: waits for the process only. *)
JoinProcess ==
  /\ waiter = "readers"
  /\ waiter' = "done" /\ evOpen' = FALSE
  /\ UNCHANGED <<procVars, ctx, readVars, events, mainVars>>

(* Mutant: leaves the channel open. *)
JoinSilently ==
  /\ waiter = "readers" /\ \A s \in Streams : Over(s)
  /\ waiter' = "done"
  /\ UNCHANGED <<procVars, ctx, readVars, events, evOpen, mainVars>>

(* wg.Wait, and for Codex close(events). *)
Join ==
  /\ waiter = "readers" /\ \A s \in Streams : Over(s)
  /\ waiter' = "done" /\ evOpen' = FALSE
  /\ UNCHANGED <<procVars, ctx, readVars, events, mainVars>>
-----------------------------------------------------------------------------
(* The handler *)

(* sendResponse, sendThinking and sendReasoning give up when ctx is done,   *)
(* and the handler with them; nobody reads events from then on.             *)
Return == main' = "returned" /\ UNCHANGED <<acc, thinking, failedTurn, seenTool>>

Consume ==
  LET e == Head(events)
      visible == {"response", "reasoning", "tool_result", "tool_call"}
  IN /\ kind = "codex" /\ main = "loop" /\ events # <<>>
     /\ events' = Tail(events)
     /\ IF ctx /\ e.ev \in visible /\ ~(e.ev = "tool_call" /\ seenTool) THEN Return
        ELSE /\ acc' = acc \o e.text
             /\ thinking' = (thinking \/ e.ev \in visible \ {"response"})
             /\ failedTurn' = (failedTurn \/ e.ev = "turn_failed")
             /\ seenTool' = (seenTool \/ e.ev = "tool_call")
             /\ UNCHANGED main
     /\ UNCHANGED <<procVars, ctx, readVars, evOpen, waiter, last, result, ended, answer>>

LoopEnds ==
  /\ main = "loop" /\ waiter = "done"
  /\ kind = "codex" => events = <<>> /\ ~evOpen
  /\ main' = IF kind = "codex" THEN "last" ELSE "flush"
  /\ UNCHANGED <<procVars, ctx, readVars, chanVars, acc, last, result, thinking,
                 failedTurn, seenTool, ended, answer>>

(* Mutant: a last message that does not extend the stream is dropped. *)
ReadLastExtends ==
  /\ main = "last"
  /\ IF final.text \in {<<>>, acc} \/ ~IsPrefix(acc, final.text)
     THEN main' = "end" /\ UNCHANGED acc
     ELSE IF ctx THEN main' = "returned" /\ UNCHANGED acc
     ELSE main' = "end" /\ acc' = final.text
  /\ UNCHANGED <<procVars, ctx, readVars, chanVars, last, result, thinking, failedTurn,
                 seenTool, ended, answer>>

(* The last-message file completes what was streamed, or replaces it. *)
ReadLast ==
  /\ main = "last"
  /\ IF final.text \in {<<>>, acc} THEN main' = "end" /\ UNCHANGED acc
     ELSE IF IsPrefix(acc, final.text) /\ ctx THEN main' = "returned" /\ UNCHANGED acc
     ELSE main' = "end" /\ acc' = final.text
  /\ UNCHANGED <<procVars, ctx, readVars, chanVars, last, result, thinking, failedTurn,
                 seenTool, ended, answer>>

(* flushFinalResponse: the result completes what was streamed. *)
flushFinalResponse ==
  /\ main = "flush"
  /\ IF ctx THEN main' = "returned" /\ UNCHANGED acc
     ELSE main' = "end" /\ acc' = IF IsPrefix(acc, result) THEN result ELSE acc
  /\ UNCHANGED <<procVars, ctx, readVars, chanVars, last, result, thinking, failedTurn,
                 seenTool, ended, answer>>

(* codexFinalAnswer, result, and the emptiness checks: an answer, or none   *)
(* where there is to be an error.                                           *)
LongerOf(t, u) == IF Len(t) > Len(u) THEN t ELSE u
codexFinalAnswer ==
  IF json THEN IF final.isJSON THEN {final.text} ELSE {}
  ELSE IF acc = <<>> /\ ~thinking THEN {} ELSE {acc}
claudeAnswer ==
  LET a == LongerOf(result, acc) IN IF a = <<>> /\ ~thinking THEN {} ELSE {a}

(* Exit status and failed turns decide the wording of an error, not whether *)
(* there is one.                                                            *)
Finish ==
  LET answers == IF kind = "codex" THEN codexFinalAnswer ELSE claudeAnswer
  IN /\ main = "end"
     /\ main' = "returned"
     /\ IF kind = "claude" /\ ctx THEN UNCHANGED <<ended, answer>>
        ELSE IF answers = {} THEN ended' = "error" /\ UNCHANGED answer
        ELSE ended' = "done" /\ answer' \in answers
     /\ UNCHANGED <<procVars, ctx, readVars, chanVars, acc, last, result, thinking,
                    failedTurn, seenTool>>
-----------------------------------------------------------------------------
Process == Exit \/ WriteErr \/ \E l \in Lines : WriteOut(l)
Reader(s) == Read(s) \/ ReadEnd(s) \/ Emit(s) \/ SendFrame(s) \/ Push(s) \/ ProcessLine(s)
Waiter  == Wait \/ Join
Handler == StartFails \/ Start \/ Consume \/ LoopEnds \/ ReadLast \/ flushFinalResponse \/ Finish
Next == Process \/ Stop \/ Cancel \/ Waiter \/ Handler \/ \E s \in Streams : Reader(s)

(* Goroutines that can go on do, and a killed process ends; nothing is      *)
(* assumed of a process that is not stopped.                                *)
Fairness == /\ WF_vars(Cancel) /\ WF_vars(Waiter) /\ WF_vars(Handler)
            /\ \A s \in Streams : WF_vars(Reader(s))

Spec == Init /\ [][Next]_vars
FairSpec == Spec /\ Fairness
-----------------------------------------------------------------------------
(* Types of the variables. *)

EventKinds == {"none", "executor_error", "turn_failed", "turn_done", "tool_result",
               "tool_call", "response", "reasoning", "result", "result_error"}
Text == Seq(Nat)
Item == [ev : EventKinds, text : Text]

ProcType ==
  /\ kind \in {"codex", "claude"} /\ json \in BOOLEAN
  /\ proc \in {"none", "running", "exited"} /\ procErr \in BOOLEAN
  /\ wrote \in [out : Nat, err : Nat, all : Text, msg : Text]
  /\ final \in [text : Text, isJSON : BOOLEAN]

ReadType ==
  /\ pipe \in [Streams -> Seq(Item)] /\ closed \in BOOLEAN
  /\ rd \in [Streams -> [st : {"read", "number", "frame", "handle", "over"},
                         line : Item, n : Nat]]
  /\ seq \in Nat /\ frames \subseteq Nat /\ sent \in Nat

ChanType ==
  /\ events \in Seq(Item) /\ evOpen \in BOOLEAN
  /\ waiter \in {"process", "readers", "done"}

MainType ==
  /\ main \in {"setup", "loop", "last", "flush", "end", "returned"}
  /\ acc \in Text /\ last \in Text /\ result \in Text /\ answer \in Text
  /\ {thinking, failedTurn, seenTool} \subseteq BOOLEAN
  /\ ended \in {"none", "done", "error"}

TypeOK == ProcType /\ ctx \in BOOLEAN /\ ReadType /\ ChanType /\ MainType
-----------------------------------------------------------------------------
(* When the handler returns the caller gives the workspace back: process    *)
(* and readers are gone by then, except for a Codex run that was stopped.   *)
NothingLeftBehind ==
  main = "returned" /\ proc # "none" /\ ~(kind = "codex" /\ ctx) =>
    proc = "exited" /\ waiter = "done" /\ \A s \in Streams : Over(s)

(* A done of Codex carries its last message, if it left one, whatever part  *)
(* of the stream was lost with the pipes, and a structured one if that was  *)
(* asked for; one of Claude, all it streamed that was read, or the result.  *)
AnswerIsFinal ==
  ended = "done" =>
    IF kind = "codex" THEN /\ final.text # <<>> => answer = final.text
                           /\ json => final.isJSON
    ELSE answer = result \/ (answer = acc /\ Len(acc) >= Len(result))

(* At the end of a run that was not stopped the frames sent are numbered    *)
(* from zero, without a gap or a repetition, though two readers send them.  *)
FramesContiguous ==
  main = "returned" /\ ~ctx => frames = 0..(sent - 1)

(* After the process is gone, or was told to go, the handler returns.       *)
HandlerReturns == (proc = "exited" \/ ctx) ~> main = "returned"
=============================================================================
