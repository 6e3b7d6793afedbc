---------------------------- MODULE TerminalAttach ----------------------------
(***************************************************************************)
(* Terminal attachments on the runner: the terminal handlers of             *)
(* src/internal/runner/daemon.go over src/internal/terminal/tmux.go.        *)
(*                                                                         *)
(* The client's reader starts a goroutine for each terminal_open and runs   *)
(* the handlers of terminal_input, _resize and _close itself.  An open      *)
(* makes sure of a tmux session, attaches to it, and stores the attachment   *)
(* under the message's id.  The attachment's read loop ends when its pty    *)
(* does; it calls back into the daemon, which takes the entry out, and only *)
(* then closes `done`, which Attachment.Close waits for.                    *)
(*                                                                         *)
(* Registry is left out: its entries of one session are interchangeable,    *)
(* and one that is missing or stale costs a probe of tmux and nothing else. *)
(***************************************************************************)
EXTENDS Naturals

CONSTANTS Opens,      \* terminal_open messages; each makes one attachment
          Ids,        \* TerminalMessage.ID
          IdOf,       \* the id of each open: the server may use one again
          Sessions,   \* tmux sessions
          SessionOf,  \* the session of each open
          RunOpens,   \* opens with a RunID: they only attach
          None

ASSUME TerminalAssumption ==
  /\ IdOf \in [Opens -> Ids]
  /\ SessionOf \in [Opens -> Sessions]
  /\ RunOpens \subseteq Opens
  /\ None \notin Opens \cup Ids

VARIABLES terminalAtt,  \* d.terminalAtt; an attachment is named by its open
          mu,           \* the open that holds d.terminalMu over more than a step
          pc,           \* where in handleTerminalOpen each open is
          loop,         \* where in readLoop each attachment is
          shut,         \* attachments whose file Close has closed
          reader,       \* what the client's reader is doing
          tmux,         \* tmux has-session
          told,         \* opens the server was sent a terminal_closed for
          given         \* opens the server has sent a terminal_close for

vars == <<terminalAtt, mu, pc, loop, shut, reader, tmux, told, given>>

(***************************************************************************)
(* resolve   project, workdir, and the session                             *)
(* create    about to run tmux new-session, in Ensure,                     *)
(* recreate    or in Attach, as the session has died since                 *)
(* attach    Ensure returned, about to probe again                         *)
(* spawn     about to start tmux attach                                    *)
(* store     attached, about to lock terminalMu                            *)
(* replace   holds terminalMu, waits in old.Close                          *)
(***************************************************************************)
Phases == {"new", "resolve", "create", "attach", "recreate", "spawn", "store",
           "replace", "stored", "refused"}

(* The reader's states: at nothing, at the lock with a message for an id,   *)
(* or in the Close of an attachment.                                        *)
Idle == [at |-> "idle", arg |-> None]

Alive(o)   == tmux[SessionOf[o]]
Goto(o, p) == pc' = [pc EXCEPT ![o] = p]

Init ==
  /\ terminalAtt = [i \in Ids |-> None]
  /\ mu = None
  /\ pc = [o \in Opens |-> "new"]
  /\ loop = [o \in Opens |-> "none"]
  /\ shut = {} /\ told = {} /\ given = {}
  /\ reader = Idle
  /\ tmux \in [Sessions -> BOOLEAN]
-----------------------------------------------------------------------------
(* handleTerminalOpen, attachRunTerminal *)

(* The server uses an id again only when the last terminal with it is       *)
(* closed, by itself or, as far as it was told, by the runner.              *)
Open(o) ==
  /\ reader = Idle
  /\ pc[o] = "new"
  /\ \A p \in Opens : IdOf[p] = IdOf[o] /\ pc[p] # "new" => p \in told \cup given
  /\ Goto(o, "resolve")
  /\ UNCHANGED <<terminalAtt, mu, loop, shut, reader, tmux, told, given>>

(* sendTerminalClosed, and out: no project, workdir or run terminal, no     *)
(* tmux or pty, or new-session failed, as it does when another open was     *)
(* faster.                                                                  *)
Refuse(o) ==
  /\ pc[o] \in {"resolve", "create", "recreate", "spawn"}
  /\ told' = told \cup {o}
  /\ Goto(o, "refused")
  /\ UNCHANGED <<terminalAtt, mu, loop, shut, reader, tmux, given>>

(* Ensure and AttachExisting probe the session.  A probe has two seconds,   *)
(* and may miss a session that is there.                                    *)
Resolve(o) ==
  /\ pc[o] = "resolve"
  /\ \/ Alive(o) /\ Goto(o, IF o \in RunOpens THEN "spawn" ELSE "attach")
     \/ o \notin RunOpens /\ Goto(o, "create")
  /\ UNCHANGED <<terminalAtt, mu, loop, shut, reader, tmux, told, given>>

(* launch: leaves a session alone that its own probe finds.                 *)
Create(o) ==
  /\ pc[o] \in {"create", "recreate"}
  /\ tmux' = [tmux EXCEPT ![SessionOf[o]] = TRUE]
  /\ Goto(o, IF pc[o] = "create" THEN "attach" ELSE "spawn")
  /\ UNCHANGED <<terminalAtt, mu, loop, shut, reader, told, given>>

Attach(o) ==
  /\ pc[o] = "attach"
  /\ (Alive(o) /\ Goto(o, "spawn")) \/ Goto(o, "recreate")
  /\ UNCHANGED <<terminalAtt, mu, loop, shut, reader, tmux, told, given>>

(* pty.StartWithSize, and `go att.readLoop`. *)
Spawn(o) ==
  /\ pc[o] = "spawn"
  /\ loop' = [loop EXCEPT ![o] = "reading"]
  /\ Goto(o, "store")
  /\ UNCHANGED <<terminalAtt, mu, shut, reader, tmux, told, given>>

(* Under terminalMu: with another attachment in its place, closes that one  *)
(* first, and waits for its `done` with the lock held.                      *)
Store(o) ==
  LET i == IdOf[o] IN
  /\ pc[o] = "store"
  /\ mu = None
  /\ IF terminalAtt[i] = None
     THEN /\ terminalAtt' = [terminalAtt EXCEPT ![i] = o]
          /\ Goto(o, "stored")
          /\ UNCHANGED <<mu, shut>>
     ELSE /\ shut' = shut \cup {terminalAtt[i]}
          /\ mu' = o
          /\ Goto(o, "replace")
          /\ UNCHANGED terminalAtt
  /\ UNCHANGED <<loop, reader, tmux, told, given>>

Replace(o) ==
  LET i == IdOf[o] IN
  /\ pc[o] = "replace"
  /\ loop[terminalAtt[i]] = "done"
  /\ terminalAtt' = [terminalAtt EXCEPT ![i] = o]
  /\ mu' = None
  /\ Goto(o, "stored")
  /\ UNCHANGED <<loop, shut, reader, tmux, told, given>>
-----------------------------------------------------------------------------
(* Attachment.readLoop *)

(* Read failed: Close closed the file, the user detached, or tmux is gone.  *)
(* The callback begins with its message.                                    *)
ReadFails(o) ==
  /\ loop[o] = "reading"
  /\ loop' = [loop EXCEPT ![o] = "failed"]
  /\ told' = told \cup {o}
  /\ UNCHANGED <<terminalAtt, mu, pc, shut, reader, tmux, given>>

(* The rest of the callback: under terminalMu it deletes the entry of the   *)
(* id, whosever that is.  Then cmd.Wait and close(done).                    *)
Closed(o) ==
  /\ loop[o] = "failed"
  /\ mu = None
  /\ terminalAtt' = [terminalAtt EXCEPT ![IdOf[o]] = None]
  /\ loop' = [loop EXCEPT ![o] = "done"]
  /\ UNCHANGED <<mu, pc, shut, reader, tmux, told, given>>

(* The shell of a session exits. *)
SessionDies(s) ==
  /\ tmux[s]
  /\ tmux' = [tmux EXCEPT ![s] = FALSE]
  /\ UNCHANGED <<terminalAtt, mu, pc, loop, shut, reader, told, given>>
-----------------------------------------------------------------------------
(* The client's reader: handleTerminalInput, _Resize and _Close *)

OfId(i) == {o \in Opens : IdOf[o] = i /\ pc[o] # "new"}

(* Input and resize do the same: they look the attachment up, and use it.   *)
Take(op, i) ==
  /\ reader = Idle
  /\ OfId(i) # {}
  /\ reader' = [at |-> op, arg |-> i]
  /\ given' = IF op = "close" THEN given \cup OfId(i) ELSE given
  /\ UNCHANGED <<terminalAtt, mu, pc, loop, shut, tmux, told>>

LookUp ==
  /\ reader.at = "input"
  /\ mu = None
  /\ reader' = Idle
  /\ UNCHANGED <<terminalAtt, mu, pc, loop, shut, tmux, told, given>>

(* Mutant: takes the entry out and leaves the attachment open. *)
TakeOutOnly ==
  /\ reader.at = "close"
  /\ mu = None
  /\ terminalAtt' = [terminalAtt EXCEPT ![reader.arg] = None]
  /\ reader' = Idle
  /\ UNCHANGED <<mu, pc, loop, shut, tmux, told, given>>

(* Mutant: unlocks after Close, as handleTerminalOpen does. *)
TakeOutLocked ==
  LET a == terminalAtt[reader.arg] IN
  /\ reader.at = "close"
  /\ mu = None
  /\ terminalAtt' = [terminalAtt EXCEPT ![reader.arg] = None]
  /\ IF a = None
     THEN reader' = Idle /\ UNCHANGED <<shut, mu>>
     ELSE reader' = [at |-> "wait", arg |-> a] /\ shut' = shut \cup {a} /\ mu' = a
  /\ UNCHANGED <<pc, loop, tmux, told, given>>

(* Takes the entry out under terminalMu, and closes the attachment after    *)
(* it has unlocked.                                                         *)
TakeOut ==
  LET a == terminalAtt[reader.arg] IN
  /\ reader.at = "close"
  /\ mu = None
  /\ terminalAtt' = [terminalAtt EXCEPT ![reader.arg] = None]
  /\ IF a = None
     THEN reader' = Idle /\ UNCHANGED shut
     ELSE reader' = [at |-> "wait", arg |-> a] /\ shut' = shut \cup {a}
  /\ UNCHANGED <<mu, pc, loop, tmux, told, given>>

CloseReturns ==
  /\ reader.at = "wait"
  /\ loop[reader.arg] = "done"
  /\ reader' = Idle
  /\ UNCHANGED <<terminalAtt, mu, pc, loop, shut, tmux, told, given>>

OpenStep(o) ==
  \/ Refuse(o)
  \/ Resolve(o)
  \/ Create(o)
  \/ Attach(o)
  \/ Spawn(o)
  \/ Store(o)
  \/ Replace(o)

Next ==
  \/ \E o \in Opens : Open(o) \/ OpenStep(o) \/ ReadFails(o) \/ Closed(o)
  \/ \E s \in Sessions : SessionDies(s)
  \/ \E i \in Ids, op \in {"input", "close"} : Take(op, i)
  \/ LookUp
  \/ TakeOut
  \/ CloseReturns

Spec == Init /\ [][Next]_vars

(* Goroutines go on when they can, and a read loop whose file was closed    *)
(* under it ends.  An attachment nobody closes may last for ever.           *)
Fairness ==
  /\ \A o \in Opens : /\ WF_vars(OpenStep(o))
                      /\ WF_vars(ReadFails(o) /\ o \in shut)
                      /\ WF_vars(Closed(o))
  /\ WF_vars(LookUp) /\ WF_vars(TakeOut) /\ WF_vars(CloseReturns)

FairSpec == Spec /\ Fairness
-----------------------------------------------------------------------------
(* Types of the variables. *)
TypeOK ==
  /\ terminalAtt \in [Ids -> Opens \cup {None}]
  /\ mu \in Opens \cup {None}
  /\ pc \in [Opens -> Phases]
  /\ loop \in [Opens -> {"none", "reading", "failed", "done"}]
  /\ shut \subseteq Opens /\ told \subseteq Opens /\ given \subseteq Opens
  /\ reader \in {Idle} \cup [at : {"input", "close"}, arg : Ids]
                       \cup [at : {"wait"}, arg : Opens]
  /\ tmux \in [Sessions -> BOOLEAN]

(* An open is over once it is refused, or its handler and its read loop are *)
(* done.                                                                    *)
Over(o) == pc[o] \in {"new", "refused"} \/ (pc[o] = "stored" /\ loop[o] = "done")

OnePerId == \A o, p \in Opens : o # p /\ IdOf[o] = IdOf[p] => Over(o) \/ Over(p)

(* A running attachment can be reached under its id, so that input finds it *)
(* and a close ends it, unless one is ending it already or its open has yet *)
(* to store it.  Nothing else may take the entry out or fail to put it in.  *)
Reachable ==
  \A o \in Opens :
    loop[o] = "reading" /\ o \notin shut =>
      terminalAtt[IdOf[o]] = o \/ pc[o] \in {"store", "replace"}

(* Attachments with ids of their own are never orphaned. *)
NoOrphan == []OnePerId => []Reachable

(* The reader takes every message on to its end: handlers that lock         *)
(* terminalMu and wait for a read loop, which locks it, too, do not block   *)
(* the connection, as long as no two terminals share an id.                 *)
ReaderReturns == []OnePerId => (reader # Idle ~> reader = Idle)

(* "establishes the connection and runs the message loop, reconnecting      *)
(* automatically" (client.go:108, "Read loop (blocks until disconnect)"     *)
(* client.go:153): the message loop is not stuck in a terminal handler.     *)
MessageLoopRuns == reader # Idle ~> reader = Idle
=============================================================================
