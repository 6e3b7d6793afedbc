------------------------------ MODULE MCRunnerQA ------------------------------
(* Handler invocations over two workspaces that are sub-paths of one          *)
(* repository (config.go:46).  Any invocation may be asked for any of the     *)
(* records of an inbox, so ids, sessions, roots and branches repeat.          *)
EXTENDS RunnerQA
CONSTANTS A, B, chat, web, repo, main, dev

Ask(id, session, root, branch, kind) ==
  [id |-> id, session |-> session, root |-> root, branch |-> branch, kind |-> kind]

(* Two that share an id, a sibling in the session, and one of each other    *)
(* kind: isolated executions check out their branch, too.                   *)
MixedInbox == {Ask(A, 1, chat, main, "shared"),
               Ask(A, 2, chat, dev,  "shared"),
               Ask(B, 1, chat, dev,  "isolated"),
               Ask(None, 2, chat, None, "snapshot")}

(* Only executions that take the gate, in two workspaces of one repository. *)
GatedInbox == {Ask(A, 1, chat, main, "shared"), Ask(B, 2, web, dev, "shared")}

OneRepo == [r \in Roots |-> repo]
=============================================================================
