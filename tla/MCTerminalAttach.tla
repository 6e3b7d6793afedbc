--------------------------- MODULE MCTerminalAttach ---------------------------
(* Three opens on one tmux session, two of them with one id; the third is for *)
(* the terminal of a run.                                                     *)
EXTENDS TerminalAttach
CONSTANTS o1, o2, o3, A, B, main

MCIdOf      == [o \in Opens |-> IF o = o3 THEN B ELSE A]
MCSessionOf == [o \in Opens |-> main]
=============================================================================
