------------------------------- MODULE MCHubQA -------------------------------
(* Two StartQA calls that reuse one request id, over two successive           *)
(* connections of one runner; a channel holds two events, one of which may    *)
(* be terminal output.  The calls are interchangeable, and so are the         *)
(* connections.                                                               *)
EXTENDS HubQA, TLC

SameId == [q \in Calls |-> CHOOSE i \in Ids : TRUE]

Symmetry == Permutations(Calls) \cup Permutations(Conns)
=============================================================================
