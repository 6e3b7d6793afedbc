---------------------------- MODULE MCConnection ----------------------------
(* One call, one terminal and one event over up to five connections, the     *)
(* last one left for the dial after all faults and refusals.                 *)
EXTENDS Connection
CONSTANTS c1, t1
=============================================================================
