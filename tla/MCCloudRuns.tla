----------------------------- MODULE MCCloudRuns ------------------------------
(* Two runs, one of which the server grants again and whose executor writes a *)
(* line, a runner of default size (one execution at a time), and a process    *)
(* that may start twice.                                                      *)
EXTENDS CloudRuns, TLC
CONSTANTS r1, r2, e1

LinesOf == (r1 :> 0) @@ (r2 :> 1)
=============================================================================
