-------------------------- MODULE MCExecutorPipeline --------------------------
(* Three lines on stdout and one on stderr.  What the executors write besides *)
(* is handled like one of these.                                             *)
EXTENDS ExecutorPipeline

Line(t) == [type |-> t, failed |-> FALSE, output |-> FALSE, tool |-> FALSE, text |-> "none"]
MCLines ==
  {Line("junk"), Line("turn_failed"), Line("result"),
   [Line("item") EXCEPT !.text = "response"], [Line("item") EXCEPT !.tool = TRUE],
   [Line("assistant") EXCEPT !.text = "response"]}
=============================================================================
