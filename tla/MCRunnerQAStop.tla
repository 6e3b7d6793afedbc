---------------------------- MODULE MCRunnerQAStop ----------------------------
(* RunnerQA with a history of the stops that did not find the request they    *)
(* name, in two workspaces of one repository.                                 *)
EXTENDS MCRunnerQA

VARIABLE missed  \* requests that a stop has named, and did not find

StopInit == Init /\ missed = {}

StopNext ==
  \/ \E i \in Ids \cup {None}, s \in Sessions :
       /\ handleQAStop(i, s)
       /\ missed' = missed \cup {r \in Requests \ Targets(i, s) : Active(r) /\ Names(i, s, r)}
  \/ Work /\ UNCHANGED missed

StopSpec == StopInit /\ [][StopNext]_<<vars, missed>>

(* "Create cancellable context so QA stop can interrupt the run"              *)
(* (daemon.go:123): a request that had been received when a stop named it     *)
(* runs no executor afterwards, unless it is cancelled or about to be, also   *)
(* when the stop did not find it.                                             *)
StopIsHeeded == \A r \in missed : pc[r] = "running" => r \in cancelled \cup stop
===============================================================================
