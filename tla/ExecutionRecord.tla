--------------------------- MODULE ExecutionRecord ---------------------------
(***************************************************************************)
(* What a stored execution promises to those who read it: the pages that   *)
(* list executions, the mails, and the services that cancel or delete      *)
(* jobs.  It has a life cycle (none, open, closed, gone), one result per   *)
(* node, and a status that the results justify.  JobExecution implements   *)
(* it with threads, transactions and failures.                             *)
(***************************************************************************)
EXTENDS Naturals

CONSTANT MaxNodes

Nodes == 1 .. MaxNodes

VARIABLES
  phase,     \* none, open, closed or gone
  size,      \* how many nodes were selected
  allNodes,  \* the action is wanted on all of them, not on the first that can
  status,    \* INPROGRESS while open
  cancelled, \* a cancellation is requested
  result     \* per node: none, open, ok or failed

vars == <<phase, size, allNodes, status, cancelled, result>>

Settled == {"ok", "failed"}

\* The first k nodes have a settled result and the others were not touched.
TriedOnly(k) ==
  /\ \A n \in 1 .. k : result[n] \in Settled
  /\ \A n \in Nodes : n > k => result[n] = "none"

\* Without "all nodes" the first success ends the execution.
NoSuccessSoFar == ~allNodes => \A n \in Nodes : result[n] # "ok"

\* What each final status says about the results.
Justified(s) ==
  CASE s = "SUCCEED" ->
         IF allNodes
         THEN size > 0 /\ \A n \in 1 .. size : result[n] = "ok"
         ELSE \E k \in 1 .. size :
                /\ result[k] = "ok" /\ TriedOnly(k)
                /\ \A n \in 1 .. (k - 1) : result[n] = "failed"
    [] s = "FAILED" ->
         size > 0 /\ TriedOnly(size) /\ NoSuccessSoFar
           /\ \E n \in 1 .. size : result[n] = "failed"
    [] s = "TIMEOUT" ->
         \E k \in 1 .. (size - 1) : TriedOnly(k) /\ NoSuccessSoFar
    [] s = "CANCELED" ->
         \E k \in 0 .. (size - 1) : TriedOnly(k) /\ NoSuccessSoFar
    [] s = "EMPTYNODES" -> size = 0
    [] s = "EXCEPTION" -> TRUE
    [] OTHER -> FALSE

Final == {"SUCCEED", "FAILED", "TIMEOUT", "CANCELED", "EMPTYNODES", "EXCEPTION"}

Init ==
  /\ phase = "none" /\ size = 0 /\ allNodes = FALSE
  /\ status = "INPROGRESS" /\ cancelled = FALSE
  /\ result = [n \in Nodes |-> "none"]

Open ==
  /\ phase = "none" /\ phase' = "open"
  /\ size' \in 0 .. MaxNodes /\ allNodes' \in BOOLEAN
  /\ UNCHANGED <<status, cancelled, result>>

Cancel ==
  /\ phase = "open" /\ cancelled' = TRUE
  /\ UNCHANGED <<phase, size, allNodes, status, result>>

BeginNode(n) ==
  /\ phase = "open" /\ n <= size /\ result[n] = "none"
  /\ result' = [result EXCEPT ![n] = "open"]
  /\ UNCHANGED <<phase, size, allNodes, status, cancelled>>

\* Only an execution that ended with an exception may have nodes that are
\* still at work.
EndNode(n) ==
  /\ phase = "open" \/ (phase = "closed" /\ status = "EXCEPTION")
  /\ result[n] = "open"
  /\ \E r \in Settled : result' = [result EXCEPT ![n] = r]
  /\ UNCHANGED <<phase, size, allNodes, status, cancelled>>

Close(s) ==
  /\ phase = "open" /\ Justified(s)
  /\ phase' = "closed" /\ status' = s /\ cancelled' = FALSE
  /\ UNCHANGED <<size, allNodes, result>>

\* The row is deleted with its job's group; its columns are of no interest.
Delete ==
  /\ phase \in {"open", "closed"} /\ phase' = "gone"
  /\ result' = [n \in Nodes |-> "none"]
  /\ UNCHANGED <<size, allNodes, status, cancelled>>

Next ==
  \/ Open \/ Cancel \/ Delete
  \/ \E n \in Nodes : BeginNode(n) \/ EndNode(n)
  \/ \E s \in Final : Close(s)

Spec == Init /\ [][Next]_vars
=============================================================================
