--------------------------- MODULE MCJobExecution ---------------------------
(***************************************************************************)
(* Model checking JobExecution: the settings of the jobs that are run.     *)
(***************************************************************************)
EXTENDS JobExecution

\* A job that wants one node / all nodes, one after the other / all nodes,
\* with a pool of p threads.
One          == [allNodes |-> FALSE, pool |-> 0, limited |-> TRUE,
                 notify |-> TRUE, readable |-> TRUE]
AllInTurn    == [One EXCEPT !.allNodes = TRUE, !.limited = FALSE]
AllAtOnce(p) == [AllInTurn EXCEPT !.pool = p]
Broken(s)    == [s EXCEPT !.readable = FALSE]
Muted(s)     == [s EXCEPT !.notify = FALSE]

MCJobSettings ==
  {One, AllInTurn, AllAtOnce(1), Muted(AllAtOnce(2)), Broken(One)}

\* For the liveness run: the pool may also be smaller than the node list.
MCLiveSettings == {One, AllInTurn, AllAtOnce(1), AllAtOnce(2)}

\* The settings behind each statement of the sources that is refuted.
MCParallelSettings == {AllAtOnce(2)}

MCDisturbances == Disturbance
=============================================================================
