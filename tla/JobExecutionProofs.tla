------------------------- MODULE JobExecutionProofs -------------------------
(***************************************************************************)
(* The safety properties of JobExecution hold for every number of nodes,   *)
(* every set of job settings, every bound on failing transactions and      *)
(* every mix of disturbances.  All of them follow from one inductive       *)
(* invariant, IInv.                                                        *)
(***************************************************************************)
EXTENDS JobExecution, FiniteSetTheorems, TLAPS

\* The loop or the pool has not been left yet.
Launching == {"waiting", "launch"}
InTry     == Launching \cup {"check", "node", "pool"}

\* Where the controller is, and what it knows there.
ControlOK ==
  /\ ctl \in Launching =>
       cur = 0 /\ ~expired /\ \A n \in Nodes : pc[n] = "idle"
  /\ expired => plan.limited
  /\ ctl \in {"check", "node"} => ~Parallel
  /\ ctl = "check" => cur < plan.size
  /\ ctl = "node" => cur > 0
  /\ ctl = "pool" => Parallel /\ plan.size > 0
  /\ ctl \in InTry => verdict = "EXCEPTION"
  /\ ctl = "waiting" => execRow = "none"
  /\ execRow = "none" =>
       /\ ctl \in {"waiting", "done"} /\ ~attached
       /\ \A n \in Nodes : pc[n] = "idle"

\* What the columns of the execution's row say about the controller.
RowOK ==
  /\ finished => ctl \in {"report", "done", "crashed"} /\ status = verdict
  /\ ~finished => status = "INPROGRESS"
  /\ cancelAsked => cancelled \/ finished
  /\ cancelled => cancelAsked
  /\ ctl = "report" => finished /\ ~manual

\* The nodes are visited in their order, and only the selected ones.  Without
\* "all nodes", those that were passed have failed.
OrderOK ==
  /\ \A n \in Nodes : n > plan.size => pc[n] = "idle"
  /\ ~Parallel =>
       \A n \in Nodes :
         /\ n > cur => pc[n] = "idle"
         /\ n < cur \/ (n = cur /\ ctl = "check") =>
              pc[n] = "returned" /\ (outcome[n] = "ok" => plan.allNodes)

Untouched == {"idle", "queued", "dropped", "ready", "checked"}

\* A worker's place tells its outcome, and the result row if there is one.
NodesOK ==
  \A n \in Nodes :
    /\ pc[n] \in Untouched \cup {"begun", "acting"} => outcome[n] = "none"
    /\ pc[n] = "acted" => outcome[n] # "none"
    /\ pc[n] = "returned" => outcome[n] \in {"ok", "failed"}
    /\ execRow # "live" => result[n] = "none"
    /\ execRow = "live" =>
         /\ pc[n] \in Untouched => result[n] = "none"
         /\ pc[n] \in {"begun", "acting", "acted"} => result[n] = "open"
         /\ pc[n] = "returned" => result[n] = outcome[n]

\* Why the loop or the pool was left with the verdict.
VerdictOK ==
  /\ verdict = "SUCCEED" =>
       IF plan.allNodes
       THEN plan.size > 0 /\ \A n \in Selected : Succeeded(n)
       ELSE cur > 0 /\ Succeeded(cur)
  /\ verdict = "FAILED" =>
       /\ \A n \in Selected : pc[n] = "returned"
       /\ \E n \in Selected : outcome[n] = "failed"
       /\ ~plan.allNodes => \A n \in Selected : outcome[n] = "failed"
  /\ verdict \in {"TIMEOUT", "CANCELED"} =>
       /\ cur < plan.size /\ ~Parallel
       /\ \A n \in 1 .. cur : pc[n] = "returned"
       /\ ~plan.allNodes => \A n \in 1 .. cur : outcome[n] = "failed"
  /\ verdict = "TIMEOUT" => cur > 0 /\ plan.limited /\ expired
  /\ verdict = "CANCELED" => cancelAsked
  /\ verdict = "EMPTYNODES" => plan.size = 0

\* Once the loop or the pool has been left without an interrupt, no worker is
\* under way; and a result that is still open has a worker, or its
\* transaction failed.
Over == finished \/ ctl \in {"finish", "report", "done"}

QuietOK ==
  /\ \A n \in Nodes : pc[n] = "lost" => ctl = "crashed"
  /\ Over /\ ~interrupted =>
       \A n \in Nodes : pc[n] \notin Active \cup {"queued", "lost"}
  /\ faults = 0 => \A n \in Nodes : pc[n] = "raised" => result[n] # "open"

\* A start that was overtaken by the end of the execution is marked as stale.
StaleOK ==
  /\ finished => \A n \in Nodes : pc[n] = "checked" => n \in stale
  /\ stale # {} => cancelAsked \/ interrupted

\* No more workers run than the pool has threads, so the agent refuses a node
\* only if its definition cannot be read or two threads overlap.
PoolOK ==
  /\ Parallel => Cardinality(Running) <= plan.pool
  /\ \A n \in Nodes :
       outcome[n] = "refused" => ~plan.readable \/ (Parallel /\ plan.pool > 1)

\* Everything that may end an execution with an exception.
Exceptional ==
  \/ \E n \in Nodes : outcome[n] \in {"raised", "refused"}
  \/ faults > 0 \/ interrupted \/ (cancelAsked /\ stale # {})
  \/ execRow = "gone"

ExceptionOK ==
  /\ (\E n \in Nodes : pc[n] = "raised") => Exceptional
  /\ verdict = "EXCEPTION" /\ (ctl = "finish" \/ finished) => Exceptional

\* Only the node whose turn it is can be late.
LateOK == late \subseteq {cur} /\ (late # {} => cancelAsked)

MailOK ==
  /\ mail => finished /\ status # "SUCCEED" /\ ~manual /\ ctl # "report"
  /\ ctl = "done" /\ finished /\ ~manual /\ status # "SUCCEED" /\ seen = "yes"
       => mail

IInv ==
  /\ TypeOK /\ ControlOK /\ RowOK /\ OrderOK /\ NodesOK /\ VerdictOK
  /\ TrackerExact /\ QuietOK /\ StaleOK /\ PoolOK /\ ExceptionOK /\ LateOK
  /\ MailOK

----------------------------------------------------------------------------
(* The steps.  Each lemma has a case for every action that can disturb its *)
(* part, and one or two for all the others.                                *)

USE DEF Nodes, Settings, Status, CtlState, Active, Returned, Outcome, PcState,
        Selected, Parallel, dbVars, ctlVars, nodeVars, ghosts, otherDbVars,
        NoFault, Fault, Conclude, Goto, Quiet, Step, NewVersion, Launching,
        InTry, RowOpen, CancelRequested, HasNext

\* A step keeps the types; that cur stays within the plan comes from ControlOK.
LEMMA TypeStep ==
  ASSUME TypeOK, ControlOK, Next
  PROVE  TypeOK'
<1> USE ExecutionAssumption
       DEF TypeOK, DatabaseTypes, ControllerTypes, WorkerTypes, ControlOK
<1>1. CASE StartExecution
  BY <1>1 DEF StartExecution
<1>2. CASE StartExecutionFails
  BY <1>2 DEF StartExecutionFails
<1>3. CASE LaunchEmpty
  BY <1>3 DEF LaunchEmpty
<1>4. CASE LaunchSequential
  BY <1>4 DEF LaunchSequential
<1>5. CASE LaunchParallel
  BY <1>5 DEF LaunchParallel
<1>6. CASE CheckCancelled
  BY <1>6 DEF CheckCancelled
<1>7. CASE CheckRaises
  BY <1>7 DEF CheckRaises
<1>8. CASE NextNode
  BY <1>8 DEF NextNode
<1>9. CASE NodeRaised
  BY <1>9 DEF NodeRaised
<1>10. CASE FirstSuccess
  BY <1>10 DEF FirstSuccess
<1>11. CASE LoopTimeout
  BY <1>11 DEF LoopTimeout
<1>12. CASE LoopAgain
  BY <1>12 DEF LoopAgain
<1>13. CASE LoopEnd
  BY <1>13 DEF LoopEnd
<1>14. CASE PoolDone
  BY <1>14 DEF PoolDone
<1>15. CASE FinishExecution
  <2>1. DatabaseTypes'
    BY <1>15 DEF FinishExecution
  <2>2. ControllerTypes'
    BY <1>15 DEF FinishExecution
  <2>3. WorkerTypes'
    BY <1>15 DEF FinishExecution
  <2>4. TypeOK'
    BY <1>15, <2>1, <2>2, <2>3 DEF FinishExecution
  <2> QED
    BY <2>1, <2>2, <2>3, <2>4
<1>16. CASE FinishExecutionFails
  BY <1>16 DEF FinishExecutionFails
<1>17. CASE ReportFailure
  BY <1>17 DEF ReportFailure
<1>18. ASSUME NEW n \in Nodes, Dispatch(n)  PROVE TypeOK'
  BY <1>18 DEF Dispatch
<1>19. ASSUME NEW n \in Nodes, CheckResult(n)  PROVE TypeOK'
  BY <1>19 DEF CheckResult
<1>20. ASSUME NEW n \in Nodes, OpenResult(n)  PROVE TypeOK'
  BY <1>20 DEF OpenResult
<1>21. ASSUME NEW n \in Nodes, StartResultFails(n)  PROVE TypeOK'
  BY <1>21 DEF StartResultFails
<1>22. ASSUME NEW n \in Nodes, EnterAgent(n)  PROVE TypeOK'
  BY <1>22 DEF EnterAgent
<1>23. ASSUME NEW n \in Nodes, AgentRefuses(n)  PROVE TypeOK'
  BY <1>23 DEF AgentRefuses
<1>24. ASSUME NEW n \in Nodes, LeaveAgent(n)  PROVE TypeOK'
  <2>1. outcome' \in [Nodes -> Outcome]
    BY <1>24 DEF LeaveAgent
  <2>2. DatabaseTypes'
    BY <1>24 DEF LeaveAgent
  <2>3. ControllerTypes'
    BY <1>24 DEF LeaveAgent
  <2>4. WorkerTypes'
    BY <1>24, <2>1, <2>2, <2>3 DEF LeaveAgent
  <2>5. TypeOK'
    BY <1>24, <2>1, <2>2, <2>3, <2>4 DEF LeaveAgent
  <2> QED
    BY <2>1, <2>2, <2>3, <2>4, <2>5
<1>25. ASSUME NEW n \in Nodes, CloseResult(n)  PROVE TypeOK'
  <2>1. DatabaseTypes'
    BY <1>25 DEF CloseResult, Stored
  <2>2. ControllerTypes'
    BY <1>25 DEF CloseResult, Stored
  <2>3. WorkerTypes'
    BY <1>25 DEF CloseResult, Stored
  <2>4. TypeOK'
    BY <1>25, <2>1, <2>2, <2>3 DEF CloseResult, Stored
  <2> QED
    BY <2>1, <2>2, <2>3, <2>4
<1>26. ASSUME NEW n \in Nodes, CloseResultFails(n)  PROVE TypeOK'
  BY <1>26 DEF CloseResultFails
<1>27. CASE CancelExecution
  <2>1. DatabaseTypes'
    BY <1>27 DEF CancelExecution
  <2>2. ControllerTypes'
    BY <1>27 DEF CancelExecution
  <2>3. WorkerTypes'
    BY <1>27 DEF CancelExecution
  <2>4. TypeOK'
    BY <1>27, <2>1, <2>2, <2>3 DEF CancelExecution
  <2> QED
    BY <2>1, <2>2, <2>3, <2>4
<1>28. CASE ModifyJob
  BY <1>28 DEF ModifyJob
<1>29. CASE DeleteJob
  <2>1. DatabaseTypes'
    BY <1>29 DEF DeleteJob
  <2>2. ControllerTypes'
    BY <1>29 DEF DeleteJob
  <2>3. WorkerTypes'
    BY <1>29 DEF DeleteJob
  <2>4. TypeOK'
    BY <1>29, <2>1, <2>2, <2>3 DEF DeleteJob
  <2> QED
    BY <2>1, <2>2, <2>3, <2>4
<1>30. CASE DeleteGroup
  <2>1. DatabaseTypes'
    BY <1>30 DEF DeleteGroup
  <2>2. ControllerTypes'
    BY <1>30 DEF DeleteGroup
  <2>3. WorkerTypes'
    BY <1>30 DEF DeleteGroup
  <2>4. TypeOK'
    BY <1>30, <2>1, <2>2, <2>3 DEF DeleteGroup
  <2> QED
    BY <2>1, <2>2, <2>3, <2>4
<1>31. CASE Interrupt
  BY <1>31 DEF Interrupt
<1>32. CASE Crash
  <2>1. DatabaseTypes'
    BY <1>32 DEF Crash
  <2>2. ControllerTypes'
    BY <1>32 DEF Crash
  <2>3. WorkerTypes'
    BY <1>32 DEF Crash
  <2>4. TypeOK'
    BY <1>32, <2>1, <2>2, <2>3 DEF Crash
  <2> QED
    BY <2>1, <2>2, <2>3, <2>4
<1>33. CASE TimeLimitPasses
  BY <1>33 DEF TimeLimitPasses
<1>34. CASE Ended
  BY <1>34 DEF Ended, vars
<1> QED
  BY <1>1, <1>2, <1>3, <1>4, <1>5, <1>6, <1>7, <1>8, <1>9, <1>10, <1>11,
     <1>12, <1>13, <1>14, <1>15, <1>16, <1>17, <1>18, <1>19, <1>20, <1>21,
     <1>22, <1>23, <1>24, <1>25, <1>26, <1>27, <1>28, <1>29, <1>30, <1>31,
     <1>32, <1>33, <1>34
  DEF Next, Controller, Worker, Environment

\* A step keeps what the controller knows at its place.
LEMMA ControlStep ==
  ASSUME TypeOK, ControlOK, Next
  PROVE  ControlOK'
<1> USE ExecutionAssumption
       DEF TypeOK, DatabaseTypes, ControllerTypes, WorkerTypes, ControlOK,
           GoesOn, Limited
<1>1. CASE StartExecution
  BY <1>1 DEF StartExecution
<1>2. CASE StartExecutionFails
  BY <1>2 DEF StartExecutionFails
<1>3. CASE LaunchEmpty
  BY <1>3 DEF LaunchEmpty
<1>4. CASE LaunchSequential
  BY <1>4 DEF LaunchSequential
<1>5. CASE LaunchParallel
  BY <1>5 DEF LaunchParallel
<1>6. CASE CheckCancelled
  BY <1>6 DEF CheckCancelled
<1>7. CASE CheckRaises
  BY <1>7 DEF CheckRaises
<1>8. CASE NextNode
  BY <1>8 DEF NextNode
<1>9. CASE NodeRaised
  BY <1>9 DEF NodeRaised
<1>10. CASE FirstSuccess
  BY <1>10 DEF FirstSuccess
<1>11. CASE LoopTimeout
  BY <1>11 DEF LoopTimeout
<1>12. CASE LoopAgain
  BY <1>12 DEF LoopAgain
<1>13. CASE LoopEnd
  BY <1>13 DEF LoopEnd
<1>14. CASE PoolDone
  BY <1>14 DEF PoolDone
<1>15. CASE FinishExecution
  BY <1>15 DEF FinishExecution
<1>16. CASE FinishExecutionFails
  BY <1>16 DEF FinishExecutionFails
<1>17. CASE ReportFailure
  BY <1>17 DEF ReportFailure
<1>18. CASE DeleteGroup
  BY <1>18 DEF DeleteGroup
<1>19. CASE Interrupt
  BY <1>19 DEF Interrupt
<1>20. CASE Crash
  BY <1>20 DEF Crash
<1>21. ASSUME NEW n \in Nodes,
            Dispatch(n) \/ CheckResult(n) \/ OpenResult(n) \/
            StartResultFails(n) \/ EnterAgent(n) \/ AgentRefuses(n) \/
            LeaveAgent(n) \/ CloseResult(n) \/ CloseResultFails(n)
     PROVE  ControlOK'
  BY <1>21 DEF Dispatch, CheckResult, OpenResult, StartResultFails,
               EnterAgent, AgentRefuses, LeaveAgent, CloseResult,
               CloseResultFails
<1>22. CASE CancelExecution \/ ModifyJob \/ DeleteJob \/ TimeLimitPasses \/
          Ended
  BY <1>22 DEF CancelExecution, ModifyJob, DeleteJob, TimeLimitPasses,
               Ended, vars
<1> QED
  BY <1>1, <1>2, <1>3, <1>4, <1>5, <1>6, <1>7, <1>8, <1>9, <1>10, <1>11,
     <1>12, <1>13, <1>14, <1>15, <1>16, <1>17, <1>18, <1>19, <1>20, <1>21,
     <1>22
  DEF Next, Controller, Worker, Environment

\* A step keeps the columns and the controller in agreement.
LEMMA RowStep ==
  ASSUME TypeOK, ControlOK, RowOK, Next
  PROVE  RowOK'
<1> USE ExecutionAssumption
       DEF TypeOK, DatabaseTypes, ControllerTypes, WorkerTypes, ControlOK,
           RowOK
<1>1. ASSUME NEW n \in Nodes,
            Dispatch(n) \/ CheckResult(n) \/ OpenResult(n) \/
            StartResultFails(n) \/ EnterAgent(n) \/ AgentRefuses(n) \/
            LeaveAgent(n) \/ CloseResult(n) \/ CloseResultFails(n)
     PROVE  RowOK'
  BY <1>1 DEF Dispatch, CheckResult, OpenResult, StartResultFails,
               EnterAgent, AgentRefuses, LeaveAgent, CloseResult,
               CloseResultFails
<1>2. CASE StartExecution \/ StartExecutionFails \/ LaunchEmpty \/
          LaunchSequential \/ LaunchParallel \/ CheckCancelled \/
          CheckRaises \/ NextNode \/ NodeRaised \/ FirstSuccess \/
          LoopTimeout \/ LoopAgain \/ LoopEnd \/ PoolDone \/
          FinishExecution \/ FinishExecutionFails \/ ReportFailure \/
          CancelExecution \/ ModifyJob \/ DeleteJob \/ DeleteGroup \/
          Interrupt \/ Crash \/ TimeLimitPasses \/ Ended
  BY <1>2 DEF StartExecution, StartExecutionFails, LaunchEmpty,
               LaunchSequential, LaunchParallel, CheckCancelled,
               CheckRaises, NextNode, NodeRaised, FirstSuccess, LoopTimeout,
               LoopAgain, LoopEnd, PoolDone, FinishExecution,
               FinishExecutionFails, ReportFailure, CancelExecution,
               ModifyJob, DeleteJob, DeleteGroup, Interrupt, Crash,
               TimeLimitPasses, Ended, vars
<1> QED
  BY <1>1, <1>2
  DEF Next, Controller, Worker, Environment

\* A step keeps the order in which the nodes are visited.
LEMMA OrderStep ==
  ASSUME TypeOK, ControlOK, OrderOK, Next
  PROVE  OrderOK'
<1> USE ExecutionAssumption
       DEF TypeOK, DatabaseTypes, ControllerTypes, WorkerTypes, ControlOK,
           OrderOK, GoesOn, StopAtSuccess
<1>1. CASE StartExecution
  BY <1>1 DEF StartExecution
<1>2. CASE LaunchParallel
  BY <1>2 DEF LaunchParallel
<1>3. CASE NextNode
  BY <1>3 DEF NextNode
<1>4. CASE LoopAgain
  BY <1>4 DEF LoopAgain
<1>5. CASE LoopEnd
  BY <1>5 DEF LoopEnd
<1>6. CASE Interrupt
  BY <1>6 DEF Interrupt
<1>7. CASE Crash
  BY <1>7 DEF Crash
<1>8. ASSUME NEW n \in Nodes, Dispatch(n)  PROVE OrderOK'
  BY <1>8 DEF Dispatch
<1>9. ASSUME NEW n \in Nodes, AgentRefuses(n)  PROVE OrderOK'
  BY <1>9 DEF AgentRefuses
<1>10. ASSUME NEW n \in Nodes, LeaveAgent(n)  PROVE OrderOK'
  BY <1>10 DEF LeaveAgent
<1>11. ASSUME NEW n \in Nodes, CloseResult(n)  PROVE OrderOK'
  BY <1>11 DEF CloseResult
<1>12. ASSUME NEW n \in Nodes,
            CheckResult(n) \/ OpenResult(n) \/ StartResultFails(n) \/
            EnterAgent(n) \/ CloseResultFails(n)
     PROVE  OrderOK'
  BY <1>12 DEF CheckResult, OpenResult, StartResultFails, EnterAgent,
               CloseResultFails
<1>13. CASE StartExecutionFails \/ LaunchEmpty \/ LaunchSequential \/
          CheckCancelled \/ CheckRaises \/ NodeRaised \/ FirstSuccess \/
          LoopTimeout \/ PoolDone \/ FinishExecution \/
          FinishExecutionFails \/ ReportFailure \/ CancelExecution \/
          ModifyJob \/ DeleteJob \/ DeleteGroup \/ TimeLimitPasses \/ Ended
  BY <1>13 DEF StartExecutionFails, LaunchEmpty, LaunchSequential,
               CheckCancelled, CheckRaises, NodeRaised, FirstSuccess,
               LoopTimeout, PoolDone, FinishExecution, FinishExecutionFails,
               ReportFailure, CancelExecution, ModifyJob, DeleteJob,
               DeleteGroup, TimeLimitPasses, Ended, vars
<1> QED
  BY <1>1, <1>2, <1>3, <1>4, <1>5, <1>6, <1>7, <1>8, <1>9, <1>10, <1>11,
     <1>12, <1>13
  DEF Next, Controller, Worker, Environment

\* A step keeps places, outcomes and result rows in agreement.
LEMMA NodesStep ==
  ASSUME TypeOK, ControlOK, OrderOK, NodesOK, Next
  PROVE  NodesOK'
<1> USE ExecutionAssumption
       DEF TypeOK, DatabaseTypes, ControllerTypes, WorkerTypes, ControlOK,
           OrderOK, NodesOK, Untouched, Stored, VersionCurrent
<1>1. ASSUME NEW n \in Nodes, AgentRefuses(n)  PROVE NodesOK'
  BY <1>1 DEF AgentRefuses
<1>2. ASSUME NEW n \in Nodes, LeaveAgent(n)  PROVE NodesOK'
  BY <1>2 DEF LeaveAgent
<1>3. ASSUME NEW n \in Nodes, CloseResult(n)  PROVE NodesOK'
  BY <1>3 DEF CloseResult
<1>4. ASSUME NEW n \in Nodes, CloseResultFails(n)  PROVE NodesOK'
  BY <1>4 DEF CloseResultFails
<1>5. ASSUME NEW n \in Nodes,
            Dispatch(n) \/ CheckResult(n) \/ OpenResult(n) \/
            StartResultFails(n) \/ EnterAgent(n)
     PROVE  NodesOK'
  BY <1>5 DEF Dispatch, CheckResult, OpenResult, StartResultFails,
               EnterAgent
<1>6. CASE StartExecution \/ StartExecutionFails \/ LaunchEmpty \/
          LaunchSequential \/ LaunchParallel \/ CheckCancelled \/
          CheckRaises \/ NextNode \/ NodeRaised \/ FirstSuccess \/
          LoopTimeout \/ LoopAgain \/ LoopEnd \/ PoolDone \/
          FinishExecution \/ FinishExecutionFails \/ ReportFailure \/
          CancelExecution \/ ModifyJob \/ DeleteJob \/ DeleteGroup \/
          Interrupt \/ Crash \/ TimeLimitPasses \/ Ended
  BY <1>6 DEF StartExecution, StartExecutionFails, LaunchEmpty,
               LaunchSequential, LaunchParallel, CheckCancelled,
               CheckRaises, NextNode, NodeRaised, FirstSuccess, LoopTimeout,
               LoopAgain, LoopEnd, PoolDone, FinishExecution,
               FinishExecutionFails, ReportFailure, CancelExecution,
               ModifyJob, DeleteJob, DeleteGroup, Interrupt, Crash,
               TimeLimitPasses, Ended, vars
<1> QED
  BY <1>1, <1>2, <1>3, <1>4, <1>5, <1>6
  DEF Next, Controller, Worker, Environment

\* A verdict is right when it is reached, and nothing spoils it later: each
\* verdict but EXCEPTION leaves no worker that could.
LEMMA VerdictStep ==
  ASSUME TypeOK, ControlOK, RowOK, OrderOK, NodesOK, VerdictOK, Next
  PROVE  VerdictOK'
<1> USE ExecutionAssumption
       DEF TypeOK, DatabaseTypes, ControllerTypes, WorkerTypes, ControlOK,
           RowOK, OrderOK, NodesOK, VerdictOK, Succeeded, Untouched
<1>1. CASE StartExecution
  BY <1>1 DEF StartExecution
<1>2. CASE StartExecutionFails
  BY <1>2 DEF StartExecutionFails
<1>3. CASE LaunchEmpty
  BY <1>3 DEF LaunchEmpty
<1>4. CASE LaunchSequential
  BY <1>4 DEF LaunchSequential
<1>5. CASE LaunchParallel
  BY <1>5 DEF LaunchParallel
<1>6. CASE CheckCancelled
  BY <1>6 DEF CheckCancelled
<1>7. CASE CheckRaises
  BY <1>7 DEF CheckRaises
<1>8. CASE NextNode
  BY <1>8 DEF NextNode
<1>9. CASE NodeRaised
  BY <1>9 DEF NodeRaised
<1>10. CASE FirstSuccess
  BY <1>10 DEF FirstSuccess, StopAtSuccess
<1>11. CASE LoopTimeout
  BY <1>11 DEF LoopTimeout, GoesOn, Overdue, StopAtSuccess
<1>12. CASE LoopAgain
  BY <1>12 DEF LoopAgain
<1>13. CASE LoopEnd
  BY <1>13 DEF LoopEnd, GoesOn, StopAtSuccess, AllSucceeded
<1>14. CASE PoolDone
  BY <1>14 DEF PoolDone, AllReturned, AllSucceeded
<1>15. ASSUME NEW n \in Nodes,
            Dispatch(n) \/ CheckResult(n) \/ OpenResult(n) \/
            StartResultFails(n) \/ EnterAgent(n) \/ AgentRefuses(n) \/
            LeaveAgent(n) \/ CloseResult(n) \/ CloseResultFails(n)
     PROVE  VerdictOK'
  BY <1>15 DEF Dispatch, CheckResult, OpenResult, StartResultFails,
               EnterAgent, AgentRefuses, LeaveAgent, CloseResult,
               CloseResultFails
<1>16. CASE FinishExecution \/ FinishExecutionFails \/ ReportFailure \/
          CancelExecution \/ ModifyJob \/ DeleteJob \/ DeleteGroup \/
          Interrupt \/ Crash \/ TimeLimitPasses \/ Ended
  BY <1>16 DEF FinishExecution, FinishExecutionFails, ReportFailure,
               CancelExecution, ModifyJob, DeleteJob, DeleteGroup,
               Interrupt, Crash, TimeLimitPasses, Ended, vars
<1> QED
  BY <1>1, <1>2, <1>3, <1>4, <1>5, <1>6, <1>7, <1>8, <1>9, <1>10, <1>11,
     <1>12, <1>13, <1>14, <1>15, <1>16
  DEF Next, Controller, Worker, Environment

\* The tracker is taken by one action at a time, and given back.
LEMMA TrackerStep ==
  ASSUME TypeOK, ControlOK, OrderOK, TrackerExact, Next
  PROVE  TrackerExact'
<1> USE ExecutionAssumption
       DEF TypeOK, DatabaseTypes, ControllerTypes, WorkerTypes, ControlOK,
           OrderOK, TrackerExact, TrackerFree
<1>1. ASSUME NEW n \in Nodes, Dispatch(n)  PROVE TrackerExact'
  BY <1>1 DEF Dispatch
<1>2. ASSUME NEW n \in Nodes, CheckResult(n)  PROVE TrackerExact'
  BY <1>2 DEF CheckResult
<1>3. ASSUME NEW n \in Nodes, OpenResult(n)  PROVE TrackerExact'
  BY <1>3 DEF OpenResult
<1>4. ASSUME NEW n \in Nodes, StartResultFails(n)  PROVE TrackerExact'
  BY <1>4 DEF StartResultFails
<1>5. ASSUME NEW n \in Nodes, EnterAgent(n)  PROVE TrackerExact'
  BY <1>5 DEF EnterAgent
<1>6. ASSUME NEW n \in Nodes, AgentRefuses(n)  PROVE TrackerExact'
  BY <1>6 DEF AgentRefuses
<1>7. ASSUME NEW n \in Nodes, LeaveAgent(n)  PROVE TrackerExact'
  BY <1>7 DEF LeaveAgent
<1>8. ASSUME NEW n \in Nodes, CloseResult(n)  PROVE TrackerExact'
  BY <1>8 DEF CloseResult
<1>9. ASSUME NEW n \in Nodes, CloseResultFails(n)  PROVE TrackerExact'
  BY <1>9 DEF CloseResultFails
<1>10. CASE LaunchParallel \/ NextNode
  BY <1>10 DEF LaunchParallel, NextNode
<1>11. CASE Interrupt
  BY <1>11 DEF Interrupt
<1>12. CASE Crash
  BY <1>12 DEF Crash
<1>13. CASE StartExecution \/ StartExecutionFails \/ LaunchEmpty \/
          LaunchSequential \/ CheckCancelled \/ CheckRaises \/
          NodeRaised \/ FirstSuccess \/ LoopTimeout \/ LoopAgain \/
          LoopEnd \/ PoolDone \/ FinishExecution \/
          FinishExecutionFails \/ ReportFailure \/ CancelExecution \/
          ModifyJob \/ DeleteJob \/ DeleteGroup \/ TimeLimitPasses \/
          Ended
  <2>1. UNCHANGED <<pc, tracker>>
    BY <1>13 DEF StartExecution, StartExecutionFails, LaunchEmpty,
                 LaunchSequential, CheckCancelled, CheckRaises, NodeRaised,
                 FirstSuccess, LoopTimeout, LoopAgain, LoopEnd, PoolDone,
                 FinishExecution, FinishExecutionFails, ReportFailure,
                 CancelExecution, ModifyJob, DeleteJob, DeleteGroup,
                 TimeLimitPasses, Ended, vars
  <2> QED
    BY <2>1
<1> QED
  BY <1>1, <1>2, <1>3, <1>4, <1>5, <1>6, <1>7, <1>8, <1>9, <1>10, <1>11,
     <1>12, <1>13
  DEF Next, Controller, Worker, Environment

\* The loop and the pool wait for their workers, unless interrupted.
LEMMA QuietStep ==
  ASSUME TypeOK, ControlOK, RowOK, OrderOK, NodesOK, QuietOK, Next
  PROVE  QuietOK'
<1> USE ExecutionAssumption
       DEF TypeOK, DatabaseTypes, ControllerTypes, WorkerTypes, ControlOK,
           RowOK, OrderOK, NodesOK, QuietOK, Over, Stored, Untouched,
           VersionCurrent, Succeeded, GoesOn
<1>1. CASE StartExecution
  BY <1>1 DEF StartExecution
<1>2. CASE LaunchParallel
  BY <1>2 DEF LaunchParallel
<1>3. CASE NextNode
  BY <1>3 DEF NextNode
<1>4. CASE PoolDone
  <2>1. \A m \in Nodes : pc[m] \in Returned \cup {"idle"}
    BY <1>4 DEF PoolDone, AllReturned
  <2>2. QuietOK'
    BY <1>4, <2>1 DEF PoolDone
  <2> QED
    BY <2>1, <2>2
<1>5. CASE LoopEnd
  BY <1>5 DEF LoopEnd
<1>6. CASE FinishExecution
  BY <1>6 DEF FinishExecution
<1>7. CASE Interrupt
  BY <1>7 DEF Interrupt
<1>8. CASE Crash
  BY <1>8 DEF Crash
<1>9. CASE CancelExecution
  BY <1>9 DEF CancelExecution
<1>10. CASE DeleteGroup
  BY <1>10 DEF DeleteGroup
<1>11. ASSUME NEW n \in Nodes,
            Dispatch(n) \/ CheckResult(n) \/ OpenResult(n) \/
            StartResultFails(n) \/ EnterAgent(n) \/ AgentRefuses(n) \/
            LeaveAgent(n) \/ CloseResult(n) \/ CloseResultFails(n)
     PROVE  QuietOK'
  BY <1>11 DEF Dispatch, CheckResult, OpenResult, StartResultFails,
               EnterAgent, AgentRefuses, LeaveAgent, CloseResult,
               CloseResultFails
<1>12. CASE StartExecutionFails \/ LaunchEmpty \/ LaunchSequential \/
          CheckCancelled \/ CheckRaises \/ NodeRaised \/ FirstSuccess \/
          LoopTimeout \/ LoopAgain \/ FinishExecutionFails \/
          ReportFailure \/ ModifyJob \/ DeleteJob \/ TimeLimitPasses \/
          Ended
  BY <1>12 DEF StartExecutionFails, LaunchEmpty, LaunchSequential,
               CheckCancelled, CheckRaises, NodeRaised, FirstSuccess,
               LoopTimeout, LoopAgain, FinishExecutionFails, ReportFailure,
               ModifyJob, DeleteJob, TimeLimitPasses, Ended, vars
<1> QED
  BY <1>1, <1>2, <1>3, <1>4, <1>5, <1>6, <1>7, <1>8, <1>9, <1>10, <1>11,
     <1>12
  DEF Next, Controller, Worker, Environment

\* Each new version of the row marks the starts that have read the old one.
LEMMA StaleStep ==
  ASSUME TypeOK, ControlOK, RowOK, QuietOK, StaleOK, Next
  PROVE  StaleOK'
<1> USE ExecutionAssumption
       DEF TypeOK, DatabaseTypes, ControllerTypes, WorkerTypes, ControlOK,
           RowOK, QuietOK, StaleOK, Over
<1>1. CASE FinishExecution
  BY <1>1 DEF FinishExecution
<1>2. CASE CancelExecution
  BY <1>2 DEF CancelExecution
<1>3. CASE Interrupt
  BY <1>3 DEF Interrupt
<1>4. ASSUME NEW n \in Nodes,
            Dispatch(n) \/ CheckResult(n) \/ OpenResult(n) \/
            StartResultFails(n) \/ EnterAgent(n) \/ AgentRefuses(n) \/
            LeaveAgent(n) \/ CloseResult(n) \/ CloseResultFails(n)
     PROVE  StaleOK'
  BY <1>4 DEF Dispatch, CheckResult, OpenResult, StartResultFails,
               EnterAgent, AgentRefuses, LeaveAgent, CloseResult,
               CloseResultFails
<1>5. CASE StartExecution \/ StartExecutionFails \/ LaunchEmpty \/
          LaunchSequential \/ LaunchParallel \/ CheckCancelled \/
          CheckRaises \/ NextNode \/ NodeRaised \/ FirstSuccess \/
          LoopTimeout \/ LoopAgain \/ LoopEnd \/ PoolDone \/
          FinishExecutionFails \/ ReportFailure \/ ModifyJob \/ DeleteJob \/
          DeleteGroup \/ Crash \/ TimeLimitPasses \/ Ended
  BY <1>5 DEF StartExecution, StartExecutionFails, LaunchEmpty,
               LaunchSequential, LaunchParallel, CheckCancelled,
               CheckRaises, NextNode, NodeRaised, FirstSuccess, LoopTimeout,
               LoopAgain, LoopEnd, PoolDone, FinishExecutionFails,
               ReportFailure, ModifyJob, DeleteJob, DeleteGroup, Crash,
               TimeLimitPasses, Ended, vars
<1> QED
  BY <1>1, <1>2, <1>3, <1>4, <1>5
  DEF Next, Controller, Worker, Environment

\* An exception has one of the known reasons, and these do not go away.
LEMMA ExceptionStep ==
  ASSUME TypeOK, ControlOK, RowOK, OrderOK, NodesOK, QuietOK, StaleOK,
         ExceptionOK, Next
  PROVE  ExceptionOK'
<1> USE ExecutionAssumption
       DEF TypeOK, DatabaseTypes, ControllerTypes, WorkerTypes, ControlOK,
           RowOK, OrderOK, NodesOK, QuietOK, StaleOK, ExceptionOK,
           Exceptional, Over, VersionCurrent
<1>1. ASSUME NEW n \in Nodes, StartResultFails(n)  PROVE ExceptionOK'
  BY <1>1 DEF StartResultFails
<1>2. ASSUME NEW n \in Nodes, AgentRefuses(n)  PROVE ExceptionOK'
  BY <1>2 DEF AgentRefuses
<1>3. ASSUME NEW n \in Nodes, LeaveAgent(n)  PROVE ExceptionOK'
  BY <1>3 DEF LeaveAgent
<1>4. ASSUME NEW n \in Nodes, CloseResult(n)  PROVE ExceptionOK'
  BY <1>4 DEF CloseResult
<1>5. ASSUME NEW n \in Nodes, CloseResultFails(n)  PROVE ExceptionOK'
  BY <1>5 DEF CloseResultFails
<1>6. ASSUME NEW n \in Nodes,
            Dispatch(n) \/ CheckResult(n) \/ OpenResult(n) \/ EnterAgent(n)
     PROVE  ExceptionOK'
  BY <1>6 DEF Dispatch, CheckResult, OpenResult, EnterAgent
<1>7. CASE StartExecution \/ StartExecutionFails \/ LaunchEmpty \/
          LaunchSequential \/ LaunchParallel \/ CheckCancelled \/
          CheckRaises \/ NextNode \/ NodeRaised \/ FirstSuccess \/
          LoopTimeout \/ LoopAgain \/ LoopEnd \/ PoolDone \/
          FinishExecution \/ FinishExecutionFails \/ ReportFailure \/
          CancelExecution \/ ModifyJob \/ DeleteJob \/ DeleteGroup \/
          Interrupt \/ Crash \/ TimeLimitPasses \/ Ended
  BY <1>7 DEF StartExecution, StartExecutionFails, LaunchEmpty,
               LaunchSequential, LaunchParallel, CheckCancelled,
               CheckRaises, NextNode, NodeRaised, FirstSuccess, LoopTimeout,
               LoopAgain, LoopEnd, PoolDone, FinishExecution,
               FinishExecutionFails, ReportFailure, CancelExecution,
               ModifyJob, DeleteJob, DeleteGroup, Interrupt, Crash,
               TimeLimitPasses, Ended, vars
<1> QED
  BY <1>1, <1>2, <1>3, <1>4, <1>5, <1>6, <1>7
  DEF Next, Controller, Worker, Environment

\* Once it was asked to cancel, the loop does not reach another node.
LEMMA LateStep ==
  ASSUME TypeOK, ControlOK, RowOK, OrderOK, LateOK, Next
  PROVE  LateOK'
<1> USE ExecutionAssumption
       DEF TypeOK, DatabaseTypes, ControllerTypes, WorkerTypes, ControlOK,
           RowOK, OrderOK, LateOK
<1>1. ASSUME NEW n \in Nodes, EnterAgent(n)  PROVE LateOK'
  BY <1>1 DEF EnterAgent
<1>2. ASSUME NEW n \in Nodes,
            Dispatch(n) \/ CheckResult(n) \/ OpenResult(n) \/
            StartResultFails(n) \/ AgentRefuses(n) \/ LeaveAgent(n) \/
            CloseResult(n) \/ CloseResultFails(n)
     PROVE  LateOK'
  BY <1>2 DEF Dispatch, CheckResult, OpenResult, StartResultFails,
               AgentRefuses, LeaveAgent, CloseResult, CloseResultFails
<1>3. CASE StartExecution \/ StartExecutionFails \/ LaunchEmpty \/
          LaunchSequential \/ LaunchParallel \/ CheckCancelled \/
          CheckRaises \/ NextNode \/ NodeRaised \/ FirstSuccess \/
          LoopTimeout \/ LoopAgain \/ LoopEnd \/ PoolDone \/
          FinishExecution \/ FinishExecutionFails \/ ReportFailure \/
          CancelExecution \/ ModifyJob \/ DeleteJob \/ DeleteGroup \/
          Interrupt \/ Crash \/ TimeLimitPasses \/ Ended
  BY <1>3 DEF StartExecution, StartExecutionFails, LaunchEmpty,
               LaunchSequential, LaunchParallel, CheckCancelled,
               CheckRaises, NextNode, NodeRaised, FirstSuccess, LoopTimeout,
               LoopAgain, LoopEnd, PoolDone, FinishExecution,
               FinishExecutionFails, ReportFailure, CancelExecution,
               ModifyJob, DeleteJob, DeleteGroup, Interrupt, Crash,
               TimeLimitPasses, Ended, vars
<1> QED
  BY <1>1, <1>2, <1>3
  DEF Next, Controller, Worker, Environment

\* A mail is sent after the end, for a reason that stays.
LEMMA MailStep ==
  ASSUME TypeOK, ControlOK, RowOK, MailOK, Next
  PROVE  MailOK'
<1> USE ExecutionAssumption
       DEF TypeOK, DatabaseTypes, ControllerTypes, WorkerTypes, ControlOK,
           RowOK, MailOK, Unsuccessful
<1>1. ASSUME NEW n \in Nodes,
            Dispatch(n) \/ CheckResult(n) \/ OpenResult(n) \/
            StartResultFails(n) \/ EnterAgent(n) \/ AgentRefuses(n) \/
            LeaveAgent(n) \/ CloseResult(n) \/ CloseResultFails(n)
     PROVE  MailOK'
  BY <1>1 DEF Dispatch, CheckResult, OpenResult, StartResultFails,
               EnterAgent, AgentRefuses, LeaveAgent, CloseResult,
               CloseResultFails
<1>2. CASE StartExecution \/ StartExecutionFails \/ LaunchEmpty \/
          LaunchSequential \/ LaunchParallel \/ CheckCancelled \/
          CheckRaises \/ NextNode \/ NodeRaised \/ FirstSuccess \/
          LoopTimeout \/ LoopAgain \/ LoopEnd \/ PoolDone \/
          FinishExecution \/ FinishExecutionFails \/ ReportFailure \/
          CancelExecution \/ ModifyJob \/ DeleteJob \/ DeleteGroup \/
          Interrupt \/ Crash \/ TimeLimitPasses \/ Ended
  BY <1>2 DEF StartExecution, StartExecutionFails, LaunchEmpty,
               LaunchSequential, LaunchParallel, CheckCancelled,
               CheckRaises, NextNode, NodeRaised, FirstSuccess, LoopTimeout,
               LoopAgain, LoopEnd, PoolDone, FinishExecution,
               FinishExecutionFails, ReportFailure, CancelExecution,
               ModifyJob, DeleteJob, DeleteGroup, Interrupt, Crash,
               TimeLimitPasses, Ended, vars
<1> QED
  BY <1>1, <1>2
  DEF Next, Controller, Worker, Environment

\* The nodes, and so the workers that run, are finitely many.
LEMMA RunningFinite == IsFiniteSet(Running) /\ Cardinality(Running) \in Nat
<1>1. IsFiniteSet(Nodes)
  BY ExecutionAssumption, FS_Interval
<1>2. Running \subseteq Nodes
  BY DEF Running
<1> QED
  BY <1>1, <1>2, FS_Subset, FS_CardinalityType

\* As long as no worker begins to run, a bound on their number stays.
LEMMA RunningBound ==
  ASSUME Running' \subseteq Running, Cardinality(Running) <= plan.pool,
         plan.pool \in Nat
  PROVE  Cardinality(Running') <= plan.pool
<1>1. /\ Cardinality(Running') <= Cardinality(Running)
      /\ Cardinality(Running') \in Nat /\ Cardinality(Running) \in Nat
  BY RunningFinite, FS_Subset, FS_CardinalityType
<1> QED
  BY <1>1

\* Two workers run only if the pool has two threads.
LEMMA TwoRunning ==
  ASSUME NEW m \in Running, NEW n \in Running, m # n
  PROVE  Cardinality(Running) > 1
<1>1. /\ IsFiniteSet({m}) /\ Cardinality({m}) = 1
      /\ IsFiniteSet({m} \cup {n})
      /\ Cardinality({m} \cup {n}) = Cardinality({m}) + 1
  BY FS_Singleton, FS_AddElement
<1>2. {m} \cup {n} \subseteq Running
  OBVIOUS
<1>3. Cardinality({m} \cup {n}) <= Cardinality(Running)
  BY <1>2, RunningFinite, FS_Subset
<1> QED
  BY <1>1, <1>3, RunningFinite

\* A step keeps the pool within its threads, and each refusal has its cause.
LEMMA PoolStep ==
  ASSUME TypeOK, ControlOK, OrderOK, NodesOK, TrackerExact, PoolOK, Next
  PROVE  PoolOK'
<1> USE DEF TypeOK, ControllerTypes, WorkerTypes
<1>1. CASE StartExecution
  <2>1. Running' = {} /\ \A n \in Nodes : outcome'[n] = "none"
    BY <1>1 DEF StartExecution, ControlOK, NodesOK, Untouched, Running
  <2>2. plan'.pool \in Nat /\ Cardinality({}) = 0
    BY <1>1, ExecutionAssumption, FS_EmptySet
    DEF StartExecution, DatabaseTypes
  <2> QED
    BY <2>1, <2>2 DEF PoolOK
<1>2. CASE NextNode
  BY <1>2 DEF NextNode, PoolOK, ControlOK
<1>3. ASSUME NEW n \in Nodes, Dispatch(n)  PROVE PoolOK'
  <2>1. Running' = Running \cup {n} /\ n \notin Running
    BY <1>3 DEF Dispatch, Running
  <2>2. Cardinality(Running') = Cardinality(Running) + 1
    BY <2>1, RunningFinite, FS_AddElement
  <2>3. Cardinality(Running) < plan.pool /\ UNCHANGED <<plan, outcome>>
    BY <1>3 DEF Dispatch, ThreadFree
  <2>4. Cardinality(Running') <= plan.pool
    BY <2>2, <2>3, RunningFinite
  <2> QED
    BY <2>3, <2>4 DEF PoolOK
<1>4. ASSUME NEW n \in Nodes, AgentRefuses(n)  PROVE PoolOK'
  <2>1. Running' = Running /\ UNCHANGED plan
    BY <1>4 DEF AgentRefuses, Running
  <2>2. ASSUME plan.readable
        PROVE  Parallel /\ plan.pool > 1
    <3>1. PICK m \in Nodes : pc[m] = "acting"
      BY <1>4, <2>2 DEF AgentRefuses, TrackerFree, TrackerExact
    <3>2. m \in Running /\ n \in Running /\ m # n
      BY <1>4, <3>1 DEF AgentRefuses, Running
    <3>3. Parallel
      BY <3>2 DEF OrderOK, Running
    <3>4. Cardinality(Running) > 1 /\ Cardinality(Running) <= plan.pool
      BY <3>2, <3>3, TwoRunning DEF PoolOK
    <3> QED
      BY <3>3, <3>4, RunningFinite
  <2>3. \A m \in Nodes :
          outcome'[m] = "refused" => outcome[m] = "refused" \/ m = n
    BY <1>4 DEF AgentRefuses
  <2> QED
    BY <2>1, <2>2, <2>3 DEF PoolOK
<1>5. ASSUME NEW n \in Nodes, LeaveAgent(n)  PROVE PoolOK'
  <2>1. Running' = Running /\ UNCHANGED plan
    BY <1>5 DEF LeaveAgent, Running
  <2>2. \A m \in Nodes : outcome'[m] = "refused" => outcome[m] = "refused"
    BY <1>5 DEF LeaveAgent
  <2> QED
    BY <2>1, <2>2 DEF PoolOK
<1>6. ASSUME NEW n \in Nodes,
             CheckResult(n) \/ OpenResult(n) \/ StartResultFails(n) \/
             EnterAgent(n) \/ CloseResult(n) \/ CloseResultFails(n)
      PROVE  PoolOK'
  <2>1. Running' \subseteq Running
    BY <1>6 DEF CheckResult, OpenResult, StartResultFails, EnterAgent,
                CloseResult, CloseResultFails, Running
  <2>2. UNCHANGED <<plan, outcome>>
    BY <1>6 DEF CheckResult, OpenResult, StartResultFails, EnterAgent,
                CloseResult, CloseResultFails
  <2> QED
    BY <2>1, <2>2, RunningBound DEF PoolOK
<1>7. CASE LaunchParallel \/ Interrupt \/ Crash
  <2>1. \A n \in Nodes : pc'[n] \in {pc[n], "queued", "dropped", "lost"}
    <3>1. CASE LaunchParallel
      BY <3>1 DEF LaunchParallel
    <3>2. CASE Interrupt
      BY <3>2 DEF Interrupt
    <3>3. CASE Crash
      BY <3>3 DEF Crash
    <3> QED
      BY <1>7, <3>1, <3>2, <3>3
  <2>2. UNCHANGED <<plan, outcome>>
    BY <1>7 DEF LaunchParallel, Interrupt, Crash
  <2>3. Running' \subseteq Running
    BY <2>1 DEF Running
  <2> QED
    BY <2>2, <2>3, RunningBound DEF PoolOK
<1>8. CASE StartExecutionFails \/ LaunchEmpty \/ LaunchSequential \/
          CheckCancelled \/ CheckRaises \/ NodeRaised \/ FirstSuccess \/
          LoopTimeout \/ LoopAgain \/ LoopEnd \/ PoolDone \/
          FinishExecution \/ FinishExecutionFails \/ ReportFailure \/
          CancelExecution \/ ModifyJob \/ DeleteJob \/ DeleteGroup \/
          TimeLimitPasses \/ Ended
  <2>1. UNCHANGED <<plan, outcome, pc>>
    BY <1>8 DEF StartExecutionFails, LaunchEmpty, LaunchSequential,
                CheckCancelled, CheckRaises, NodeRaised, FirstSuccess,
                LoopTimeout, LoopAgain, LoopEnd, PoolDone, FinishExecution,
                FinishExecutionFails, ReportFailure, CancelExecution,
                ModifyJob, DeleteJob, DeleteGroup, TimeLimitPasses, Ended,
                vars
  <2> QED
    BY <2>1 DEF PoolOK, Running
<1> QED
  BY <1>1, <1>2, <1>3, <1>4, <1>5, <1>6, <1>7, <1>8
  DEF Next, Controller, Worker, Environment

----------------------------------------------------------------------------
(* The inductive invariant.                                                *)

\* The initial states satisfy every part.
LEMMA InitIInv == Init => IInv
<1> SUFFICES ASSUME Init  PROVE IInv
  OBVIOUS
<1> USE ExecutionAssumption DEF Init
<1>1. TypeOK
  <2>1. DatabaseTypes
    BY DEF DatabaseTypes
  <2>2. cur \in 0 .. plan.size
    OBVIOUS
  <2>3. ControllerTypes
    <3>1. plan \in [size: 0 .. MaxNodes, allNodes: BOOLEAN, pool: Nat,
                  limited: BOOLEAN, readable: BOOLEAN]
      OBVIOUS
    <3>2. ctl \in CtlState /\ verdict \in Status \ {"INPROGRESS"}
      OBVIOUS
    <3>3. manual \in BOOLEAN /\ expired \in BOOLEAN /\ mail \in BOOLEAN
      OBVIOUS
    <3>4. seen \in {"yes", "no", "null"}
      OBVIOUS
    <3> QED
      BY <2>2, <3>1, <3>2, <3>3, <3>4 DEF ControllerTypes
  <2>4. WorkerTypes
    BY DEF WorkerTypes
  <2>5. faults \in 0 .. MaxFaults
    OBVIOUS
  <2> QED
    BY <2>1, <2>3, <2>4, <2>5 DEF TypeOK
<1>2. ControlOK /\ RowOK /\ OrderOK
  BY DEF ControlOK, RowOK, OrderOK
<1>3. NodesOK /\ VerdictOK /\ TrackerExact
  BY DEF NodesOK, VerdictOK, TrackerExact, Untouched
<1>4. QuietOK /\ StaleOK /\ ExceptionOK /\ LateOK /\ MailOK
  BY DEF QuietOK, StaleOK, ExceptionOK, LateOK, MailOK, Over
<1>5. PoolOK
  <2>1. Running = {} /\ Cardinality({}) = 0 /\ plan.pool = 0
    BY FS_EmptySet DEF Running
  <2> QED
    BY <2>1 DEF PoolOK
<1> QED
  BY <1>1, <1>2, <1>3, <1>4, <1>5 DEF IInv

\* A step, or a stutter, keeps every part.
LEMMA NextIInv == IInv /\ [Next]_vars => IInv'
<1> SUFFICES ASSUME IInv, [Next]_vars  PROVE IInv'
  OBVIOUS
<1>1. CASE Next
  BY <1>1, TypeStep, ControlStep, RowStep, OrderStep, NodesStep, VerdictStep,
     TrackerStep, QuietStep, StaleStep, PoolStep, ExceptionStep, LateStep,
     MailStep
  DEF IInv
<1>2. CASE UNCHANGED vars
  <2> USE <1>2 DEF vars, IInv
  <2>1. TypeOK'
    BY DEF TypeOK, DatabaseTypes, ControllerTypes, WorkerTypes
  <2>2. ControlOK' /\ RowOK' /\ OrderOK'
    BY DEF ControlOK, RowOK, OrderOK
  <2>3. NodesOK' /\ VerdictOK' /\ TrackerExact'
    BY DEF NodesOK, VerdictOK, TrackerExact, Untouched, Succeeded
  <2>4. QuietOK' /\ StaleOK' /\ ExceptionOK' /\ LateOK' /\ MailOK'
    BY DEF QuietOK, StaleOK, ExceptionOK, Exceptional, LateOK, MailOK, Over
  <2>5. PoolOK'
    BY DEF PoolOK, Running
  <2> QED
    BY <2>1, <2>2, <2>3, <2>4, <2>5
<1> QED
  BY <1>1, <1>2

\* The inductive invariant holds in every reachable state.
THEOREM Invariance == Spec => []IInv
<1> QED
  BY InitIInv, NextIInv, PTL DEF Spec

----------------------------------------------------------------------------
(* What follows from it.                                                   *)

\* Every variable keeps its type; the sequential loop never walks past the
\* nodes that startExecution selected.
THEOREM TypeCorrect == Spec => []TypeOK
<1>1. IInv => TypeOK
  BY DEF IInv
<1> QED
  BY <1>1, Invariance, PTL

\* ActionAgentImpl runs at most one action of an execution at a time, and its
\* tracker tells exactly whether one is running.
THEOREM TrackerCorrect == Spec => []TrackerExact
<1>1. IInv => TrackerExact
  BY DEF IInv
<1> QED
  BY <1>1, Invariance, PTL

\* The results that are stored justify the verdict: while the row exists, a
\* node's place and its result row agree (NodesOK), and VerdictOK tells the
\* places.
LEMMA Justification ==
  ASSUME IInv, execRow = "live", verdict # "EXCEPTION", ctl \notin InTry
  PROVE  Record!Justified(verdict)
<1> USE ExecutionAssumption
    DEF IInv, TypeOK, DatabaseTypes, ControllerTypes, WorkerTypes, OrderOK,
        NodesOK, VerdictOK, Succeeded, Untouched, Record!Justified,
        Record!TriedOnly, Record!NoSuccessSoFar, Record!Settled, Record!Nodes
<1>1. CASE verdict = "SUCCEED" /\ plan.allNodes
  BY <1>1
<1>2. CASE verdict = "SUCCEED" /\ ~plan.allNodes
  <2>1. cur \in 1 .. plan.size /\ result[cur] = "ok"
    BY <1>2
  <2>2. \A n \in 1 .. (cur - 1) : result[n] = "failed"
    BY <1>2, <2>1
  <2>3. \A n \in Nodes : n > cur => result[n] = "none"
    BY <1>2
  <2>4. Record!TriedOnly(cur)
    BY <2>1, <2>2, <2>3
  <2> QED
    BY <1>2, <2>1, <2>2, <2>4
<1>3. CASE verdict = "FAILED"
  BY <1>3
<1>4. CASE verdict \in {"TIMEOUT", "CANCELED"}
  <2>1. \A n \in Nodes : n > cur => result[n] = "none"
    BY <1>4
  <2>2. \A n \in 1 .. cur :
          result[n] \in Record!Settled /\ (result[n] = "ok" => plan.allNodes)
    BY <1>4
  <2>3. Record!TriedOnly(cur) /\ Record!NoSuccessSoFar
    BY <2>1, <2>2
  <2>4. cur \in 0 .. (plan.size - 1) /\ (verdict = "TIMEOUT" => cur > 0)
    BY <1>4
  <2>5. CASE verdict = "TIMEOUT"
    <3>1. cur \in 1 .. (plan.size - 1)
      BY <2>4, <2>5
    <3> QED
      BY <2>3, <2>5, <3>1
  <2>6. CASE verdict = "CANCELED"
    BY <2>3, <2>4, <2>6
  <2> QED
    BY <1>4, <2>5, <2>6
<1>5. CASE verdict = "EMPTYNODES"
  BY <1>5
<1> QED
  BY <1>1, <1>2, <1>3, <1>4, <1>5

\* The status of a closed execution agrees with the results of its nodes.
THEOREM StatusCorrect == Spec => []StatusJustified
<1>1. IInv => StatusJustified
  <2> SUFFICES ASSUME IInv, execRow = "live", finished
               PROVE  Record!Justified(status)
    BY DEF StatusJustified
  <2>1. status = verdict /\ ctl \notin InTry
    BY DEF IInv, RowOK
  <2>2. CASE verdict = "EXCEPTION"
    BY <2>1, <2>2 DEF Record!Justified
  <2>3. CASE verdict # "EXCEPTION"
    BY <2>1, <2>3, Justification
  <2> QED
    BY <2>2, <2>3
<1> QED
  BY <1>1, Invariance, PTL

\* CANCELED, TIMEOUT and EXCEPTION have their reasons, and the first two leave
\* the pending nodes alone.
THEOREM EndCorrect == Spec => []EndExplained
<1>1. IInv => EndExplained
  BY ExecutionAssumption
  DEF IInv, TypeOK, DatabaseTypes, ControllerTypes, RowOK, OrderOK, VerdictOK,
      PoolOK, ExceptionOK, Exceptional, EndExplained
<1> QED
  BY <1>1, Invariance, PTL

\* A job that needs only one node never succeeds on two of them.
THEOREM OneSuccessCorrect == Spec => []OneSuccess
<1>1. IInv => OneSuccess
  BY ExecutionAssumption
  DEF IInv, TypeOK, ControllerTypes, OrderOK, NodesOK, OneSuccess, Untouched
<1> QED
  BY <1>1, Invariance, PTL

\* A cancelled sequential execution acts on at most one more node.
THEOREM CancelCorrect == Spec => []CancelBounded
<1>1. IInv => CancelBounded
  BY DEF IInv, LateOK, CancelBounded
<1> QED
  BY <1>1, Invariance, PTL

\* Without an interrupt or a failing transaction no result stays open.
THEOREM ResultsCorrect == Spec => []ResultsClosed
<1>1. IInv => ResultsClosed
  <2> SUFFICES ASSUME IInv, finished, faults = 0, ~interrupted,
                      NEW n \in Nodes, result[n] = "open"
               PROVE  FALSE
    BY DEF ResultsClosed
  <2>1. pc[n] \notin Active \cup {"queued", "lost", "raised"}
    BY DEF IInv, QuietOK, Over
  <2>2. pc[n] \in {"idle", "dropped", "returned"}
    BY <2>1 DEF IInv, TypeOK, WorkerTypes
  <2> QED
    BY <2>2 DEF IInv, NodesOK, Untouched
<1> QED
  BY <1>1, Invariance, PTL

\* No result is started on a finished execution: the row's version catches the
\* start that read the execution before it was finished.
THEOREM NoLateStart == Spec => NoStartAfterFinish
<1>1. ASSUME IInv, Next, finished, NEW n \in Nodes, result'[n] = "open"
      PROVE  result[n] = "open"
  <2> USE <1>1 DEF IInv, TypeOK, DatabaseTypes, WorkerTypes
  <2>1. CASE DeleteGroup
    BY <2>1 DEF DeleteGroup
  <2>2. ASSUME NEW m \in Nodes, OpenResult(m)  PROVE FALSE
    BY <2>2 DEF OpenResult, VersionCurrent, StaleOK
  <2>3. ASSUME NEW m \in Nodes, CloseResult(m)  PROVE result[n] = "open"
    BY <2>3 DEF CloseResult, Stored
  <2>4. CASE UNCHANGED result
    BY <2>4
  <2> QED
    BY <2>1, <2>2, <2>3, <2>4
    DEF Next, Controller, Worker, Environment, Ended, vars, StartExecution,
        StartExecutionFails, LaunchEmpty, LaunchSequential, LaunchParallel,
        CheckCancelled, CheckRaises, NextNode, NodeRaised, FirstSuccess,
        LoopTimeout, LoopAgain, LoopEnd, PoolDone, FinishExecution,
        FinishExecutionFails, ReportFailure, Dispatch, CheckResult,
        StartResultFails, EnterAgent, AgentRefuses, LeaveAgent,
        CloseResultFails, CancelExecution, ModifyJob, DeleteJob, Interrupt,
        Crash, TimeLimitPasses
<1>2. IInv /\ [Next]_vars =>
        [finished => \A n \in Nodes :
                       result'[n] = "open" => result[n] = "open"]_vars
  BY <1>1
<1> QED
  BY <1>2, Invariance, PTL DEF Spec, NoStartAfterFinish

\* A failure is reported if the job was there and wanted it, a success never.
THEOREM ReportCorrect == Spec => []FailureReported
<1>1. IInv => FailureReported
  BY DEF IInv, MailOK, FailureReported
<1> QED
  BY <1>1, Invariance, PTL

\* Only an execution that ended with an exception leaves a worker behind.
LEMMA LeftBehind ==
  ASSUME IInv, finished, NEW n \in Nodes, pc[n] = "acted"
  PROVE  status = "EXCEPTION"
<1> USE ExecutionAssumption
    DEF IInv, TypeOK, DatabaseTypes, ControllerTypes, WorkerTypes, RowOK,
        OrderOK, VerdictOK, Succeeded
<1>1. status = verdict /\ n <= plan.size
  OBVIOUS
<1>2. CASE verdict \in {"SUCCEED", "FAILED"}
  BY <1>1, <1>2
<1>3. CASE verdict \in {"TIMEOUT", "CANCELED"}
  BY <1>1, <1>3
<1>4. CASE verdict = "EMPTYNODES"
  BY <1>1, <1>4
<1> QED
  BY <1>1, <1>2, <1>3, <1>4

\* Every step changes the rows as a step of ExecutionRecord does, or not at
\* all.
LEMMA RecordStep ==
  ASSUME IInv, Next
  PROVE  Record!Next \/ UNCHANGED Record!vars
<1> USE ExecutionAssumption DEF Record!vars, Record!Nodes
<1>1. CASE StartExecution
  <2>1. execRow = "none" /\ ~finished
    BY <1>1 DEF StartExecution, IInv, ControlOK, RowOK
  <2>2. plan'.size \in 0 .. MaxNodes /\ plan'.allNodes \in BOOLEAN
    BY TypeStep DEF IInv, TypeOK, ControllerTypes
  <2>3. Record!Open
    BY <1>1, <2>1, <2>2 DEF StartExecution, Record!Open, IInv, RowOK
  <2> QED
    BY <2>3 DEF Record!Next
<1>2. CASE FinishExecution
  <2>1. Record!Justified(verdict)
    <3>1. CASE verdict = "EXCEPTION"
      BY <3>1 DEF Record!Justified
    <3>2. CASE verdict # "EXCEPTION"
      BY <1>2, <3>2, Justification DEF FinishExecution
    <3> QED
      BY <3>1, <3>2
  <2>2. verdict \in Record!Final
    BY DEF IInv, TypeOK, ControllerTypes, Record!Final
  <2>3. Record!Close(verdict)
    BY <1>2, <2>1 DEF FinishExecution, Record!Close
  <2> QED
    BY <2>2, <2>3 DEF Record!Next
<1>3. CASE CancelExecution
  <2>1. Record!Cancel
    BY <1>3 DEF CancelExecution, Record!Cancel
  <2> QED
    BY <2>1 DEF Record!Next
<1>4. CASE DeleteGroup
  <2>1. CASE attached /\ execRow = "live"
    <3>1. Record!Delete
      BY <1>4, <2>1 DEF DeleteGroup, Record!Delete
    <3> QED
      BY <3>1 DEF Record!Next
  <2>2. CASE ~attached
    BY <1>4, <2>2 DEF DeleteGroup
  <2>3. CASE attached /\ execRow # "live"
    <3>1. execRow = "gone" /\ result = [n \in Nodes |-> "none"]
      BY <2>3 DEF IInv, TypeOK, DatabaseTypes, ControlOK, NodesOK
    <3> QED
      BY <1>4, <2>3, <3>1 DEF DeleteGroup
  <2> QED
    BY <2>1, <2>2, <2>3
<1>5. ASSUME NEW n \in Nodes, OpenResult(n)
      PROVE  Record!Next
  <2>1. ~finished /\ result[n] = "none" /\ n <= plan.size
    BY <1>5 DEF OpenResult, VersionCurrent, IInv, TypeOK, ControllerTypes,
                StaleOK, NodesOK, Untouched, OrderOK
  <2>2. Record!BeginNode(n)
    BY <1>5, <2>1 DEF OpenResult, VersionCurrent, Record!BeginNode
  <2> QED
    BY <2>2 DEF Record!Next
<1>6. ASSUME NEW n \in Nodes, CloseResult(n)
      PROVE  Record!Next
  <2>1. execRow = "live"
    BY <1>6 DEF CloseResult, IInv, NodesOK
  <2>2. finished => status = "EXCEPTION"
    BY <1>6, LeftBehind DEF CloseResult
  <2>3. Stored(outcome[n]) \in Record!Settled
    BY DEF Stored, Record!Settled
  <2>4. Record!EndNode(n)
    BY <1>6, <2>1, <2>2, <2>3 DEF CloseResult, Record!EndNode
  <2> QED
    BY <2>4 DEF Record!Next
<1>7. ASSUME NEW n \in Nodes,
            Dispatch(n) \/ CheckResult(n) \/ StartResultFails(n) \/
            EnterAgent(n) \/ AgentRefuses(n) \/ LeaveAgent(n) \/
            CloseResultFails(n)
      PROVE  UNCHANGED Record!vars
  BY <1>7 DEF Dispatch, CheckResult, StartResultFails, EnterAgent,
              AgentRefuses, LeaveAgent, CloseResultFails
<1>8. CASE StartExecutionFails \/ LaunchEmpty \/ LaunchSequential \/
          LaunchParallel \/ CheckCancelled \/ CheckRaises \/ NextNode \/
          NodeRaised \/ FirstSuccess \/ LoopTimeout \/ LoopAgain \/
          LoopEnd \/ PoolDone \/ FinishExecutionFails \/ ReportFailure \/
          ModifyJob \/ DeleteJob \/ Interrupt \/ Crash \/ TimeLimitPasses \/
          Ended
  BY <1>8 DEF StartExecutionFails, LaunchEmpty, LaunchSequential,
              LaunchParallel, CheckCancelled, CheckRaises, NextNode,
              NodeRaised, FirstSuccess, LoopTimeout, LoopAgain, LoopEnd,
              PoolDone, FinishExecutionFails, ReportFailure, ModifyJob,
              DeleteJob, Interrupt, Crash, TimeLimitPasses, Ended, vars
<1> QED
  BY <1>1, <1>2, <1>3, <1>4, <1>5, <1>6, <1>7, <1>8
  DEF Next, Controller, Worker, Environment

\* The detailed model implements the record that its readers rely on.
THEOREM Refinement == Spec => ImplementsRecord
<1>1. Init => Record!Init
  BY DEF Init, Record!Init, Record!Nodes
<1>2. IInv /\ [Next]_vars => [Record!Next]_(Record!vars)
  <2>1. ASSUME IInv, Next  PROVE Record!Next \/ UNCHANGED Record!vars
    BY <2>1, RecordStep
  <2>2. ASSUME UNCHANGED vars  PROVE UNCHANGED Record!vars
    BY <2>2 DEF vars, Record!vars
  <2> QED
    BY <2>1, <2>2
<1> QED
  BY <1>1, <1>2, Invariance, PTL DEF Spec, ImplementsRecord, Record!Spec
=============================================================================
