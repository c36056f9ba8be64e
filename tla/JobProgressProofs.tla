-------------------------- MODULE JobProgressProofs --------------------------
(***************************************************************************)
(* Why an execution comes to its end, whatever is cancelled, deleted or    *)
(* failing meanwhile: every step of a thread takes it to a later stage of  *)
(* executeJob or executeJobNode, nothing ever takes one back, there are    *)
(* finitely many stages, and until the controller is done some thread has  *)
(* a step to take.  EventuallyClosed adds to this only that the threads    *)
(* are scheduled, and is left to model checking.                           *)
(***************************************************************************)
EXTENDS JobExecutionProofs, WellFoundedInduction

\* How far the controller has come.  A node of the sequential loop takes two
\* stages: its turn, and the check that precedes the next one.
CtlStage ==
  CASE ctl = "waiting" -> 0
    [] ctl = "launch"  -> 1
    [] ctl = "pool"    -> 2
    [] ctl = "node"    -> 2 * cur + 1
    [] ctl = "check"   -> 2 * cur + 2
    [] ctl = "finish"  -> 2 * plan.size + 2
    [] ctl = "report"  -> 2 * plan.size + 3
    [] ctl = "done"    -> 2 * plan.size + 4
    [] ctl = "crashed" -> 2 * plan.size + 5

\* How far a worker has come.
NodeStage(n) ==
  CASE pc[n] = "idle"    -> 0
    [] pc[n] = "queued"  -> 1
    [] pc[n] = "ready"   -> 2
    [] pc[n] = "checked" -> 3
    [] pc[n] = "begun"   -> 4
    [] pc[n] = "acting"  -> 5
    [] pc[n] = "acted"   -> 6
    [] pc[n] \in Returned \cup {"dropped", "lost"} -> 7

\* The last stages there are.
StagesBounded ==
  /\ CtlStage \in 0 .. (2 * MaxNodes + 5)
  /\ \A n \in Nodes : NodeStage(n) \in 0 .. 7

\* A step of a thread takes it forward, and no step of anybody takes it back.
Forward ==
  /\ CtlStage <= CtlStage' /\ \A n \in Nodes : NodeStage(n) <= NodeStage(n)'
  /\ Controller => CtlStage < CtlStage'
  /\ \A n \in Nodes : Worker(n) => NodeStage(n) < NodeStage(n)'

\* The guards of the controller's actions, and those of a worker's: at each
\* place that is named without a condition one of the actions is possible
\* whatever the rows say.
ControllerCan ==
  \/ ctl \in {"waiting", "launch", "check", "finish", "report"}
  \/ ctl = "node" /\ pc[cur] \in Returned
  \/ ctl = "pool" /\ AllReturned

WorkerCan(n) ==
  \/ pc[n] \in Active
  \/ /\ ctl = "pool" /\ pc[n] = "queued" /\ ThreadFree
     /\ \A m \in 1 .. (n - 1) : pc[m] # "queued"

\* Until the controller is done it is not waiting for a worker that is gone,
\* nor a worker for a thread that nobody gives back.
NeverStuck ==
  ctl \in {"done", "crashed"} \/ ControllerCan \/ \E n \in Nodes : WorkerCan(n)

\* When it is done the execution is closed, unless a transaction failed.
DoneClosed == ctl = "done" /\ RowOpen => faults > 0

\* The workers for which the controller waits are under way or have ended.
AliveOK ==
  /\ ctl = "node" => pc[cur] \in Active \cup Returned
  /\ ctl = "pool" =>
       \A n \in Selected : pc[n] \in {"queued"} \cup Active \cup Returned
  /\ DoneClosed

USE DEF Nodes, Settings, Status, CtlState, Active, Returned, Outcome, PcState,
        Selected, Parallel, dbVars, ctlVars, nodeVars, ghosts, otherDbVars,
        NoFault, Fault, Conclude, Goto, Quiet, Step, NewVersion, Launching,
        InTry, RowOpen, CancelRequested, HasNext

----------------------------------------------------------------------------
(* Stages.                                                                 *)

\* There are finitely many stages.
LEMMA StageTypes ==
  ASSUME IInv
  PROVE  StagesBounded
<1> USE ExecutionAssumption
<1>1. cur \in 0 .. plan.size /\ plan.size \in 0 .. MaxNodes /\ MaxNodes \in Nat
  BY DEF IInv, TypeOK, ControllerTypes
<1>2. ctl \in CtlState
  BY DEF IInv, TypeOK, ControllerTypes
<1>3. CtlStage \in 0 .. (2 * MaxNodes + 5)
  <2>1. CASE ctl \in {"waiting", "launch", "pool"}
    <3>1. CtlStage \in {0, 1, 2}
      BY <2>1 DEF CtlStage
    <3> QED
      BY <1>1, <3>1
  <2>2. CASE ctl \in {"node", "check"}
    <3>1. CtlStage \in {2 * cur + 1, 2 * cur + 2}
      BY <2>2 DEF CtlStage
    <3> QED
      BY <1>1, <3>1
  <2>3. CASE ctl \in {"finish", "report", "done", "crashed"}
    <3>1. CtlStage \in {2 * plan.size + 2, 2 * plan.size + 3,
                        2 * plan.size + 4, 2 * plan.size + 5}
      BY <2>3 DEF CtlStage
    <3> QED
      BY <1>1, <3>1
  <2> QED
    BY <1>2, <2>1, <2>2, <2>3
<1>4. \A n \in Nodes : pc[n] \in PcState
  BY DEF IInv, TypeOK, WorkerTypes
<1>5. \A n \in Nodes : NodeStage(n) \in 0 .. 7
  BY <1>4 DEF NodeStage
<1> QED
  BY <1>3, <1>5 DEF StagesBounded

\* The controller's steps.
LEMMA ControllerForward ==
  ASSUME IInv, Controller
  PROVE  /\ CtlStage' \in Int /\ CtlStage < CtlStage'
         /\ \A n \in Nodes : NodeStage(n) <= NodeStage(n)'
<1>1. /\ cur \in 0 .. plan.size /\ plan.size \in 0 .. MaxNodes
      /\ MaxNodes \in Nat /\ pc \in [Nodes -> PcState]
  BY ExecutionAssumption DEF IInv, TypeOK, ControllerTypes, WorkerTypes
<1>2. \A n \in Nodes : NodeStage(n) \in 0 .. 7
  BY StageTypes DEF StagesBounded
<1>3. ASSUME UNCHANGED pc
      PROVE  \A n \in Nodes : NodeStage(n) <= NodeStage(n)'
  <2>1. \A n \in Nodes : NodeStage(n)' = NodeStage(n)
    BY <1>3 DEF NodeStage
  <2> QED
    BY <1>2, <2>1
<1>4. CASE StartExecution
  BY <1>1, <1>3, <1>4 DEF StartExecution, CtlStage
<1>5. CASE StartExecutionFails
  BY <1>1, <1>3, <1>5 DEF StartExecutionFails, CtlStage
<1>6. CASE LaunchEmpty
  BY <1>1, <1>3, <1>6 DEF LaunchEmpty, CtlStage
<1>7. CASE LaunchSequential
  BY <1>1, <1>3, <1>7 DEF LaunchSequential, CtlStage, IInv, ControlOK
<1>8. CASE LaunchParallel
  <2>1. CtlStage' \in Int /\ CtlStage < CtlStage'
    BY <1>8 DEF LaunchParallel, CtlStage
  <2>2. \A n \in Nodes : pc[n] = "idle"
    BY <1>8 DEF LaunchParallel, IInv, ControlOK
  <2>3. \A n \in Nodes : NodeStage(n) = 0
    BY <2>2 DEF NodeStage
  <2>4. \A n \in Nodes : pc'[n] \in {"idle", "queued"}
    BY <1>8, <2>2 DEF LaunchParallel
  <2>5. \A n \in Nodes : NodeStage(n)' \in {0, 1}
    BY <2>4 DEF NodeStage
  <2> QED
    BY <2>1, <2>3, <2>5
<1>9. CASE CheckCancelled
  BY <1>1, <1>3, <1>9 DEF CheckCancelled, CtlStage, IInv, ControlOK
<1>10. CASE CheckRaises
  BY <1>1, <1>3, <1>10 DEF CheckRaises, CtlStage, IInv, ControlOK
<1>11. CASE NextNode
  <2>1. CtlStage' \in Int /\ CtlStage < CtlStage'
    BY <1>1, <1>11 DEF NextNode, CtlStage
  <2>2. cur + 1 \in Nodes /\ pc[cur + 1] = "idle"
    BY <1>1, <1>11 DEF NextNode, IInv, ControlOK, OrderOK
  <2>3. pc' = [pc EXCEPT ![cur + 1] = "ready"]
    BY <1>11 DEF NextNode
  <2>4. \A n \in Nodes : n # cur + 1 => pc'[n] = pc[n]
    BY <1>1, <2>3
  <2>5. \A n \in Nodes : n # cur + 1 => NodeStage(n)' = NodeStage(n)
    BY <2>4 DEF NodeStage
  <2>6. NodeStage(cur + 1) = 0
    BY <2>2 DEF NodeStage
  <2>7. \A n \in Nodes : n = cur + 1 => NodeStage(n)' = 2
    BY <1>1, <2>3 DEF NodeStage
  <2> QED
    BY <1>2, <2>1, <2>2, <2>5, <2>6, <2>7
<1>12. CASE NodeRaised \/ FirstSuccess
  BY <1>1, <1>3, <1>12 DEF NodeRaised, FirstSuccess, CtlStage
<1>13. CASE LoopTimeout \/ LoopAgain
  BY <1>1, <1>3, <1>13 DEF LoopTimeout, LoopAgain, CtlStage
<1>14. CASE LoopEnd
  BY <1>1, <1>3, <1>14 DEF LoopEnd, CtlStage
<1>15. CASE PoolDone
  BY <1>1, <1>3, <1>15 DEF PoolDone, CtlStage, IInv, ControlOK
<1>16. CASE FinishExecution
  BY <1>1, <1>3, <1>16 DEF FinishExecution, CtlStage
<1>17. CASE FinishExecutionFails
  BY <1>1, <1>3, <1>17 DEF FinishExecutionFails, CtlStage
<1>18. CASE ReportFailure
  BY <1>1, <1>3, <1>18 DEF ReportFailure, CtlStage
<1> QED
  BY <1>4, <1>5, <1>6, <1>7, <1>8, <1>9, <1>10, <1>11, <1>12, <1>13, <1>14,
     <1>15, <1>16, <1>17, <1>18 DEF Controller

\* A worker's steps.
LEMMA WorkerForward ==
  ASSUME IInv, NEW n \in Nodes, Worker(n)
  PROVE  /\ CtlStage' = CtlStage
         /\ NodeStage(n)' \in Int /\ NodeStage(n) < NodeStage(n)'
         /\ \A m \in Nodes : m # n => NodeStage(m)' = NodeStage(m)
<1>1. pc \in [Nodes -> PcState]
  BY DEF IInv, TypeOK, WorkerTypes
<1>2. PICK c : pc' = [pc EXCEPT ![n] = c]
  BY DEF Worker, Dispatch, CheckResult, OpenResult, StartResultFails,
         EnterAgent, AgentRefuses, LeaveAgent, CloseResult, CloseResultFails
<1>3. UNCHANGED <<ctl, cur, plan>>
  BY DEF Worker, Dispatch, CheckResult, OpenResult, StartResultFails,
         EnterAgent, AgentRefuses, LeaveAgent, CloseResult, CloseResultFails
<1>4. \A m \in Nodes : m # n => pc'[m] = pc[m]
  BY <1>1, <1>2
<1>5. \/ pc[n] = "queued" /\ pc'[n] = "ready"
      \/ pc[n] = "ready" /\ pc'[n] \in {"checked", "raised"}
      \/ pc[n] = "checked" /\ pc'[n] \in {"begun", "raised"}
      \/ pc[n] = "begun" /\ pc'[n] \in {"acting", "acted"}
      \/ pc[n] = "acting" /\ pc'[n] = "acted"
      \/ pc[n] = "acted" /\ pc'[n] \in {"returned", "raised"}
  BY <1>1
  DEF Worker, Dispatch, CheckResult, OpenResult, StartResultFails,
      EnterAgent, AgentRefuses, LeaveAgent, CloseResult, CloseResultFails
<1>6. NodeStage(n)' \in Int /\ NodeStage(n) < NodeStage(n)'
  BY <1>5 DEF NodeStage
<1> QED
  BY <1>3, <1>4, <1>6 DEF CtlStage, NodeStage

\* What users, other servers, the clock and the machine do to a thread.
LEMMA EnvironmentForward ==
  ASSUME IInv, Environment \/ Ended
  PROVE  CtlStage <= CtlStage' /\ \A n \in Nodes : NodeStage(n) <= NodeStage(n)'
<1>1. /\ cur \in 0 .. plan.size /\ plan.size \in 0 .. MaxNodes
      /\ MaxNodes \in Nat /\ pc \in [Nodes -> PcState] /\ ctl \in CtlState
  BY ExecutionAssumption DEF IInv, TypeOK, ControllerTypes, WorkerTypes
<1>2. CtlStage \in Nat /\ \A n \in Nodes : NodeStage(n) \in 0 .. 7
  BY <1>1, StageTypes DEF StagesBounded
<1>3. CASE Interrupt
  <2>1. CtlStage <= CtlStage'
    BY <1>1, <1>3 DEF Interrupt, CtlStage
  <2>2. \A n \in Nodes : pc'[n] \in {pc[n], "dropped"}
    BY <1>1, <1>3 DEF Interrupt
  <2>3. \A n \in Nodes : NodeStage(n)' \in {NodeStage(n), 7}
    BY <2>2 DEF NodeStage
  <2> QED
    BY <1>2, <2>1, <2>3
<1>4. CASE Crash
  <2>1. CtlStage <= CtlStage'
    BY <1>1, <1>4 DEF Crash, CtlStage
  <2>2. \A n \in Nodes : pc'[n] \in {pc[n], "lost"}
    BY <1>1, <1>4 DEF Crash
  <2>3. \A n \in Nodes : NodeStage(n)' \in {NodeStage(n), 7}
    BY <2>2 DEF NodeStage
  <2> QED
    BY <1>2, <2>1, <2>3
<1>5. CASE CancelExecution \/ ModifyJob \/ DeleteJob \/ DeleteGroup \/
          TimeLimitPasses \/ Ended
  <2>1. UNCHANGED <<ctl, cur, plan, pc>>
    BY <1>5 DEF CancelExecution, ModifyJob, DeleteJob, DeleteGroup,
                TimeLimitPasses, Ended, vars
  <2>2. CtlStage' = CtlStage /\ \A n \in Nodes : NodeStage(n)' = NodeStage(n)
    BY <2>1 DEF CtlStage, NodeStage
  <2> QED
    BY <1>2, <2>2
<1> QED
  BY <1>3, <1>4, <1>5 DEF Environment

\* Each step of a thread takes it to a later stage of its method, for any
\* number of nodes and whatever is cancelled, deleted or failing meanwhile; no
\* step of anybody takes a thread back.
THEOREM ForwardOnly == Spec => [][Forward]_vars
<1>1. ASSUME IInv, Next
      PROVE  Forward
  <2>1. CtlStage \in Nat /\ \A n \in Nodes : NodeStage(n) \in Nat
    <3>1. 2 * MaxNodes + 5 \in Nat
      BY ExecutionAssumption
    <3> QED
      BY <1>1, <3>1, StageTypes DEF StagesBounded
  <2>2. Controller => CtlStage < CtlStage'
    BY <1>1, ControllerForward
  <2>3. \A n \in Nodes : Worker(n) => NodeStage(n) < NodeStage(n)'
    BY <1>1, WorkerForward
  <2>4. CtlStage <= CtlStage' /\ \A n \in Nodes : NodeStage(n) <= NodeStage(n)'
    <3>1. CASE Controller
      <4>1. /\ CtlStage' \in Int /\ CtlStage < CtlStage'
            /\ \A n \in Nodes : NodeStage(n) <= NodeStage(n)'
        BY <1>1, <3>1, ControllerForward
      <4> QED
        BY <2>1, <4>1
    <3>2. ASSUME NEW n \in Nodes, Worker(n)
          PROVE  /\ CtlStage <= CtlStage'
                 /\ \A m \in Nodes : NodeStage(m) <= NodeStage(m)'
      <4>1. /\ CtlStage' = CtlStage
            /\ NodeStage(n)' \in Int /\ NodeStage(n) < NodeStage(n)'
            /\ \A m \in Nodes : m # n => NodeStage(m)' = NodeStage(m)
        BY <1>1, <3>2, WorkerForward
      <4> QED
        BY <2>1, <4>1
    <3>3. CASE Environment \/ Ended
      BY <1>1, <3>3, EnvironmentForward
    <3> QED
      BY <1>1, <3>1, <3>2, <3>3 DEF Next
  <2> QED
    BY <2>2, <2>3, <2>4 DEF Forward
<1>2. IInv /\ [Next]_vars => [Forward]_vars
  BY <1>1
<1> QED
  BY <1>2, Invariance, PTL DEF Spec

----------------------------------------------------------------------------
(* Waiting.                                                                *)

\* A step keeps the workers alive for which the controller waits.
LEMMA AliveStep ==
  ASSUME IInv, AliveOK, Next
  PROVE  AliveOK'
<1> USE DEF AliveOK, DoneClosed
<1>1. /\ cur \in 0 .. plan.size /\ plan.size \in 0 .. MaxNodes
      /\ MaxNodes \in Nat /\ pc \in [Nodes -> PcState] /\ faults \in Nat
  BY ExecutionAssumption DEF IInv, TypeOK, ControllerTypes, WorkerTypes
<1>2. CASE StartExecution \/ StartExecutionFails
  BY <1>2 DEF StartExecution, StartExecutionFails, IInv, ControlOK
<1>3. CASE LaunchEmpty \/ LaunchSequential
  BY <1>3 DEF LaunchEmpty, LaunchSequential
<1>4. CASE LaunchParallel
  BY <1>1, <1>4 DEF LaunchParallel
<1>5. CASE CheckCancelled \/ CheckRaises
  BY <1>5 DEF CheckCancelled, CheckRaises
<1>6. CASE NextNode
  BY <1>1, <1>6 DEF NextNode, IInv, ControlOK
<1>7. CASE NodeRaised \/ FirstSuccess \/ LoopTimeout \/ LoopAgain \/
          LoopEnd \/ PoolDone
  BY <1>7 DEF NodeRaised, FirstSuccess, LoopTimeout, LoopAgain, LoopEnd,
              PoolDone
<1>8. CASE FinishExecution \/ FinishExecutionFails \/ ReportFailure
  BY <1>1, <1>8 DEF FinishExecution, FinishExecutionFails, ReportFailure, IInv,
                    RowOK
<1>9. ASSUME NEW n \in Nodes, Worker(n)
      PROVE  AliveOK'
  <2>1. /\ UNCHANGED <<ctl, cur, plan, execRow, finished>> /\ faults' >= faults
        /\ faults' \in Nat
    BY <1>1, <1>9
    DEF Worker, Dispatch, CheckResult, OpenResult, StartResultFails,
        EnterAgent, AgentRefuses, LeaveAgent, CloseResult, CloseResultFails
  <2>2. pc'[n] \in Active \cup Returned
    BY <1>1, <1>9
    DEF Worker, Dispatch, CheckResult, OpenResult, StartResultFails,
        EnterAgent, AgentRefuses, LeaveAgent, CloseResult, CloseResultFails
  <2>3. PICK c : pc' = [pc EXCEPT ![n] = c]
    BY <1>9
    DEF Worker, Dispatch, CheckResult, OpenResult, StartResultFails,
        EnterAgent, AgentRefuses, LeaveAgent, CloseResult, CloseResultFails
  <2>4. \A m \in Nodes : m # n => pc'[m] = pc[m]
    BY <1>1, <2>3
  <2>5. ctl = "node" => cur \in Nodes
    BY <1>1 DEF IInv, ControlOK
  <2> QED
    BY <1>1, <2>1, <2>2, <2>4, <2>5
<1>10. CASE CancelExecution \/ ModifyJob \/ DeleteJob \/ DeleteGroup \/
           TimeLimitPasses \/ Ended
  BY <1>10 DEF CancelExecution, ModifyJob, DeleteJob, DeleteGroup,
               TimeLimitPasses, Ended, vars
<1>11. CASE Interrupt \/ Crash
  BY <1>11 DEF Interrupt, Crash
<1> QED
  BY <1>2, <1>3, <1>4, <1>5, <1>6, <1>7, <1>8, <1>9, <1>10, <1>11
  DEF Next, Controller, Environment

LEMMA InitAlive == Init => AliveOK
<1> QED
  BY DEF Init, AliveOK, DoneClosed

\* It holds in every reachable state.
LEMMA AliveInvariance == Spec => []AliveOK
<1>1. IInv /\ AliveOK /\ [Next]_vars => AliveOK'
  <2>1. ASSUME UNCHANGED vars, AliveOK  PROVE AliveOK'
    BY <2>1 DEF vars, AliveOK, DoneClosed
  <2> QED
    BY <2>1, AliveStep
<1> QED
  BY <1>1, InitAlive, Invariance, PTL DEF Spec

\* The pool's queue has a first node, if it has any.
LEMMA FirstQueued ==
  ASSUME NEW q \in Nodes, pc[q] = "queued"
  PROVE  \E n \in Nodes : pc[n] = "queued" /\ \A m \in 1 .. (n - 1) : pc[m] # "queued"
<1> DEFINE Below == {ss \in Nat \X Nat : ss[1] < ss[2]}
           S == {n \in Nodes : pc[n] = "queued"}
<1>1. S \subseteq Nat /\ q \in S
  BY ExecutionAssumption
<1>2. IsWellFoundedOn(Below, Nat)
  BY NatLessThanWellFounded, Zenon DEF OpToRel
<1> HIDE DEF S, Below
<1>3. PICK n \in S : \A m \in S : ~ (<<m, n>> \in Below)
  BY <1>1, <1>2, WFMin
<1>4. ASSUME NEW m \in 1 .. (n - 1), pc[m] = "queued"
      PROVE  FALSE
  <2>1. n \in Nodes /\ n \in Nat /\ m \in Nat /\ m < n /\ m \in Nodes
    BY <1>1, ExecutionAssumption DEF S
  <2>2. m \in S
    BY <1>4, <2>1 DEF S
  <2>3. <<m, n>> \in Below
    BY <2>1 DEF Below
  <2> QED
    BY <1>3, <2>2, <2>3
<1> QED
  BY <1>3, <1>4 DEF S

\* Until the controller is done, it or one of the workers has a step to take:
\* the loop and invokeAll wait only for workers that come to an end, and a
\* queued node only for a thread that is given back.
THEOREM AlwaysAStep == Spec => []NeverStuck
<1>1. ASSUME IInv, AliveOK
      PROVE  NeverStuck
  <2>1. /\ cur \in 0 .. plan.size /\ plan.size \in 0 .. MaxNodes
        /\ MaxNodes \in Nat /\ plan.pool \in Nat /\ ctl \in CtlState
    BY <1>1, ExecutionAssumption DEF IInv, TypeOK, ControllerTypes
  <2>2. CASE ctl = "node"
    <3>1. cur \in Nodes /\ pc[cur] \in Active \cup Returned
      BY <1>1, <2>1, <2>2 DEF IInv, ControlOK, AliveOK
    <3> QED
      BY <2>2, <3>1 DEF NeverStuck, ControllerCan, WorkerCan
  <2>3. CASE ctl = "pool" /\ ~AllReturned
    <3>1. PICK q \in Nodes : pc[q] \in {"queued"} \cup Active
      BY <1>1, <2>1, <2>3 DEF AliveOK, AllReturned
    <3>2. CASE Running # {}
      BY <3>2 DEF Running, NeverStuck, WorkerCan
    <3>3. CASE Running = {}
      <4>1. pc[q] = "queued"
        BY <3>1, <3>3 DEF Running
      <4>2. ThreadFree
        BY <1>1, <2>1, <2>3, <3>3, FS_EmptySet
        DEF ThreadFree, IInv, ControlOK
      <4>3. PICK n \in Nodes : /\ pc[n] = "queued"
                               /\ \A m \in 1 .. (n - 1) : pc[m] # "queued"
        BY <4>1, FirstQueued
      <4> QED
        BY <2>3, <4>2, <4>3 DEF NeverStuck, WorkerCan
    <3> QED
      BY <3>2, <3>3
  <2>4. CASE ctl # "node" /\ ~(ctl = "pool" /\ ~AllReturned)
    BY <2>1, <2>4 DEF NeverStuck, ControllerCan
  <2> QED
    BY <2>2, <2>3, <2>4
<1> QED
  BY <1>1, Invariance, AliveInvariance, PTL

\* When the controller is done the execution's row is closed or deleted, or a
\* transaction failed.
THEOREM DoneMeansClosed == Spec => []DoneClosed
<1>1. AliveOK => DoneClosed
  BY DEF AliveOK
<1> QED
  BY <1>1, AliveInvariance, PTL

\* There are finitely many stages, so finitely many steps of the threads.
THEOREM StagesEnd == Spec => []StagesBounded
<1>1. IInv => StagesBounded
  BY StageTypes
<1> QED
  BY <1>1, Invariance, PTL

----------------------------------------------------------------------------
(* The good end.                                                           *)

\* Nothing that the code reports as an exception happened, and at most one
\* node was acted on at a time.
NoTrouble ==
  /\ plan.readable /\ faults = 0 /\ ~interrupted /\ ~cancelAsked /\ ~expired
  /\ Parallel => plan.pool = 1

\* An execution with nodes, in which no action failed and nothing else went
\* wrong, has succeeded when it is closed.
GoodEndsWell ==
  /\ execRow = "live" /\ finished /\ plan.size > 0 /\ NoTrouble
  /\ \A n \in Selected : outcome[n] \notin {"failed", "raised"}
  => status = "SUCCEED"

\* What ParallelSucceeds claims of every pool holds of a pool with one thread,
\* and of the sequential modes.
THEOREM GoodEnd == Spec => []GoodEndsWell
<1>1. ASSUME IInv, EndExplained
      PROVE  GoodEndsWell
  <2> SUFFICES ASSUME execRow = "live", finished, plan.size > 0, NoTrouble,
                      \A n \in Selected : outcome[n] \notin {"failed", "raised"}
               PROVE  status = "SUCCEED"
    BY DEF GoodEndsWell
  <2> USE <1>1 DEF NoTrouble
  <2>1. status = verdict /\ verdict \in Status \ {"INPROGRESS"}
    BY DEF IInv, RowOK, TypeOK, ControllerTypes
  <2>2. status \notin {"CANCELED", "TIMEOUT"}
    BY DEF EndExplained
  <2>3. \A n \in Nodes : outcome[n] # "raised"
    BY DEF IInv, TypeOK, ControllerTypes, WorkerTypes, OrderOK, NodesOK, Untouched
  <2>4. status # "EXCEPTION"
    BY <2>3 DEF EndExplained
  <2>5. status # "FAILED" /\ status # "EMPTYNODES"
    BY <2>1 DEF IInv, VerdictOK
  <2> QED
    BY <2>1, <2>2, <2>4, <2>5
<1> QED
  BY <1>1, Invariance, EndCorrect, PTL
=============================================================================
