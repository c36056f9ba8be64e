---------------------------- MODULE JobExecution ----------------------------
(***************************************************************************)
(* One execution of a scheduled job, from the moment Quartz (or a manual   *)
(* request) fires it until its row is closed and a failure is reported.    *)
(*                                                                         *)
(* Processes: the controller thread that runs                              *)
(* ScheduleJobExecutorServiceImpl.executeJob, one worker per execution     *)
(* node (in sequential mode the controller itself runs executeJobNode, so  *)
(* at most one worker moves), and the users who cancel the execution or    *)
(* change and delete the job.  Each method of                              *)
(* ScheduleExecutionManagementServiceImpl is one database transaction and  *)
(* one step, except startExecutionResult: it reads the execution and locks *)
(* it later, and the lock fails if the row got a new version in between.   *)
(***************************************************************************)
EXTENDS Naturals, FiniteSets

CONSTANTS
  MaxNodes,      \* bound on the nodes startExecution selects
  JobSettings,   \* the settings a job may have (see Settings)
  MaxFaults,     \* bound on the transactions that the database fails
  Disturbances   \* what the environment does in a run (see Disturbance)

Nodes == 1 .. MaxNodes

\* readable: the stored action definition can be unmarshalled.
Settings == [allNodes: BOOLEAN, pool: Nat, limited: BOOLEAN,
             notify: BOOLEAN, readable: BOOLEAN]

Disturbance == {"cancel", "modify", "deleteJob", "deleteGroup",
                "interrupt", "crash"}

ASSUME ExecutionAssumption ==
  /\ MaxNodes \in Nat \ {0}
  /\ JobSettings \subseteq Settings
  /\ MaxFaults \in Nat
  /\ Disturbances \subseteq Disturbance

Status == {"INPROGRESS", "SUCCEED", "FAILED", "CANCELED", "EXCEPTION",
           "TIMEOUT", "EMPTYNODES"}

CtlState == {"waiting", "launch", "check", "node", "pool", "finish",
             "report", "done", "crashed"}

\* A worker: idle, queued in the pool, then the points of executeJobNode.
Active   == {"ready", "checked", "begun", "acting", "acted"}
Returned == {"returned", "raised"}
Outcome  == {"none", "ok", "failed", "raised", "refused"}
PcState  == {"idle", "queued", "dropped", "lost"} \cup Active \cup Returned

VARIABLES
  \* the database
  jobRow,      \* the job's row exists
  settings,    \* the job's current settings
  execRow,     \* the execution's row: none, live, or gone (deleted)
  status,      \* its status column
  finished,    \* its finished column is set
  cancelled,   \* its cancelled column
  attached,    \* its job column is not null
  result,      \* per node, its result row: none, open, ok or failed
  \* the server that runs the execution
  manual,      \* started by executeManualJob
  plan,        \* the settings copied into the execution, and its node count
  ctl,         \* the controller's program counter
  cur,         \* the sequential loop's current node
  verdict,     \* the local variable "status" of executeJob
  expired,     \* timer.elapsed() > getTimeout(), if that is a limit
  pc,          \* the workers' program counters
  outcome,     \* what the action did on a node: none yet, ok, failed, raised,
               \* or refused by the agent
  tracker,     \* the execution is in ActionAgentImpl.executionTracker
  stale,       \* nodes whose startExecutionResult read a version of the
               \* execution that has been replaced since
  seen,        \* getJob().isNotifyOnFailure() of the entity finishExecution
               \* returned: yes, no, or null when getJob() is null
  mail,        \* notifyJobExecutionFailed was called
  \* history
  cancelAsked, \* cancelExecution succeeded at some time
  late,        \* nodes whose action was entered after that, one at a time
  interrupted, \* the controller was interrupted in invokeAll
  faults       \* transactions failed so far

dbVars   == <<jobRow, settings, execRow, status, finished, cancelled,
              attached, result>>
ctlVars  == <<manual, plan, ctl, cur, verdict, expired, seen, mail>>
nodeVars == <<pc, outcome, tracker, stale>>
ghosts   == <<cancelAsked, late, interrupted>>
vars     == <<dbVars, ctlVars, nodeVars, ghosts, faults>>

otherDbVars == <<jobRow, settings, execRow, status, finished, cancelled,
                 attached>>

Selected == 1 .. plan.size
Parallel == plan.allNodes /\ plan.pool > 0

Init ==
  /\ jobRow = TRUE
  /\ settings \in JobSettings
  /\ execRow = "none" /\ status = "INPROGRESS"
  /\ finished = FALSE /\ cancelled = FALSE /\ attached = FALSE
  /\ result = [n \in Nodes |-> "none"]
  /\ manual \in BOOLEAN
  /\ plan = [size |-> 0, allNodes |-> FALSE, pool |-> 0,
             limited |-> FALSE, readable |-> TRUE]
  /\ ctl = "waiting" /\ cur = 0 /\ verdict = "EXCEPTION" /\ expired = FALSE
  /\ pc = [n \in Nodes |-> "idle"] /\ outcome = [n \in Nodes |-> "none"]
  /\ tracker = FALSE /\ stale = {} /\ seen = "null" /\ mail = FALSE
  /\ cancelAsked = FALSE /\ late = {} /\ interrupted = FALSE /\ faults = 0

----------------------------------------------------------------------------
(* Transactions the database fails: the caller sees a RuntimeException.    *)

NoFault == UNCHANGED faults
Fault   == faults < MaxFaults /\ faults' = faults + 1

----------------------------------------------------------------------------
(* The controller: executeJob and what it calls.                           *)

\* Leave the try block: the finally block closes the execution with status v.
Conclude(v) ==
  /\ verdict' = v
  /\ ctl' = "finish"
  /\ UNCHANGED <<dbVars, manual, plan, cur, expired, seen, mail>>

\* The controller moves on, and nothing else but faults may change.
Goto(c) ==
  /\ ctl' = c
  /\ UNCHANGED <<dbVars, manual, plan, cur, verdict, expired, seen, mail,
                 nodeVars, ghosts>>

Quiet == UNCHANGED <<nodeVars, ghosts>>

\* startExecution: copies the job's settings and selects the nodes.
StartExecution ==
  /\ ctl = "waiting" /\ jobRow /\ NoFault
  /\ \E size \in 0 .. MaxNodes :
       plan' = [size |-> size, allNodes |-> settings.allNodes,
                pool |-> settings.pool, limited |-> settings.limited,
                readable |-> settings.readable]
  /\ execRow' = "live" /\ status' = "INPROGRESS" /\ attached' = TRUE
  /\ ctl' = "launch"
  /\ UNCHANGED <<jobRow, settings, finished, cancelled, result, manual, cur,
                 verdict, expired, seen, mail, nodeVars, ghosts>>

\* MissingEntityException, or the transaction failed: nothing was started.
StartExecutionFails ==
  /\ ctl = "waiting"
  /\ \/ ~jobRow /\ NoFault
     \/ Fault
  /\ Goto("done")

LaunchEmpty ==
  /\ ctl = "launch" /\ plan.size = 0
  /\ Conclude("EMPTYNODES") /\ Quiet /\ NoFault

LaunchSequential ==
  /\ ctl = "launch" /\ plan.size > 0 /\ ~Parallel
  /\ Goto("check") /\ NoFault

LaunchParallel ==
  /\ ctl = "launch" /\ plan.size > 0 /\ Parallel
  /\ ctl' = "pool"
  /\ pc' = [n \in Nodes |-> IF n \in Selected THEN "queued" ELSE pc[n]]
  /\ UNCHANGED <<dbVars, manual, plan, cur, verdict, expired, seen, mail,
                 outcome, tracker, stale, ghosts, faults>>

\* isCancelled() of the copy the loop has just read.  (Variant: of the copy
\* startExecution returned, which no later cancelExecution changes.)
CancelRequestedStale == FALSE
CancelRequested == cancelled

\* The sequential loop reads the execution again before each node ...
CheckCancelled ==
  /\ ctl = "check" /\ execRow = "live" /\ CancelRequested
  /\ Conclude("CANCELED") /\ Quiet /\ NoFault

\* ... fails when the row is gone (findExecution dereferences null) ...
CheckRaises ==
  /\ ctl = "check"
  /\ \/ execRow = "gone" /\ NoFault
     \/ Fault
  /\ Conclude("EXCEPTION") /\ Quiet

\* ... and otherwise calls executeJobNode for the next node.
NextNode ==
  /\ ctl = "check" /\ execRow = "live" /\ ~CancelRequested /\ NoFault
  /\ cur' = cur + 1
  /\ pc' = [pc EXCEPT ![cur + 1] = "ready"]
  /\ ctl' = "node"
  /\ UNCHANGED <<dbVars, manual, plan, verdict, expired, seen, mail, outcome,
                 tracker, stale, ghosts>>

Succeeded(n) == pc[n] = "returned" /\ outcome[n] = "ok"

\* succeedNodes == nodes.size().  (Variant: at least one node succeeded.)
AnySucceeded == \E n \in Selected : Succeeded(n)
AllSucceeded == \A n \in Selected : Succeeded(n)

\* After a success without "all nodes" the loop returns.  (Variant: the test
\* of allNodes is inverted.)
StopAtSuccessInverted == plan.allNodes
StopAtSuccess == ~plan.allNodes

\* executeJobNode threw: the status stays EXCEPTION.
NodeRaised ==
  /\ ctl = "node" /\ pc[cur] = "raised"
  /\ Conclude("EXCEPTION") /\ Quiet /\ NoFault

FirstSuccess ==
  /\ ctl = "node" /\ Succeeded(cur) /\ StopAtSuccess
  /\ Conclude("SUCCEED") /\ Quiet /\ NoFault

\* The loop goes on from a node it does not stop at.
GoesOn == pc[cur] = "returned" /\ ~(outcome[cur] = "ok" /\ StopAtSuccess)

\* nodeIterator.hasNext().  (Variant: one node too many.)
HasNextTooLong == cur <= plan.size
HasNext == cur < plan.size

\* The limit is enforced while nodes are pending.
Overdue == HasNext /\ expired

LoopTimeout ==
  /\ ctl = "node" /\ GoesOn /\ Overdue
  /\ Conclude("TIMEOUT") /\ Quiet /\ NoFault

LoopAgain ==
  /\ ctl = "node" /\ GoesOn /\ HasNext /\ ~Overdue
  /\ Goto("check") /\ NoFault

LoopEnd ==
  /\ ctl = "node" /\ GoesOn /\ ~HasNext
  /\ Conclude(IF plan.allNodes /\ AllSucceeded THEN "SUCCEED" ELSE "FAILED")
  /\ Quiet /\ NoFault

\* invokeAll returns when every worker has ended.  (Variant: invokeAny.)
SomeReturned == \E n \in Selected : pc[n] \in Returned
AllReturned  == \A n \in Selected : pc[n] \in Returned

\* The futures tell the status.
PoolDone ==
  /\ ctl = "pool" /\ AllReturned
  /\ Conclude(IF \E n \in Selected : pc[n] = "raised" THEN "EXCEPTION"
              ELSE IF AllSucceeded THEN "SUCCEED" ELSE "FAILED")
  /\ Quiet /\ NoFault

\* InterruptedException in invokeAll, or in awaitTermination after it: invokeAll
\* cancels the futures, so queued nodes never run, but the controller does not
\* wait for the running ones.
Interrupt ==
  /\ "interrupt" \in Disturbances
  /\ ctl = "pool"
  /\ Conclude("EXCEPTION")
  /\ pc' = [n \in Nodes |-> IF pc[n] = "queued" THEN "dropped" ELSE pc[n]]
  /\ interrupted' = TRUE
  /\ UNCHANGED <<outcome, tracker, stale, cancelAsked, late>> /\ NoFault

\* The row exists and its finished column is null.
RowOpen == execRow = "live" /\ ~finished

\* An update gives the execution's row a new version: a startExecutionResult
\* that has read it, and not locked it yet, holds the old one.
NewVersion ==
  /\ stale' = stale \cup {n \in Nodes : pc[n] = "checked"}
  /\ UNCHANGED <<pc, outcome, tracker>>

FinishExecution ==
  /\ ctl = "finish" /\ RowOpen /\ NoFault
  /\ NewVersion
  /\ finished' = TRUE /\ status' = verdict /\ cancelled' = FALSE
  /\ seen' = IF ~attached THEN "null"
             ELSE IF settings.notify THEN "yes" ELSE "no"
  /\ ctl' = IF manual THEN "done" ELSE "report"
  /\ UNCHANGED <<jobRow, settings, execRow, attached, result, manual, plan,
                 cur, verdict, expired, mail, ghosts>>

\* Missing or finished row, or the transaction failed: executeJob throws, and
\* QzerverJob logs the exception.
FinishExecutionFails ==
  /\ ctl = "finish"
  /\ \/ ~RowOpen /\ NoFault
     \/ Fault
  /\ Goto("done")

\* The status is worth a notification.
Unsuccessful == status # "SUCCEED"

\* The end of executeAutomaticJob.  With seen = null the call of
\* isNotifyOnFailure throws, and nothing is sent either.
ReportFailure ==
  /\ ctl = "report"
  /\ mail' = (Unsuccessful /\ seen = "yes")
  /\ ctl' = "done"
  /\ UNCHANGED <<dbVars, manual, plan, cur, verdict, expired, seen, nodeVars,
                 ghosts, faults>>

\* getTimeout() > 0.  (Variant: 0 is a limit like any other.)
LimitIgnored == TRUE
Limited == plan.limited

\* Time passes: the timer of the sequential loop exceeds the limit.
TimeLimitPasses ==
  /\ ctl \in {"check", "node"} /\ Limited /\ ~expired
  /\ expired' = TRUE
  /\ UNCHANGED <<dbVars, manual, plan, ctl, cur, verdict, seen, mail,
                 nodeVars, ghosts, faults>>

----------------------------------------------------------------------------
(* A worker: executeJobNode for node n.                                    *)

Step(n, c) == pc' = [pc EXCEPT ![n] = c] /\ UNCHANGED ctlVars

\* The pool has plan.pool threads.  (Variant: one less.)
Running == {m \in Nodes : pc[m] \in Active}
ThreadFreeButOne == Cardinality(Running) + 1 < plan.pool
ThreadFree == Cardinality(Running) < plan.pool

\* They take the nodes from a first-in first-out queue.
Dispatch(n) ==
  /\ ctl = "pool" /\ pc[n] = "queued"
  /\ \A m \in 1 .. (n - 1) : pc[m] # "queued"
  /\ ThreadFree
  /\ Step(n, "ready")
  /\ UNCHANGED <<dbVars, outcome, tracker, stale, ghosts, faults>>

\* startExecutionResult reads the execution: it must not be finished ...
CheckResult(n) ==
  /\ pc[n] = "ready" /\ RowOpen /\ NoFault
  /\ Step(n, "checked")
  /\ UNCHANGED <<dbVars, outcome, tracker, stale, ghosts>>

\* ... then locks the version it has read, and inserts the result.  (Variant:
\* the rows have no version, and nobody looks a second time.)
VersionIgnored(n) == execRow = "live"
VersionCurrent(n) == execRow = "live" /\ n \notin stale

OpenResult(n) ==
  /\ pc[n] = "checked" /\ VersionCurrent(n) /\ NoFault
  /\ result' = [result EXCEPT ![n] = "open"]
  /\ Step(n, "begun")
  /\ UNCHANGED <<otherDbVars, outcome, tracker, stale, ghosts>>

\* MissingEntityException, ExecutionAlreadyFinishedException, an old version
\* (StaleObjectStateException), or a failed transaction: no result row, and
\* executeJobNode throws.
StartResultFails(n) ==
  /\ \/ pc[n] = "ready" /\ ~RowOpen /\ NoFault
     \/ pc[n] = "checked" /\ ~VersionCurrent(n) /\ NoFault
     \/ pc[n] \in {"ready", "checked"} /\ Fault
  /\ Step(n, "raised")
  /\ UNCHANGED <<dbVars, outcome, tracker, stale, ghosts>>

\* executionTracker.putIfAbsent returned null.  (Variant: the answer of the
\* map is not looked at.)
TrackerIgnored == TRUE
TrackerFree == ~tracker

\* executeAction up to the executor: the tracker takes the execution's id.
EnterAgent(n) ==
  /\ pc[n] = "begun" /\ plan.readable /\ TrackerFree
  /\ tracker' = TRUE
  /\ Step(n, "acting")
  /\ late' = IF cancelAsked /\ ~Parallel THEN late \cup {n} ELSE late
  /\ UNCHANGED <<dbVars, outcome, stale, cancelAsked, interrupted, faults>>

\* The definition cannot be unmarshalled, or another node of this execution
\* holds its id ("Action is already perfomed"): an exception, no action.
AgentRefuses(n) ==
  /\ pc[n] = "begun" /\ (~plan.readable \/ ~TrackerFree)
  /\ outcome' = [outcome EXCEPT ![n] = "refused"]
  /\ Step(n, "acted")
  /\ UNCHANGED <<dbVars, tracker, stale, ghosts, faults>>

\* The executor returns a result or throws; the id is always given back.
LeaveAgent(n) ==
  /\ pc[n] = "acting"
  /\ \E o \in {"ok", "failed", "raised"} :
       outcome' = [outcome EXCEPT ![n] = o]
  /\ tracker' = FALSE
  /\ Step(n, "acted")
  /\ UNCHANGED <<dbVars, stale, ghosts, faults>>

\* What finishExecutionResult stores.  (Variant: the flag "succeed" is set
\* before the call instead of from its answer.)
StoredAlwaysOk(o) == "ok"
Stored(o) == IF o = "ok" THEN "ok" ELSE "failed"

\* The finally block of executeJobNode; after an exception it throws again.
CloseResult(n) ==
  /\ pc[n] = "acted" /\ result[n] = "open" /\ NoFault
  /\ result' = [result EXCEPT ![n] = Stored(outcome[n])]
  /\ Step(n, IF outcome[n] \in {"ok", "failed"} THEN "returned" ELSE "raised")
  /\ UNCHANGED <<otherDbVars, outcome, tracker, stale, ghosts>>

\* The result is missing or finished, or the transaction failed.
CloseResultFails(n) ==
  /\ pc[n] = "acted"
  /\ \/ result[n] # "open" /\ NoFault
     \/ Fault
  /\ Step(n, "raised")
  /\ UNCHANGED <<dbVars, outcome, tracker, stale, ghosts>>

----------------------------------------------------------------------------
(* Users, other servers, and the machine.                                  *)

\* A second request changes nothing, and makes no new version.
CancelExecution ==
  /\ "cancel" \in Disturbances /\ RowOpen
  /\ cancelled' = TRUE /\ cancelAsked' = TRUE
  /\ IF cancelled THEN UNCHANGED nodeVars ELSE NewVersion
  /\ UNCHANGED <<jobRow, settings, execRow, status, finished, attached,
                 result, ctlVars, late, interrupted, faults>>

\* modifyJob; it leaves the action alone.
ModifyJob ==
  /\ "modify" \in Disturbances /\ jobRow
  /\ \E s \in JobSettings :
       /\ s.readable = settings.readable
       /\ settings' = s
  /\ UNCHANGED <<jobRow, execRow, status, finished, cancelled, attached,
                 result, ctlVars, nodeVars, ghosts, faults>>

\* deleteJob: executions are detached before the row is deleted.
DeleteJob ==
  /\ "deleteJob" \in Disturbances /\ jobRow
  /\ jobRow' = FALSE /\ attached' = FALSE
  /\ UNCHANGED <<settings, execRow, status, finished, cancelled, result,
                 ctlVars, nodeVars, ghosts, faults>>

\* deleteGroup: the foreign keys cascade from the job to the executions that
\* still refer to it, their nodes and their results.  changeJobGroup does the
\* same when the flush deletes the job it moves (see JobScheduling).
DeleteGroup ==
  /\ "deleteGroup" \in Disturbances /\ jobRow
  /\ jobRow' = FALSE /\ attached' = FALSE
  /\ execRow' = IF attached THEN "gone" ELSE execRow
  /\ result'  = IF attached THEN [n \in Nodes |-> "none"] ELSE result
  /\ UNCHANGED <<settings, status, finished, cancelled, ctlVars, nodeVars,
                 ghosts, faults>>

\* The server dies.  Quartz does not recover the job (requestRecovery(false))
\* and no code closes the rows it leaves in progress.
Crash ==
  /\ "crash" \in Disturbances
  /\ ctl \notin {"waiting", "crashed"}
  /\ ctl # "done" \/ \E n \in Nodes : pc[n] \in Active
  /\ ctl' = "crashed" /\ tracker' = FALSE
  /\ pc' = [n \in Nodes |-> IF pc[n] \in Active \cup {"queued"} THEN "lost"
                            ELSE pc[n]]
  /\ UNCHANGED <<dbVars, manual, plan, cur, verdict, expired, seen, mail,
                 outcome, stale, ghosts, faults>>

\* Nothing is left to run.
Ended ==
  /\ ctl \in {"done", "crashed"} /\ \A n \in Nodes : pc[n] \notin Active
  /\ UNCHANGED vars

----------------------------------------------------------------------------
Controller ==
  \/ StartExecution \/ StartExecutionFails
  \/ LaunchEmpty \/ LaunchSequential \/ LaunchParallel
  \/ CheckCancelled \/ CheckRaises \/ NextNode
  \/ NodeRaised \/ FirstSuccess \/ LoopTimeout \/ LoopAgain \/ LoopEnd
  \/ PoolDone
  \/ FinishExecution \/ FinishExecutionFails \/ ReportFailure

Worker(n) ==
  \/ Dispatch(n) \/ CheckResult(n) \/ OpenResult(n) \/ StartResultFails(n)
  \/ EnterAgent(n) \/ AgentRefuses(n) \/ LeaveAgent(n)
  \/ CloseResult(n) \/ CloseResultFails(n)

Environment ==
  \/ CancelExecution \/ ModifyJob \/ DeleteJob \/ DeleteGroup
  \/ Interrupt \/ Crash \/ TimeLimitPasses

Next ==
  \/ Controller
  \/ \E n \in Nodes : Worker(n)
  \/ Environment
  \/ Ended

\* Threads run, and every action executor returns in the end; nothing else is
\* promised (no cancellation, no deletion, no crash, no clock).
Fairness ==
  /\ WF_vars(Controller)
  /\ \A n \in Nodes : WF_vars(Worker(n))

Spec     == Init /\ [][Next]_vars
FairSpec == Spec /\ Fairness

----------------------------------------------------------------------------
(* Properties.                                                             *)

DatabaseTypes ==
  /\ jobRow \in BOOLEAN /\ settings \in JobSettings
  /\ execRow \in {"none", "live", "gone"} /\ status \in Status
  /\ finished \in BOOLEAN /\ cancelled \in BOOLEAN /\ attached \in BOOLEAN
  /\ result \in [Nodes -> {"none", "open", "ok", "failed"}]

ControllerTypes ==
  /\ manual \in BOOLEAN
  /\ plan \in [size: 0 .. MaxNodes, allNodes: BOOLEAN, pool: Nat,
                limited: BOOLEAN, readable: BOOLEAN]
  /\ ctl \in CtlState /\ cur \in 0 .. plan.size
  /\ verdict \in Status \ {"INPROGRESS"} /\ expired \in BOOLEAN
  /\ seen \in {"yes", "no", "null"} /\ mail \in BOOLEAN

WorkerTypes ==
  /\ pc \in [Nodes -> PcState] /\ outcome \in [Nodes -> Outcome]
  /\ tracker \in BOOLEAN /\ stale \subseteq Nodes

\* Types of the variables.  The loop of executeJobNodesSequentially never
\* walks past the nodes that startExecution selected.
TypeOK ==
  /\ DatabaseTypes
  /\ ControllerTypes
  /\ WorkerTypes
  /\ cancelAsked \in BOOLEAN /\ late \subseteq Nodes
  /\ interrupted \in BOOLEAN /\ faults \in 0 .. MaxFaults

\* What a reader of the database sees of the execution.
Record == INSTANCE ExecutionRecord WITH
            phase <- IF execRow = "live"
                     THEN IF finished THEN "closed" ELSE "open"
                     ELSE execRow,
            size <- plan.size, allNodes <- plan.allNodes

\* The status of a closed execution agrees with the results of its nodes
\* (executeJobNodesSequentially, executeJobNodesParallel), whatever was
\* deleted, cancelled, interrupted, failed or crashed on the way.
StatusJustified == execRow = "live" /\ finished => Record!Justified(status)

\* The rows behave like an execution record: the detailed model implements
\* ExecutionRecord.  In particular a closed execution is never reopened,
\* cancelled or given another status.
ImplementsRecord == Record!Spec

\* An execution ends as CANCELED only if somebody asked for it, as TIMEOUT
\* only if its job limits the time and the limit has passed, and neither has
\* touched the nodes that were pending.  It ends as EXCEPTION only if an
\* action raised, its definition cannot be read, a transaction failed, the
\* controller was interrupted, a cancellation overtook the start of a node,
\* or the agent refused a node because another one was still acting, which
\* only a pool of several threads can bring about.
EndExplained ==
  /\ status = "CANCELED" => cancelAsked
  /\ status = "TIMEOUT"  => plan.limited /\ expired
  /\ status \in {"CANCELED", "TIMEOUT"} =>
       ~Parallel /\ \A n \in Nodes : n > cur => pc[n] = "idle"
  /\ status = "EXCEPTION" /\ execRow = "live" =>
       \/ ~plan.readable \/ \E n \in Nodes : outcome[n] = "raised"
       \/ Parallel /\ plan.pool > 1 /\ \E n \in Nodes : outcome[n] = "refused"
       \/ faults > 0 \/ interrupted \/ (cancelAsked /\ stale # {})

\* A job that needs only one node never succeeds on two of them, even when
\* the first success could not be stored.
OneSuccess ==
  ~plan.allNodes =>
    \A m, n \in Nodes : outcome[m] = "ok" /\ outcome[n] = "ok" => m = n

\* ActionAgentImpl runs at most one action of an execution at a time, and
\* checkActionExecuting tells exactly whether one is running.
TrackerExact ==
  /\ \A m, n \in Nodes : pc[m] = "acting" /\ pc[n] = "acting" => m = n
  /\ tracker <=> \E n \in Nodes : pc[n] = "acting"

\* After cancelExecution a sequential execution starts its action on at most
\* one more node: the one whose turn had already come.
CancelBounded == \A m, n \in late : m = n

\* Unless a transaction failed or the controller was interrupted, a closed
\* execution has no result that is still open.
ResultsClosed ==
  finished /\ faults = 0 /\ ~interrupted => \A n \in Nodes : result[n] # "open"

\* No result is started on a finished execution, although
\* startExecutionResult checks that before it locks anything.
NoStartAfterFinish ==
  [][finished => \A n \in Nodes : result'[n] = "open" => result[n] = "open"]_vars

\* A failure of an automatic execution is reported once it is over if the job
\* was there and wanted it when the execution was closed; a success never is.
FailureReported ==
  /\ mail => finished /\ status # "SUCCEED" /\ ~manual
  /\ ctl = "done" /\ finished /\ ~manual /\ status # "SUCCEED" /\ seen = "yes"
       => mail

\* An execution that was started is closed in the end, unless its row is
\* deleted, its server dies or a transaction fails.
EventuallyClosed ==
  execRow = "live" ~> finished \/ execRow = "gone" \/ ctl = "crashed" \/ faults > 0

----------------------------------------------------------------------------
(* Statements of the sources that the code does not keep.                  *)

\* ScheduleJobExecutorServiceAllParallelTest expects SUCCEED of a parallel
\* execution in which no action fails.
ParallelSucceeds ==
  Parallel /\ plan.size > 0 /\ plan.readable /\ finished
    /\ faults = 0 /\ ~interrupted
    /\ (\A n \in Selected : outcome[n] \notin {"failed", "raised"})
  => status = "SUCCEED"
=============================================================================
