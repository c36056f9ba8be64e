# TLA+ models of QZERVER

QZERVER runs jobs on clusters of machines on a cron schedule. Quartz fires a
job on one of the servers; the server selects nodes of the job's cluster group,
runs the job's action against them, one after the other or in a thread pool, and
keeps a record of the execution in a database that users browse and edit at the
same time. This directory holds TLA+ models of that program, TLC configurations
that check them on small instances, and TLAPS proofs for all instances.

Paths below are relative to `src/`; `service/`, `agent/` and `dao/` stand for
`lib-model/src/main/java/org/qzerver/model/service/` and its siblings.

## Inventory

| Component | State | Operations | Talks to |
|---|---|---|---|
| Job executor `service/job/executor` | local variables of `executeJob`; a thread pool per parallel execution | `executeAutomaticJob`, `executeManualJob` | execution management, action agent, mail |
| Execution management `service/job/execution` | rows of `qz_execution`, `qz_execution_node`, `qz_execution_result` | `startExecution`, `startExecutionResult`, `finishExecutionResult`, `finishExecution`, `cancelExecution`, finders | cluster management, database |
| Action agent `agent/action/impl` | `executionTracker`, a map of the executions at work on this server | `executeAction`, `checkActionExecuting` | action executors |
| Cluster management `service/cluster` | `qz_cluster_group` (with `rollingIndex`, `nodeCount`), `qz_cluster_node` | create, modify and delete groups and nodes, `rollGroupIndex` | database |
| Job management `service/job/management` | `qz_job`, `qz_job_group`, `qz_action` | create, modify, delete, move, reschedule, enable and disable jobs; groups; `changeJobAction` | Quartz management, database |
| Quartz management `service/quartz` | Quartz jobs and triggers (clustered JDBC store), standby flag of the scheduler | `createJob`, `deleteJob`, `rescheduleJob`, `enableJob`, `disableJob`, `enableScheduler`, `disableScheduler` | Quartz |
| Mail `service/mail`, `agent/mail` | none | `notifyJobExecutionFailed` (asynchronous) | mail server |
| Local command executor `agent/action/providers/executor/localcommand` | a process, its streams, four threads | `execute` | operating system |
| HTTP executor `.../http` | a request, a capturing thread, a watchdog | `execute` | HTTP server |
| SSH executor `.../sshcommand` | a channel, two captured streams | `execute` | SSH server |
| Other executors (class, groovy, datagram, socket, JDBC, JMX) | none | `execute` | libraries |
| Marshallers, registry of actions | none | JSON conversion | |
| Data access objects `dao/` | none | queries, `detachJob`, `deleteOrphaned`, `deleteExpired` (never called) | database |
| Entities and schema `lib-entities` | columns, row versions, foreign keys with `ON DELETE CASCADE` | | |
| Web application `lib-webapp`, `webapp` | session only | pages | services |
| Generators, Quartz SQL, static files | none | | |

What is hard, and where:

* **Interleavings.** Several servers and users work on the same rows. Every
  service method is one transaction at READ COMMITTED; entities carry a version
  (`abstract.xml`), and `lock` on an entity that was read before fails if its
  row got a new version since. Reads without a lock are where things go wrong:
  `startExecutionResult` (check, then lock), the circular selection (`getNodes`,
  then `rollGroupIndex` locks), `ClusterManagementServiceImpl.deleteGroup`
  (find jobs, then delete).
* **Cascades.** Bulk deletes do not tell anybody: deleting a job group removes
  its jobs and with them executions that are running; moving a job to another
  group makes it an orphan of the old one, which the flush deletes.
* **Threads.** The pool of a parallel execution meets a tracker that admits one
  action per execution. An interrupted `invokeAll` does not wait for running nodes.
* **Failure.** A transaction may fail at any call. `executeJob` and
  `executeJobNode` close what they opened in `finally` blocks, which may fail too.
  After a crash nothing recovers an execution (`requestRecovery(false)`).
* **Order and time.** A timeout or a cancellation arrives between two nodes, or
  during the last one.

What makes each component correct:

* *Executor and execution management*: the final status says what happened to
  the nodes; a closed execution never changes; everything opened gets closed;
  a cancellation stops the loop; one success is enough for a job that wants one
  node; failures are reported.
* *Action agent*: at most one action per execution, and the tracker knows.
* *Cluster management*: the rolling index stays usable while nodes come and go,
  the turns go round, each enabled node is given once, a start that commits has
  seen the present list; groups in use are not deleted.
* *Job management and Quartz*: a trigger exists exactly while its job exists and
  is enabled, with the job's schedule; actions live as long as somebody refers
  to them; a group is not deleted under a job that is being added.
* *Process executors*: the result names the outcome that happened (exit,
  timeout, exception), output is complete unless its status says otherwise, no
  caller waits for ever when a limit is set.

## Modules

| Module | Role |
|---|---|
| `ExecutionRecord` | abstract specification: what a stored execution promises its readers |
| `JobExecution` | job executor, execution management, action agent, as threads and transactions |
| `JobExecutionProofs` | its theorems, and that it implements `ExecutionRecord` |
| `JobProgressProofs` | that an execution comes to its end if its threads are scheduled, and to a good one if nothing goes wrong |
| `ClusterGroup` | a cluster group, its nodes and rolling index, the jobs that use it |
| `ClusterGroupProofs` | its theorems: index, versions, turns |
| `ClusterSelectionProofs` | what the selection strategies return, and what the turns mean for the nodes |
| `JobSchedule` | abstract specification: what begins automatically was planned |
| `JobScheduling` | job groups, jobs, Quartz jobs and triggers, firings |
| `JobSchedulingProofs` | its theorems, and that it implements `JobSchedule` |
| `ActionContract` | abstract specification: what every executor promises the action agent |
| `LocalCommand` | one call of the local command executor, with its four threads and the process |
| `HttpAction` | one call of the HTTP executor, with its reader and its watchdog |
| `SshCommand` | one call of the SSH executor, which polls a channel |
| `LocalCommandProofs`, `HttpActionProofs`, `SshCommandProofs` | their theorems, that each implements `ActionContract`, and why a call returns |
| `MCJobExecution`, `MCClusterGroup`, `MCJobScheduling`, `MCLocalCommand`, `MCHttpAction`, `MCSshCommand` | instances for TLC |

`JobExecution` sees an executor as one step that returns any verdict, an
exception included (`LeaveAgent`); the last three models show which verdicts an
executor really gives and that it does return.

### JobExecution

One execution. The *controller* is the thread in `executeJob`; `ctl` is its
program counter, `verdict` its local variable `status`, `cur` the position of
the sequential loop. A *worker* per node runs `executeJobNode`; `pc[n]` goes
through `ready` (called), `checked` (`startExecutionResult` has read the
execution), `begun` (result row inserted), `acting` (in the executor), `acted`,
and `returned` or `raised`. In sequential mode only worker `cur` moves, while
the controller waits in state `node`; in parallel mode the workers start
`queued` and `Dispatch` gives them threads of the pool in order.

Database columns are variables of their own. `execRow` tells whether the
execution's row exists (the cascade of a deleted job group removes it), `stale`
which workers have read a version of it that was replaced since. `attached` is
the execution's reference to its job, cleared by `deleteJob`.

| Code | Actions |
|---|---|
| `startExecution` | `StartExecution`, `StartExecutionFails` |
| `executeJob`, both loops | `Launch...`, `CheckCancelled`, `CheckRaises`, `NextNode`, `NodeRaised`, `FirstSuccess`, `LoopTimeout`, `LoopAgain`, `LoopEnd`, `PoolDone`, `Interrupt` |
| `finishExecution`, end of `executeAutomaticJob` | `FinishExecution`, `FinishExecutionFails`, `ReportFailure` |
| `executeJobNode` | `Dispatch`, `CheckResult`, `OpenResult`, `StartResultFails`, `CloseResult`, `CloseResultFails` |
| `ActionAgentImpl.executeAction` | `EnterAgent`, `AgentRefuses`, `LeaveAgent` |
| users | `CancelExecution`, `ModifyJob`, `DeleteJob`, `DeleteGroup` |
| machine | `Crash`, `TimeLimitPasses`, failed transactions (`Fault`) |

The nodes themselves, payloads, dates and texts are left out; how many nodes
were selected is a choice (`size`), which covers explicit address lists, the
local host and every cluster. What an executor returns is a choice.
`deleteById` belongs to a library: that deleting a job leaves the executions
and their action alone is taken from `ScheduleJobManagementServiceImplTest.testDeleteJob`,
and that deleting a job group takes them along from the foreign keys in
`initial-qzerver.xml`.

### ExecutionRecord

Life cycle `none, open, closed, gone`; one result per node; `Justified(s)` says
which results each final status allows. `JobExecution!ImplementsRecord` maps the
columns to it: an execution is closed once, with a justified status, and then
only an EXCEPTION may still have nodes at work, which finish what they began.

### ClusterGroup

One group that users create, edit and delete while the servers start executions
of several jobs on it. `starts[j]` is what a start of job `j` has read of the
group before it locks it (`ReadGroup`); `Roll` is the locking half, the choice
of nodes and the commit; `StartLost` the start whose version is out of date.
`outdated` holds the jobs whose start has read a version replaced since.
`Rolled` is the loop of `rollGroupIndex`, `Walk` the circular selection,
`InIndexedOrder` and `InRandomOrder` the other two strategies; `EnabledOf` is the
loop that all of them have, written as a recursive function so that it can be
reasoned about. `firsts` is history: the nodes that executions began with.

`modifyNode` locks the node and not the group, so a start may begin at a node
that has just been disabled; the model shows it, and `RoundRobin` counts anew
after such a start.

### JobScheduling

Two stores that nobody but this program keeps in step: the rows of
`qz_job_group` and `qz_job` (`groups`, `groupOf`, `schedule`, `enabled`) and
what Quartz keeps (`quartzJobs`, `trigger`, the `active` servers). A *schedule*
stands for a cron expression with its time zone; a finite one is `over` some
day. `fired[j]` is a firing on its way to `QzerverJob`, `running` the jobs whose
automatic execution runs.

| Code | Actions |
|---|---|
| `createGroup`, `modifyGroup`, `deleteGroup` | `CreateGroup`, `ModifyGroup`, `DeleteGroup` |
| `createJob`, with `QuartzManagementServiceImpl.createJob` | `CreateJob` |
| `deleteJob` | `BeginDelete` (up to the count of the group's jobs), `CommitDelete`, `RollBackDelete` |
| `changeJobGroup`, `changeJobAction` | `ChangeJobGroup`, `ChangeJobAction` |
| `rescheduleJob` | `RescheduleEnabled`, `RescheduleDisabled` |
| `enableJob`, `disableJob` | `EnableJob`, `DisableJob` |
| `enableScheduler`, `disableScheduler` | `EnableScheduler`, `DisableScheduler` |
| `QzerverJob.execute` | `Start`, `End` |
| Quartz, time (external) | `Fire`, `DropTrigger`, `ScheduleEnds` |

`modifyJob` changes settings that only executions read; it is in `JobExecution`.

Why one step per call: each call locks the job's row first, and the clustered
store of Quartz works over the same connection and keeps its lock until the
transaction ends, so two calls that write triggers never overlap. `deleteJob` is
the exception, because it decides about the group long before it commits, and
`modifyGroup`, `deleteGroup` and `changeJobGroup` need no lock of Quartz.
`ModifyGroup` gives the group's row a new version, which makes the delete fail
(`stale`). `createJob` does need it, and this alone keeps a job from coming into
a group that is about to be deleted as empty (`DeletesOnlyJob`).

A move between groups does not do what it says. `changeJobGroup` takes the job
out of `ScheduleGroup.jobs`, which is mapped with `orphan-removal`
(`schedule-group.xml:18`), and puts it into the collection of the other group.
When Hibernate flushes, the job is an orphan of the old group: its row is
deleted (and by the foreign key its executions), or the flush fails because the
deleted job is in a collection that cascades. Which of the two depends on the
order in which Hibernate visits the groups, so `ChangeJobGroup` chooses; in
neither case does the job arrive, and Quartz is never told. A job that is put
back into its own group is not an orphan (`Orphans`), which is the only move that
`testChangeJobGroupTest` makes.

Taken from outside the code: Quartz's `rescheduleJob` does nothing where there
is no trigger; Quartz refuses a trigger that will never fire and removes one that
will not fire again; a job with `@DisallowConcurrentExecution` is fired once at
a time in the whole cluster. Deleting a cluster group takes jobs
along as well; that cascade is in `ClusterGroup` and not composed here.

### JobSchedule

Per job a plan (`unborn`, `off`, a schedule, `gone`) and at most one firing that
was handed out; an execution begins only because of such a firing, which was
given under the plan of that moment. `ImplementsSchedule` maps rows and triggers
to it. A firing of a job whose row is gone is invisible there: it comes to
nothing (`Start` needs the row), which is what makes the triggers left over by
`deleteGroup` and `changeJobGroup` harmless.

### ActionContract

The other side (a process, a web server, an ssh server) gives at most one
`answer`, the expected one or another; the executor gives one `verdict`, and a
success needs the expected answer. A failure promises nothing. Each executor
implements it as `ImplementsContract`, with its own reading of what an answer is:
the exit code of the ended command, the code in the header, the exit status of
the closed channel (-1 if none has come).

### LocalCommand

One call of `execute`. `executor` is the program counter of the calling thread:
`start`, `wait` (joins the runner), `join` (waits a second for the copier
`joining`), `hang` (has found it alive and is about to write its status),
`compose`, `done`. `runner`, `watchdog` and `copier[s]` are the other threads;
`runStatus`, `exitCode`, `outStatus[s]` and `kept[s]` are their fields, which the
executor reads and, for `outStatus`, also writes.

| Code | Actions |
|---|---|
| `ProcessExecutionThread.run` | `RunnerWaits`, `RunnerReturns`, `RunnerInterrupted` |
| `ProcessTimeoutThread.run` | `LimitPasses`, `WatchdogQuits`, `WatchdogActs` |
| `ProcessOutputThread.run` | `CopierStarts`, `CopierBlocks`, `CopierReads`, `CopierEnds`, `CopierFails` |
| `execute`, `executeProcess`, `shutdownCapture`, `composeActionOutput` | `Start`, `StartFails`, `ReleaseProcess`, `CopierJoined`, `CopierAlive`, `MarkHung`, `Compose`, `ExecutorInterrupted` |
| operating system (external) | `CommandWrites`, `CommandEnds`, `ChildWrites`, `ChildCloses` |

The command may ignore the signal of `destroy`, and children that inherit its
streams may hold them open after it has ended (`held`). What a read on a pipe
does that is being closed, or that nobody else writes to any more, is chosen
among what the JVM does: the bytes that are left, the end, or an exception.
Time is abstract: the second for a copier may be over at any moment, so the
model has every order of the copiers and the executor.

### HttpAction

`executor` is `request` until the header has come, `join` while the reader
captures the body, then `done`. `reader` and `watchdog` are the two threads,
`exiting` is the flag through which the watchdog tells the reader who is to blame
for the broken connection; the watchdog sets it and aborts in two steps.

| Code | Actions |
|---|---|
| `HttpOutputThread.run` | `ReaderStarts`, `ReaderReads`, `ReaderEnds`, `ReaderFails`, `ReaderCloses`, `ReaderCloseFails` |
| `HttpTimeoutThread.run`, `interruptByTimeout` | `LimitPasses`, `WatchdogQuits`, `WatchdogActs`, `WatchdogAborts` |
| `HttpActionExecutor.execute`, `processHttpResponse` | `RequestFails`, `ReceiveHeader`, `Compose`, `ExecutorInterrupted` |
| server (external) | `ServerAnswers`, `ServerSends`, `ServerStops` |

Closing the stream of a body reads the rest of it if the connection is to be
kept (`reusable`), as Apache's client does; a response may have no body at all
(`entity`).

### SshCommand

One thread polls: `executor` goes round `out`, `err` (read what is available),
`check` (is the channel closed?), `limit` (has the time passed?), `sleep`. JSch's
own thread stores what arrives and closes the channel between any two of these
steps.

| Code | Actions |
|---|---|
| `execute`, `processConnection`, `processSession` | `ConnectFails`, `Connect` |
| `OutputCapturer.read` | `ReadSome`, `ReadDone` |
| `processChannel` | `CheckClosed`, `CheckLimit`, `Sleep` |
| remote side and clock (external) | `RemoteWrites`, `CommandEnds`, `ChannelLost`, `LimitPasses` |

`expectedExitCode` is an int without constraint, and JSch's -1 for "no exit code
came" is compared with it like any other code. So a lost channel, or a command
killed by a signal, is a success for an action that expects -1; `VerdictTrue`
says that it is one for no other action.

## Runs

| Run | Question | Instance | Size |
|---|---|---|---|
| `exec_safety` | Do the rows say what happened, whatever happens? | 3 nodes, 1 failed transaction, all disturbances; one node wanted, all in turn without limit, all at once with one thread and with two (muted), an unreadable definition | 2.7 million states |
| `exec_liveness` | Is every execution closed? | 2 nodes, 1 failed transaction, pools of 1 and 2 threads | 0.3 million states |
| `exec_parallel_doc` | Does a parallel execution succeed if no action fails? | 2 nodes, no disturbance | violated |
| `cluster_rolling` | Are the turns fair and the index sound while the group is edited? | 3 nodes, 2 jobs, limits 0, 1, 2 | 1.4 million states (symmetry) |
| `cluster_delete_doc` | Is a group in use never deleted? | the same | violated |
| `jobs_triggers` | Do rows and triggers agree, does only what was planned begin, and does `deleteJob` delete that job only? | 2 jobs, 2 groups, 2 servers, an endless and a finite schedule | 64 thousand states (symmetry) |
| `jobs_reschedule_doc` | Has an enabled job with time left a trigger? | the same | violated |
| `jobs_move_doc` | Does `changeJobGroup` move the job? | the same | violated |
| `jobs_action_doc` | Can the action of a job be changed? | the same | violated |
| `command` | Is the result of a local command true, and does the call return? | 2 and 1 bytes of output, at most 1 captured, 2 exit codes; without limit, and with a limit and skipped errors | 1.1 million states |
| `http` | The same for a web request | 4 bytes of body, at most 2 captured, 2 codes, with and without limit and capture | 7.5 thousand states |
| `ssh` | The same for a remote command | 3 bytes may wait per stream, 4 are written, 2 captured, with and without limit, expecting 0 and -1 | 78 thousand states |

*Bounds.* Three nodes are the least number with a first, a middle and a last
one, so that a loop can stop before, at and after each of them; a pool of two
threads for three nodes has overlapping and queued nodes at once, a pool of one
has nodes that only queue. One failed
transaction already reaches every `Fails` action; further failures only repeat
them. Two jobs are the least number of starts that can interleave; three nodes
let the index lie before, at and after an edited position. Two jobs and two
groups are the least in which one job is deleted while another is created in its
group, moved out of it, or taken away with another one; two schedules are the
least for a change, and one of them has to end. Symmetry exchanges nodes, jobs,
groups and servers, which no definition tells apart, and is used with safety
properties only. `Ended` lets a finished execution stutter, so deadlock is
checked there.
In `command`, `http` and `ssh` it is not, because a call really ends: the
executor has returned, its threads are dead and the other side has nothing left
to say; that it does not stop before is what `CallReturns` says. For these three
an output may be longer than the capture limit, so that it can be below, at
and above it, and a read can take the last bytes below and the first above at
once; two exit codes or status codes are an expected and an unexpected one. The
local command that has a limit expects -1, which is what the executor uses when
there is no exit code, so a success that only compares codes would show. A limit
of captured bytes of 0 (none) is covered by the proofs only.

*Safety properties* worth a second look: `StatusJustified` and
`ImplementsRecord` must survive deletion, cancellation, interruption, failed
transactions and crashes together; `EndExplained` forbids a CANCELED nobody
asked for, a TIMEOUT of a job without a limit and an EXCEPTION without a cause
(a refusal by the agent is one only in a pool of several threads);
`OneSuccess` holds even when the result of the success cannot be stored;
`CancelBounded` allows exactly the one node whose turn had come when the request
arrived; `NoStartAfterFinish` depends on the version check, since the explicit
check is done before the lock; `RoundRobin` and `StartCurrent` depend on it as
well; `TurnKept` and `IndexInBounds` on the correction in `deleteNode`;
`TriggersFollow` must hold however a job is enabled, disabled, rescheduled and
moved, and `QuartzMirrors` says which jobs Quartz keeps too many although two
calls remove rows behind its back; `DeletesOnlyJob` is a check long before its
use, which only the lock of Quartz makes safe. For the
executors: `VerdictTrue` holds whichever of the end, the limit and the watchdog
comes first; `OutputHonest` and `BodyHonest` compare the status of an output with
what was really written, and `OutputHonest` of `SshCommand` states the only way in
which bytes get lost under CAPTURED; `NothingLeft` lists what a call that returns
has cleaned up.

*Fairness.* `EventuallyClosed` assumes weak fairness of the controller and of
each worker: the threads are plain Java threads, and executors return (each has
its own limits or the operating system's; an executor that hangs for ever hangs
its execution, also in the code). Nothing is assumed of users, of the clock or
of Quartz. The property excepts what the code does not handle: the row is
deleted, the server dies, or a transaction fails (`finishExecution` is tried
once). `CallReturns` and `ReaderStops` assume of the executors that the JVM
runs its threads and that the clock goes on; nothing is assumed of the command,
its children, a copier that they may block, the server or the remote side, all
of which may be silent or busy for ever. `CallReturns` of `HttpAction` begins
with the header of the response, because nothing limits the wait for it, and
that of `SshCommand` excepts a stream that is written as fast as it is read
(`Outpaced`), because both the limit and the end are asked for only between two
rounds of reading.

## What the refuted statements show

* `ParallelSucceeds`: `ActionAgentImpl` keys its tracker by the execution. When
  two nodes of a parallel execution overlap, the second is refused with an
  exception, and the execution ends as EXCEPTION. The test that expects SUCCEED
  replaces the agent by a mock.
* `JobsKept`: a job created after `deleteGroup` has looked for jobs is deleted
  by the foreign key together with the group, and its Quartz trigger stays.
* `EnabledActive`: once the schedule of an enabled job is over, Quartz has
  removed the trigger. `rescheduleJob` then has nothing to replace and says
  nothing: the job has a new schedule, is enabled, and never fires until it is
  disabled and enabled again.
* `MovesJob`: `changeJobGroup` makes the job an orphan of its old group, and the
  flush deletes its row, or fails. Its Quartz job and trigger stay and go on
  firing for nothing (`swept` in `QuartzMirrors`). The test moves a job only
  within its own group.
* `ActionChanged`: `changeJobAction` leaves `usedDate` of the new action null,
  although entity and column forbid it, so the call fails when it commits. The
  test never flushes. For the same reason the order of `deleteOrphaned` and the
  new action has no effect at present.

Also visible in the models, though no document speaks of it: a failure is not
reported when the job was deleted during its execution (`seen = "null"`,
`getJob()` returns null); two circular starts on one group at the same moment
make one of them fail, and that firing is lost (`StartLost`); a cancellation
that overtakes the start of a node ends the execution as EXCEPTION and not as
CANCELED; deleting the node at the rolling index passes its successor over.
`finishExecution` is tried once, so an execution stays INPROGRESS if it fails.
`FAILED` is documented as "All nodes failed" (`ScheduleExecutionStatus`), but an
execution on all nodes is FAILED as soon as one of them fails. `deleteJob` removes
a group that becomes empty, `changeJobGroup` does not.

In the executors:

* a copier that gets its first turn after the executor has given it up
  overwrites HUNG with CAPTURED, and the result may carry an incomplete output
  under that name, which is why `OutputHonest` excepts `gaveUp`;
* the streams are closed before the copiers have ended, so the last output of a
  command may be lost; its status is EXCEPTION then, not CAPTURED;
* an executor that is interrupted leaves the command running, past its limit
  too: the watchdog only ends the runner, and it is the executor that destroys
  the process;
* the time limit of a web request does not cover the wait for the header, and a
  response without a body (204) ends as EXCEPTION even if 204 was expected;
* a channel that is lost without an exit code is a success for an SSH action
  that expects -1, the code JSch uses for "none";
* remote output that arrives between the last read and the question whether the
  channel is closed is not captured, and the status stays CAPTURED.

## Proofs

`tlapm` proves, for every value of the constants that satisfies the named
assumptions (`ExecutionAssumption`, `ClusterAssumption`, `SchedulingAssumption`,
`LocalCommandAssumption`, `HttpActionAssumption`, `SshCommandAssumption`), that
each safety property of the passing runs holds, that `JobExecution` implements
`ExecutionRecord` and `JobScheduling` implements `JobSchedule`, and that the
three executors implement `ActionContract`. Beyond the runs it proves that
failures are reported (`ReportCorrect`: if the job was still attached and wanted
it when the execution was closed) and what makes executions and calls come to an
end (*Progress*, below).

**JobExecution.** None of the properties is inductive. `IInv` adds what ties the
parts together:

* `ControlOK`: which values of the other variables each `ctl` allows (before
  the launch nothing has happened, a closed row means the controller is past
  `finish`, and so on);
* `RowOK`: the row, its columns and `attached`;
* `OrderOK`: in sequential mode nodes before `cur` are settled or raised, those
  after it untouched;
* `NodesOK`: `pc[n]` against `result[n]`, `outcome[n]` and `execRow`;
* `VerdictOK`: what the workers have done when the controller has decided on a
  status, which becomes `StatusJustified` when the row is closed;
* `QuietOK`, `StaleOK`, `ExceptionOK`, `LateOK`, `MailOK`: when workers may
  still run after the decision, what an old version implies, the cause of an
  EXCEPTION, the last node after a cancellation, and the report;
* `PoolOK`: no more workers run than the pool has threads. `EndExplained` needs
  it: a node is refused only while another one is in the agent (`TwoRunning`),
  so a pool of one thread refuses nobody.

Each part has a step lemma with one case per action or group of actions that can
disturb it. `Justification` turns `VerdictOK` and `NodesOK` into `Justified`;
`LeftBehind` says that a closed execution with workers at work is an EXCEPTION;
`RecordStep` maps each step to a step of `ExecutionRecord` or a stutter.

**ClusterGroup.** `IInv` adds that enabled nodes are in the list, also in what a
start has read (`EnabledOK`), that a deleted group has no jobs and no starts
(`GoneOK`) and that no node is in the list twice (`UniqueOK`). `RolledBounds`
proves that the loop of `rollGroupIndex` returns an index of the list, `Closed`
that `deleteNode` closes the list up.

`RoundRobin` compares two positions of a history and is not inductive. `RoundOK`
adds where the history stands in the circle: on the way round from any node in
it to the rolling index, every enabled node has had its turn since. `RolledNext`
proves that no enabled node lies between the old index and the rolled one. So if
a start picks a node of the history again (`SpreadAppend`), the way from it to
the index was the whole circle, all enabled nodes have had their turn since, and
there are not more of them than positions (`SinceSize`). `RoundStep` shows that
only a start touches any of it, and uses `StartCurrent`: the list, the index and
the nodes that the start has read are the present ones.

`SelectionSound` speaks of what a loop over a list returns. The library's
induction theorems cannot be used, so `ClusterSelectionProofs` argues by a least
counterexample: `AddedExists` and `EnabledOfDef` show that the recursive function
`EnabledOf` is what its equations say, `EnabledOfPicks` that it picks the
positions of the enabled nodes in their order. The circular walk picks the positions from
the index to the end and then those before it, that is in the order of their
distance from the index (`Rounds`), each once (`RoundsOnce`). `EveryNodeServed`
says what `RoundRobin` is for: if nobody edits the nodes, as many executions as
there are enabled nodes begin with each of them once (`Window` counts them), and
the next round is in the same order. `modifyNode` and the like start the history
anew, so nothing is claimed across an edit.

**JobScheduling.** The conjunction of `TypeOK`, `QuartzMirrors` and
`TriggersFollow` is inductive together with `KnownOK`: only jobs that were
created fire or lose their trigger to time, and such a job is still enabled.
`DeleteCorrect` needs `AloneOK` as well: a job that `deleteJob` has found alone in
its group stays alone until the commit, because every step that brings a job into
a group waits for Quartz (`AloneStep`).
`JobSteps` sorts the steps: those that touch neither jobs nor triggers nor
firings are `Quiet`, the other twelve have a case each in the step lemmas.
`PromiseStep` maps a step to a stutter, a change of plan, a removal or a firing
of `JobSchedule`; the case of `Fire` is where `TriggersFollow` is needed.

**Executors.** A result is composed from fields in one step and stays for ever,
while the other side goes on. So each proof has two halves: what holds of the
fields at the moment of composition, and a frame argument that the facts about a
returned result survive every later step (`ReturnedFrame`, `Frame`).

* `LocalCommand`: `ThreadsOK` (which values of a thread's fields go with its
  state: a runner with status TIMEOUT was interrupted by a watchdog that has
  fired), `ShutdownOK` (the order of closing, destroying and joining, and which
  copiers are settled by then), `CopiesOK` (stored, read and written bytes, and
  what each status of a copier says of them), `ResultOK` (what a returned result
  says). `ComposeHonest` is the step from `CopiesOK` to `ResultOK`.
* `HttpAction`: `OrderOK` (header, threads, shutdown in their order), `ReaderOK`
  (the reader's status against its counts and the flag), `ResultOK`.
* `SshCommand`: `ChannelOK` (what closed and lost mean for the exit code),
  `CaptureOK` (stored and dropped bytes against the status, and that a stream
  read in a round that began after the end is empty), `ResultOK`.

`ContractHolds` maps each step to `Answer`, `Succeed`, `Fail` or a stutter; the
point is that an answer, once given, is the one the verdict was made from.

**Progress.** Liveness under fairness is out of the prover's reach, and so is
`ENABLED`. What can be proved of `EventuallyClosed`, `CallReturns` and
`ReaderStops` is all of the argument except the scheduler:

* *Stages.* Each program counter has a number (`CtlStage`, `NodeStage`,
  `RunnerStage` and so on). `ForwardOnly` is the action property that a step of a
  thread raises its own number and that no step of anybody, a crash, an
  interruption or a deletion included, lowers one. `StagesEnd` bounds the
  numbers, so a thread has finitely many steps. The reader of `HttpAction` may
  consume a part of the body instead. For `SshCommand`, whose executor goes
  round, `ReturnsWhenDue` says it of an executor that has something to find at
  its next question: each of its steps is nearer to the end or empties a stream.
* *Nobody waits in a circle.* `AlwaysAStep` is the invariant `NeverStuck`: until
  the execution or call is over, one of the threads has a step to take, unless a
  command or the body of a response has neither an end nor a limit. For the
  job executor it rests on `AliveOK` (the workers that the controller waits for
  are under way or have ended) and on `FirstQueued`: when none of them is
  running, the pool has a thread for the first one in its queue. For commands and
  requests it rests on `Covered`: a runner or reader under a limit has a watchdog
  that is still to act, or has been interrupted or cut off already, in every
  order of the two.
* *Over means closed.* `DoneMeansClosed`: when the controller is done the
  execution is closed or deleted, or a transaction failed.

The guards (`ControllerCan`, `WorkerCan`, `RunnerCan`, `ReaderCan` ...) are
written out, since `ENABLED` is not available; TLC has compared them with
`ENABLED` of the actions on the instances of the runs. What is left to
model checking is that weak fairness turns "can step" into "steps".

`GoodEnd` is what remains true of the refuted `ParallelSucceeds`: if no action
failed and nothing was cancelled, interrupted, late or faulty, the execution has
succeeded, provided that its nodes ran one after the other or in a pool of one thread.

*Only model-checked*: liveness itself (`EventuallyClosed`, `CallReturns`,
`ReaderStops`), because the prover has neither `ENABLED` nor fairness.

## Plan

`JobExecution`, `ClusterGroup`, `JobScheduling` and the three executors with
threads or limits are done. What could follow, in this order:

1. The sequential executors with a buffer or a transaction of their own (socket,
   datagram, JDBC) against `ActionContract`: a reply that comes in two pieces and
   is read once, a datagram that is cut, a statement that is committed although
   its result cannot be read.
2. A composition of `JobScheduling` and `ClusterGroup` for the cascade from a
   cluster group to its jobs and their triggers.

The proofs cover every safety property of the runs; what could still be added
are proofs for the modules of items 1 and 2.

## Not modelled

* Executors that are one library call (class, groovy, JMX) or one exchange
  (datagram, socket, JDBC): no threads and no state between calls.
* JSON marshalling, mail rendering and sending, the finders, the web pages, bean
  validation and column lengths, the schema generators: stateless, or pure input
  and output.
* The libraries: Quartz, Hibernate, Apache HttpClient, JSch and the JDK are
  modelled only as far as the code uses them, as external definitions.
* The vendored JavaScript (`jquery-1.8.3.js`, `bootstrap.js`) under
  `lib-webapp-static`: third-party files without logic of this program. The
  program itself is the Java code under `lib-model`, and that is what the
  definitions are mapped to.
