---------------------------- MODULE JobScheduling ----------------------------
(***************************************************************************)
(* Job management and Quartz management: the rows of job groups and jobs,  *)
(* the Quartz jobs and triggers, and the firings.                          *)
(*                                                                         *)
(* Processes: users who call the services, Quartz (external), and the      *)
(* threads in QzerverJob.execute.  A service call is one transaction and   *)
(* one step here, because it locks the job's row first and writes the      *)
(* tables of Quartz over the same connection, with one exception: between  *)
(* the moment deleteJob counts the jobs of the group and its commit,       *)
(* others may work.  Quartz's clustered store keeps its lock until the     *)
(* transaction ends, so calls that write Quartz tables wait meanwhile.     *)
(***************************************************************************)
CONSTANTS
  Jobs,       \* the ids createJob may give (each is used once)
  Groups,     \* the job groups that may be created (an id is used again)
  Schedules,  \* pairs of a cron expression and a time zone
  Finite,     \* the schedules that fire for the last time some day
  Servers

None == "none"

ASSUME SchedulingAssumption ==
  /\ Schedules \cap {"unborn", "off", "gone", None} = {}
  /\ None \notin Groups /\ None \notin Jobs
  /\ Finite \subseteq Schedules

VARIABLES
  groups,      \* rows of qz_job_group
  created,     \* ids given to jobs so far
  groupOf,     \* rows of qz_job: group, schedule, enabled
  schedule,
  enabled,
  quartzJobs,  \* durable jobs in Quartz
  trigger,     \* per Quartz job, the schedule of its trigger
  over,        \* schedules that have fired for the last time
  active,      \* servers whose Quartz is not in standby
  fired,       \* per job, the schedule of a firing on its way to the executor
  running,     \* jobs whose automatic execution runs
  deleting,    \* the deleteJob that has counted the jobs of the group
  refused,     \* the last changeJobAction of an existing job failed
  swept,       \* history: jobs whose rows went without deleteJob
  lapsed       \* history: jobs that lost their trigger when its schedule
               \* was over, and were not disabled since

rowVars == <<groups, created, groupOf, schedule, enabled, swept>>
quartzVars == <<quartzJobs, trigger, over, active, lapsed>>
runVars == <<fired, running>>
vars == <<rowVars, quartzVars, runVars, deleting, refused>>

NoDelete == [job |-> None, alone |-> FALSE, stale |-> FALSE]

Init ==
  /\ groups = {} /\ created = {} /\ enabled = {} /\ swept = {} /\ lapsed = {}
  /\ groupOf = [j \in Jobs |-> None] /\ schedule = [j \in Jobs |-> None]
  /\ quartzJobs = {} /\ trigger = [j \in Jobs |-> None]
  /\ over = {} /\ active = Servers
  /\ fired = [j \in Jobs |-> None] /\ running = {}
  /\ deleting = NoDelete /\ refused = FALSE

Live == {j \in Jobs : groupOf[j] # None}
Members(g) == {j \in Jobs : groupOf[j] = g}

\* No other transaction holds the lock of Quartz, or of the job's row.
\* (Variants: nobody waits for these locks.)
NoQuartzLock == TRUE
QuartzFree == deleting.job = None
Unlocked(j) == j \in Live
Lockable(j) == j \in Live /\ deleting.job # j

Without(f, S) == [j \in Jobs |-> IF j \in S THEN None ELSE f[j]]

RemoveRows(S) ==
  /\ groupOf' = Without(groupOf, S) /\ schedule' = Without(schedule, S)
  /\ enabled' = enabled \ S

\* Quartz refuses a trigger that will never fire.
CanFire(s) == s \notin over

----------------------------------------------------------------------------
(* Job groups.                                                             *)

CreateGroup(g) ==
  /\ g \notin groups
  /\ groups' = groups \cup {g}
  /\ UNCHANGED <<created, groupOf, schedule, enabled, swept, quartzVars,
                 runVars, deleting, refused>>

\* modifyGroup: the row gets a new version, so a deleteJob that has read the
\* row can no longer delete it.
ModifyGroup(g) ==
  /\ g \in groups
  /\ deleting' = [job   |-> deleting.job, alone |-> deleting.alone,
                  stale |-> deleting.stale \/ deleting.job \in Members(g)]
  /\ UNCHANGED <<rowVars, quartzVars, runVars, refused>>

\* deleteGroup: the foreign keys take the jobs along; Quartz is not told.  It
\* waits for a deleteJob that has locked one of them.
DeleteGroup(g) ==
  /\ g \in groups /\ deleting.job \notin Members(g)
  /\ groups' = groups \ {g}
  /\ RemoveRows(Members(g)) /\ swept' = swept \cup Members(g)
  /\ UNCHANGED <<created, quartzVars, runVars, deleting, refused>>

----------------------------------------------------------------------------
(* Jobs.                                                                   *)

\* createJob, and QuartzManagementServiceImpl.createJob.
CreateJob(j, g, s, on) ==
  /\ j \notin created /\ g \in groups /\ QuartzFree
  /\ on => CanFire(s)
  /\ created' = created \cup {j}
  /\ groupOf' = [groupOf EXCEPT ![j] = g]
  /\ schedule' = [schedule EXCEPT ![j] = s]
  /\ enabled' = IF on THEN enabled \cup {j} ELSE enabled
  /\ quartzJobs' = quartzJobs \cup {j}
  /\ trigger' = IF on THEN [trigger EXCEPT ![j] = s] ELSE trigger
  /\ UNCHANGED <<groups, swept, over, active, lapsed, runVars, deleting,
                 refused>>

\* deleteJob up to the count of the group's other jobs.
BeginDelete(j) ==
  /\ Lockable(j) /\ QuartzFree
  /\ deleting' = [job |-> j, alone |-> Members(groupOf[j]) = {j},
                  stale |-> FALSE]
  /\ UNCHANGED <<rowVars, quartzVars, runVars, refused>>

\* What quartzManagementService.deleteJob leaves.  (Variant: it is not told.)
KeptInQuartz(j) == quartzJobs
LeftInQuartz(j) == quartzJobs \ {j}

\* The rows that go: with the group, by the foreign key, whatever is in it.
GoneWith(j) == IF deleting.alone THEN Members(groupOf[j]) ELSE {j}

\* Its commit; a group that was found empty goes too.
CommitDelete(j) ==
  /\ deleting.job = j /\ j \in Live /\ ~(deleting.alone /\ deleting.stale)
  /\ RemoveRows(GoneWith(j)) /\ swept' = swept \cup (GoneWith(j) \ {j})
  /\ groups' = IF deleting.alone THEN groups \ {groupOf[j]} ELSE groups
  /\ quartzJobs' = LeftInQuartz(j)
  /\ trigger' = [trigger EXCEPT ![j] = None]
  /\ lapsed' = lapsed \ {j}
  /\ deleting' = NoDelete
  /\ UNCHANGED <<created, over, active, runVars, refused>>

\* The group's version is out of date, or the transaction fails otherwise.
RollBackDelete ==
  /\ ~QuartzFree
  /\ deleting' = NoDelete
  /\ UNCHANGED <<rowVars, quartzVars, runVars, refused>>

\* ScheduleGroup.jobs is mapped with orphan-removal: a job that is taken out of
\* the collection of its group is to be deleted when the session is flushed.
\* One that is put back into the same collection is not.
Orphans(j, g) == IF groupOf[j] = g THEN {} ELSE {j}

\* changeJobGroup: the flush deletes the orphan, or it fails because the orphan
\* is in the collection of the new group, and nothing has happened.  Quartz is
\* not told.
ChangeJobGroup(j, g) ==
  /\ Lockable(j) /\ g \in groups
  /\ \/ RemoveRows(Orphans(j, g)) /\ swept' = swept \cup Orphans(j, g)
     \/ UNCHANGED <<groupOf, schedule, enabled, swept>>
  /\ UNCHANGED <<groups, created, quartzVars, runVars, deleting, refused>>

\* scheduler.rescheduleJob replaces a trigger; where there is none it does
\* nothing.  (Variant: it is not told.)
NotReplaced(j, s) == trigger[j]
Replaced(j, s) == IF trigger[j] # None THEN s ELSE None

\* rescheduleJob: Quartz is told only about enabled jobs.
RescheduleEnabled(j, s) ==
  /\ Lockable(j) /\ j \in enabled /\ QuartzFree /\ CanFire(s)
  /\ schedule' = [schedule EXCEPT ![j] = s]
  /\ trigger' = [trigger EXCEPT ![j] = Replaced(j, s)]
  /\ UNCHANGED <<groups, created, groupOf, enabled, swept, quartzJobs, over,
                 active, lapsed, runVars, deleting, refused>>

RescheduleDisabled(j, s) ==
  /\ Lockable(j) /\ j \notin enabled
  /\ schedule' = [schedule EXCEPT ![j] = s]
  /\ UNCHANGED <<groups, created, groupOf, enabled, swept, quartzVars,
                 runVars, deleting, refused>>

\* enableJob, and QuartzManagementServiceImpl.enableJob, which leaves an
\* existing trigger alone.
EnableJob(j) ==
  /\ Lockable(j) /\ j \notin enabled /\ QuartzFree
  /\ enabled' = enabled \cup {j}
  /\ trigger[j] = None => CanFire(schedule[j])
  /\ trigger' = IF trigger[j] # None THEN trigger
                ELSE [trigger EXCEPT ![j] = schedule[j]]
  /\ UNCHANGED <<groups, created, groupOf, schedule, swept, quartzJobs, over,
                 active, lapsed, runVars, deleting, refused>>

\* disableJob removes all triggers of the Quartz job.
DisableJob(j) ==
  /\ Lockable(j) /\ j \in enabled /\ QuartzFree
  /\ enabled' = enabled \ {j}
  /\ trigger' = [trigger EXCEPT ![j] = None] /\ lapsed' = lapsed \ {j}
  /\ UNCHANGED <<groups, created, groupOf, schedule, swept, quartzJobs, over,
                 active, runVars, deleting, refused>>

\* The action changeJobAction makes has no usedDate, but the column is not
\* null, so the transaction cannot be committed: the new action, the mark on
\* the old one and the removal of orphans are rolled back.
NewAction == [archived |-> FALSE, usedCount |-> 0, usedDate |-> None]
Storable(action) == action.usedDate # None

ChangeJobAction(j) ==
  /\ Lockable(j)
  /\ refused' = ~Storable(NewAction)
  /\ UNCHANGED <<rowVars, quartzVars, runVars, deleting>>

----------------------------------------------------------------------------
(* Quartz and the executor.                                                *)

EnableScheduler(v) ==
  /\ v \notin active /\ active' = active \cup {v}
  /\ UNCHANGED <<rowVars, quartzJobs, trigger, over, lapsed, runVars, deleting,
                 refused>>

DisableScheduler(v) ==
  /\ v \in active /\ active' = active \ {v}
  /\ UNCHANGED <<rowVars, quartzJobs, trigger, over, lapsed, runVars, deleting,
                 refused>>

\* Time: the last moment of a schedule is over.
ScheduleEnds(s) ==
  /\ s \in Finite \ over /\ over' = over \cup {s}
  /\ UNCHANGED <<rowVars, quartzJobs, trigger, active, lapsed, runVars,
                 deleting, refused>>

\* Quartz removes a trigger that will not fire again, once nothing runs.
DropTrigger(j) ==
  /\ trigger[j] \in over /\ fired[j] = None /\ j \notin running /\ QuartzFree
  /\ trigger' = [trigger EXCEPT ![j] = None]
  /\ lapsed' = IF j \in Live THEN lapsed \cup {j} ELSE lapsed
  /\ UNCHANGED <<rowVars, quartzJobs, over, active, runVars, deleting, refused>>

\* One firing of a job at a time (DisallowConcurrentExecution), on one of the
\* servers.  (Variant: no such limit.)
AnyTime(j) == TRUE
NotExecuting(j) == fired[j] = None /\ j \notin running

Fire(j) ==
  /\ trigger[j] # None /\ trigger[j] \notin over /\ active # {}
  /\ QuartzFree /\ NotExecuting(j)
  /\ fired' = [fired EXCEPT ![j] = trigger[j]]
  /\ UNCHANGED <<rowVars, quartzVars, running, deleting, refused>>

\* QzerverJob.execute, up to the commit of startExecution.
Start(j) ==
  /\ fired[j] # None /\ Lockable(j)
  /\ fired' = [fired EXCEPT ![j] = None] /\ running' = running \cup {j}
  /\ UNCHANGED <<rowVars, quartzVars, deleting, refused>>

\* The job is gone, the start failed, the execution ended, or the server died
\* (requestRecovery is off).
End(j) ==
  /\ fired[j] # None \/ j \in running
  /\ fired' = [fired EXCEPT ![j] = None] /\ running' = running \ {j}
  /\ UNCHANGED <<rowVars, quartzVars, deleting, refused>>

----------------------------------------------------------------------------
Manage(j) ==
  \/ BeginDelete(j) \/ CommitDelete(j)
  \/ EnableJob(j) \/ DisableJob(j) \/ ChangeJobAction(j)
  \/ \E g \in Groups : ChangeJobGroup(j, g)
  \/ \E s \in Schedules : RescheduleEnabled(j, s) \/ RescheduleDisabled(j, s)
  \/ \E g \in Groups, s \in Schedules, on \in BOOLEAN : CreateJob(j, g, s, on)

Next ==
  \/ \E g \in Groups : CreateGroup(g) \/ ModifyGroup(g) \/ DeleteGroup(g)
  \/ \E j \in Jobs :
       Manage(j) \/ Fire(j) \/ Start(j) \/ End(j) \/ DropTrigger(j)
  \/ RollBackDelete
  \/ \E v \in Servers : EnableScheduler(v) \/ DisableScheduler(v)
  \/ \E s \in Schedules : ScheduleEnds(s)

Spec == Init /\ [][Next]_vars

----------------------------------------------------------------------------
(* Properties.                                                             *)

\* Types; rows refer to rows that exist, and a job that is being deleted
\* keeps its row until then.
TypeOK ==
  /\ groups \subseteq Groups
  /\ groupOf \in [Jobs -> groups \cup {None}]
  /\ schedule \in [Jobs -> Schedules \cup {None}]
  /\ \A j \in Jobs : schedule[j] = None <=> j \notin Live
  /\ enabled \subseteq Live /\ Live \subseteq created /\ created \subseteq Jobs
  /\ swept \subseteq created \ Live /\ lapsed \subseteq Jobs
  /\ quartzJobs \subseteq Jobs /\ trigger \in [Jobs -> Schedules \cup {None}]
  /\ over \subseteq Finite /\ active \subseteq Servers
  /\ fired \in [Jobs -> Schedules \cup {None}] /\ running \subseteq Jobs
  /\ deleting \in [job: Live \cup {None}, alone: BOOLEAN, stale: BOOLEAN]
  /\ refused \in BOOLEAN

\* Quartz keeps a job for every row of qz_job, and beyond that exactly for the
\* jobs whose rows went without deleteJob: those of a group that was deleted
\* (deleteGroup), and those that were to be moved to another group
\* (changeJobGroup).  What deleteJob deletes never fires again, whatever happens
\* to groups, schedules and the switch meanwhile.
QuartzMirrors ==
  /\ quartzJobs = Live \cup swept
  /\ \A j \in Jobs \ quartzJobs : trigger[j] = None

\* The two stores agree: a job has a trigger exactly while it is enabled, with
\* the schedule of its row, whichever way it was rescheduled; except that
\* Quartz removes the trigger when its schedule is over.
TriggersFollow ==
  \A j \in Live :
    trigger[j] = IF j \in enabled \ lapsed THEN schedule[j] ELSE None

\* The services, Quartz and the executor keep the promise of JobSchedule.
Promise == INSTANCE JobSchedule WITH
  plan <- [j \in Jobs |-> IF j \notin created THEN "unborn"
                         ELSE IF j \notin Live THEN "gone"
                         ELSE IF j \in enabled THEN schedule[j] ELSE "off"],
  due  <- [j \in Jobs |-> IF j \in Live THEN fired[j] ELSE None],
  busy <- running

ImplementsSchedule == Promise!Spec

\* QuartzManagementService.isJobActive: "Returns true if job is enabled" (as
\* long as the schedule of the job has a time left to fire).
EnabledActive ==
  \A j \in enabled : CanFire(schedule[j]) => trigger[j] # None

\* deleteJob takes no other job along, although it counts the jobs of the group
\* long before it deletes the group and the foreign key cascades: createJob
\* waits for Quartz meanwhile, and no other call brings a job into a group
\* (ScheduleJobManagementServiceImpl:169-173).
DeletesOnlyJob == [][\A j \in Jobs : CommitDelete(j) => Live' = Live \ {j}]_vars

\* ScheduleJobManagementService.changeJobGroup: "Move the job to other group".
MovesJob ==
  [][\A j \in Jobs, g \in Groups : ChangeJobGroup(j, g) => groupOf'[j] = g]_vars

\* ScheduleJobManagementService.changeJobAction: "Change the action for the
\* job"; its test expects the new action and no exception.
ActionChanged == ~refused
=============================================================================
