------------------------ MODULE JobSchedulingProofs ------------------------
(***************************************************************************)
(* Safety of JobScheduling for any sets of jobs, groups, schedules and     *)
(* servers: the rows and the tables of Quartz agree, and together they     *)
(* keep the promise of JobSchedule.                                        *)
(***************************************************************************)
EXTENDS JobScheduling, TLAPS

\* What was fired, or has lost its trigger, was created; a job that has lost
\* its trigger is still enabled.
KnownOK ==
  /\ lapsed \subseteq created /\ lapsed \cap Live \subseteq enabled
  /\ \A j \in Jobs : fired[j] # None => j \in created

\* A job that deleteJob has found alone in its group stays alone until the
\* group is deleted.
AloneOK ==
  deleting.job # None /\ deleting.alone =>
    Members(groupOf[deleting.job]) = {deleting.job}

IInv == TypeOK /\ QuartzMirrors /\ TriggersFollow /\ KnownOK /\ AloneOK

USE DEF rowVars, quartzVars, runVars, NoDelete, Live, Members, Without,
        RemoveRows, QuartzFree, Lockable

----------------------------------------------------------------------------
\* Next, one action at a time.
LEMMA Steps ==
  ASSUME Next
  PROVE  \/ \E g \in Groups : CreateGroup(g)
         \/ \E g \in Groups : ModifyGroup(g)
         \/ \E g \in Groups : DeleteGroup(g)
         \/ \E j \in Jobs : BeginDelete(j)
         \/ \E j \in Jobs : CommitDelete(j)
         \/ \E j \in Jobs : EnableJob(j)
         \/ \E j \in Jobs : DisableJob(j)
         \/ \E j \in Jobs : ChangeJobAction(j)
         \/ \E j \in Jobs, g \in Groups : ChangeJobGroup(j, g)
         \/ \E j \in Jobs, s \in Schedules : RescheduleEnabled(j, s)
         \/ \E j \in Jobs, s \in Schedules : RescheduleDisabled(j, s)
         \/ \E j \in Jobs, g \in Groups, s \in Schedules, on \in BOOLEAN :
              CreateJob(j, g, s, on)
         \/ \E j \in Jobs : Fire(j)
         \/ \E j \in Jobs : Start(j)
         \/ \E j \in Jobs : End(j)
         \/ \E j \in Jobs : DropTrigger(j)
         \/ RollBackDelete
         \/ \E v \in Servers : EnableScheduler(v)
         \/ \E v \in Servers : DisableScheduler(v)
         \/ \E s \in Schedules : ScheduleEnds(s)
  BY Zenon DEF Next, Manage
\* The steps that change neither jobs nor triggers nor firings: those that
\* concern groups, servers and time, and the first half of deleteJob.
Quiet == UNCHANGED <<created, groupOf, schedule, enabled, swept,
                     quartzJobs, trigger, lapsed, fired, running>>

LEMMA JobSteps ==
  ASSUME Next
  PROVE  \/ Quiet
         \/ \E g \in Groups : DeleteGroup(g)
         \/ \E j \in Jobs : CommitDelete(j)
         \/ \E j \in Jobs : EnableJob(j)
         \/ \E j \in Jobs : DisableJob(j)
         \/ \E j \in Jobs, g \in Groups : ChangeJobGroup(j, g)
         \/ \E j \in Jobs, s \in Schedules : RescheduleEnabled(j, s)
         \/ \E j \in Jobs, s \in Schedules : RescheduleDisabled(j, s)
         \/ \E j \in Jobs, g \in Groups, s \in Schedules, on \in BOOLEAN :
              CreateJob(j, g, s, on)
         \/ \E j \in Jobs : Fire(j)
         \/ \E j \in Jobs : Start(j)
         \/ \E j \in Jobs : End(j)
         \/ \E j \in Jobs : DropTrigger(j)
<1>1. ASSUME \/ \E g \in Groups : CreateGroup(g)
             \/ \E g \in Groups : ModifyGroup(g)
             \/ \E j \in Jobs : BeginDelete(j)
             \/ \E j \in Jobs : ChangeJobAction(j)
             \/ RollBackDelete
             \/ \E v \in Servers : EnableScheduler(v)
             \/ \E v \in Servers : DisableScheduler(v)
             \/ \E s \in Schedules : ScheduleEnds(s)
      PROVE  Quiet
  BY <1>1 DEF Quiet, CreateGroup, ModifyGroup, BeginDelete, ChangeJobAction,
              RollBackDelete, EnableScheduler, DisableScheduler, ScheduleEnds
<1> QED
  BY <1>1, Steps, Zenon

\* Rows, triggers and firings keep their types.
LEMMA TypeStep == IInv /\ [Next]_vars => TypeOK'
<1> SUFFICES ASSUME IInv, [Next]_vars  PROVE TypeOK'
  OBVIOUS
<1>1. ASSUME NEW g \in Groups, CreateGroup(g)
       PROVE  TypeOK'
  BY <1>1, SchedulingAssumption DEF IInv, TypeOK, CreateGroup
<1>2. ASSUME NEW g \in Groups, ModifyGroup(g)
       PROVE  TypeOK'
  BY <1>2, SchedulingAssumption DEF IInv, TypeOK, ModifyGroup
<1>3. ASSUME NEW g \in Groups, DeleteGroup(g)
       PROVE  TypeOK'
  BY <1>3, SchedulingAssumption DEF IInv, TypeOK, DeleteGroup
<1>4. ASSUME NEW j \in Jobs, BeginDelete(j)
       PROVE  TypeOK'
  BY <1>4, SchedulingAssumption DEF IInv, TypeOK, BeginDelete
<1>5. ASSUME NEW j \in Jobs, CommitDelete(j)
       PROVE  TypeOK'
  BY <1>5, SchedulingAssumption DEF IInv, TypeOK, CommitDelete, GoneWith,
     LeftInQuartz
<1>6. ASSUME NEW j \in Jobs, EnableJob(j)
       PROVE  TypeOK'
  BY <1>6, SchedulingAssumption DEF IInv, TypeOK, EnableJob
<1>7. ASSUME NEW j \in Jobs, DisableJob(j)
       PROVE  TypeOK'
  BY <1>7, SchedulingAssumption DEF IInv, TypeOK, DisableJob
<1>8. ASSUME NEW j \in Jobs, ChangeJobAction(j)
       PROVE  TypeOK'
  BY <1>8, SchedulingAssumption DEF IInv, TypeOK, ChangeJobAction, Storable,
     NewAction
<1>9. ASSUME NEW j \in Jobs, NEW g \in Groups, ChangeJobGroup(j, g)
       PROVE  TypeOK'
  BY <1>9, SchedulingAssumption DEF IInv, TypeOK, ChangeJobGroup,
     Orphans
<1>10. ASSUME NEW j \in Jobs, NEW s \in Schedules, RescheduleEnabled(j, s)
       PROVE  TypeOK'
  BY <1>10, SchedulingAssumption DEF IInv, TypeOK, RescheduleEnabled, Replaced
<1>11. ASSUME NEW j \in Jobs, NEW s \in Schedules, RescheduleDisabled(j, s)
       PROVE  TypeOK'
  BY <1>11, SchedulingAssumption DEF IInv, TypeOK, RescheduleDisabled
<1>12. ASSUME NEW j \in Jobs, NEW g \in Groups, NEW s \in Schedules,
                  NEW on \in BOOLEAN, CreateJob(j, g, s, on)
       PROVE  TypeOK'
  BY <1>12, SchedulingAssumption DEF IInv, TypeOK, CreateJob
<1>13. ASSUME NEW j \in Jobs, Fire(j)
       PROVE  TypeOK'
  BY <1>13, SchedulingAssumption DEF IInv, TypeOK, Fire, NotExecuting
<1>14. ASSUME NEW j \in Jobs, Start(j)
       PROVE  TypeOK'
  BY <1>14, SchedulingAssumption DEF IInv, TypeOK, Start
<1>15. ASSUME NEW j \in Jobs, End(j)
       PROVE  TypeOK'
  BY <1>15, SchedulingAssumption DEF IInv, TypeOK, End
<1>16. ASSUME NEW j \in Jobs, DropTrigger(j)
       PROVE  TypeOK'
  BY <1>16, SchedulingAssumption DEF IInv, TypeOK, DropTrigger
<1>17. ASSUME RollBackDelete
       PROVE  TypeOK'
  BY <1>17, SchedulingAssumption DEF IInv, TypeOK, RollBackDelete
<1>18. ASSUME NEW v \in Servers, EnableScheduler(v)
       PROVE  TypeOK'
  BY <1>18, SchedulingAssumption DEF IInv, TypeOK, EnableScheduler
<1>19. ASSUME NEW v \in Servers, DisableScheduler(v)
       PROVE  TypeOK'
  BY <1>19, SchedulingAssumption DEF IInv, TypeOK, DisableScheduler
<1>20. ASSUME NEW s \in Schedules, ScheduleEnds(s)
       PROVE  TypeOK'
  BY <1>20, SchedulingAssumption DEF IInv, TypeOK, ScheduleEnds
<1>21. CASE UNCHANGED vars
  BY <1>21 DEF vars, IInv, TypeOK
<1>22. CASE Next
  BY <1>22, Steps, <1>1, <1>2, <1>3, <1>4, <1>5, <1>6, <1>7, <1>8, <1>9,
     <1>10, <1>11, <1>12, <1>13, <1>14, <1>15, <1>16, <1>17, <1>18, <1>19,
     <1>20, Zenon
<1> QED
  BY <1>21, <1>22

\* A Quartz job comes and goes with its row, or stays behind it.
LEMMA MirrorStep == IInv /\ [Next]_vars => QuartzMirrors'
<1> SUFFICES ASSUME IInv, [Next]_vars  PROVE QuartzMirrors'
  OBVIOUS
<1>1. ASSUME NEW g \in Groups, DeleteGroup(g)
       PROVE  QuartzMirrors'
  BY <1>1, SchedulingAssumption DEF IInv, TypeOK, QuartzMirrors, DeleteGroup
<1>2. ASSUME NEW j \in Jobs, CommitDelete(j)
       PROVE  QuartzMirrors'
  BY <1>2, SchedulingAssumption DEF IInv, TypeOK, QuartzMirrors, CommitDelete,
     GoneWith, LeftInQuartz
<1>3. ASSUME NEW j \in Jobs, EnableJob(j)
       PROVE  QuartzMirrors'
  BY <1>3, SchedulingAssumption DEF IInv, TypeOK, QuartzMirrors, EnableJob
<1>4. ASSUME NEW j \in Jobs, DisableJob(j)
       PROVE  QuartzMirrors'
  BY <1>4, SchedulingAssumption DEF IInv, TypeOK, QuartzMirrors, DisableJob
<1>5. ASSUME NEW j \in Jobs, NEW g \in Groups, ChangeJobGroup(j, g)
       PROVE  QuartzMirrors'
  BY <1>5, SchedulingAssumption DEF IInv, TypeOK, QuartzMirrors,
     ChangeJobGroup, Orphans
<1>6. ASSUME NEW j \in Jobs, NEW s \in Schedules, RescheduleEnabled(j, s)
       PROVE  QuartzMirrors'
  BY <1>6, SchedulingAssumption DEF IInv, TypeOK, QuartzMirrors,
     RescheduleEnabled, Replaced
<1>7. ASSUME NEW j \in Jobs, NEW s \in Schedules, RescheduleDisabled(j, s)
       PROVE  QuartzMirrors'
  BY <1>7, SchedulingAssumption DEF IInv, TypeOK, QuartzMirrors,
     RescheduleDisabled
<1>8. ASSUME NEW j \in Jobs, NEW g \in Groups, NEW s \in Schedules,
                  NEW on \in BOOLEAN, CreateJob(j, g, s, on)
       PROVE  QuartzMirrors'
  BY <1>8, SchedulingAssumption DEF IInv, TypeOK, QuartzMirrors, CreateJob
<1>9. ASSUME NEW j \in Jobs, Fire(j)
       PROVE  QuartzMirrors'
  BY <1>9, SchedulingAssumption DEF IInv, TypeOK, QuartzMirrors, Fire,
     NotExecuting
<1>10. ASSUME NEW j \in Jobs, Start(j)
       PROVE  QuartzMirrors'
  BY <1>10, SchedulingAssumption DEF IInv, TypeOK, QuartzMirrors, Start
<1>11. ASSUME NEW j \in Jobs, End(j)
       PROVE  QuartzMirrors'
  BY <1>11, SchedulingAssumption DEF IInv, TypeOK, QuartzMirrors, End
<1>12. ASSUME NEW j \in Jobs, DropTrigger(j)
       PROVE  QuartzMirrors'
  BY <1>12, SchedulingAssumption DEF IInv, TypeOK, QuartzMirrors, DropTrigger
<1>13. CASE Quiet
  BY <1>13 DEF Quiet, IInv, TypeOK, QuartzMirrors
<1>14. CASE UNCHANGED vars
  BY <1>13, <1>14 DEF vars, Quiet
<1>15. CASE Next
  BY <1>15, JobSteps, <1>1, <1>2, <1>3, <1>4, <1>5, <1>6, <1>7, <1>8, <1>9,
     <1>10, <1>11, <1>12, <1>13, Zenon
<1> QED
  BY <1>14, <1>15

\* Whoever changes a row or a trigger changes the other as well.
LEMMA TriggerStep == IInv /\ [Next]_vars => TriggersFollow'
<1> SUFFICES ASSUME IInv, [Next]_vars  PROVE TriggersFollow'
  OBVIOUS
<1>1. ASSUME NEW g \in Groups, DeleteGroup(g)
       PROVE  TriggersFollow'
  BY <1>1, SchedulingAssumption DEF IInv, TypeOK, TriggersFollow, KnownOK,
     DeleteGroup
<1>2. ASSUME NEW j \in Jobs, CommitDelete(j)
       PROVE  TriggersFollow'
  BY <1>2, SchedulingAssumption DEF IInv, TypeOK, TriggersFollow, KnownOK,
     CommitDelete, GoneWith, LeftInQuartz
<1>3. ASSUME NEW j \in Jobs, EnableJob(j)
       PROVE  TriggersFollow'
  BY <1>3, SchedulingAssumption DEF IInv, TypeOK, TriggersFollow, KnownOK,
     EnableJob
<1>4. ASSUME NEW j \in Jobs, DisableJob(j)
       PROVE  TriggersFollow'
  BY <1>4, SchedulingAssumption DEF IInv, TypeOK, TriggersFollow, KnownOK,
     DisableJob
<1>5. ASSUME NEW j \in Jobs, NEW g \in Groups, ChangeJobGroup(j, g)
       PROVE  TriggersFollow'
  BY <1>5, SchedulingAssumption DEF IInv, TypeOK, TriggersFollow, KnownOK,
     ChangeJobGroup, Orphans
<1>6. ASSUME NEW j \in Jobs, NEW s \in Schedules, RescheduleEnabled(j, s)
       PROVE  TriggersFollow'
  BY <1>6, SchedulingAssumption DEF IInv, TypeOK, TriggersFollow, KnownOK,
     RescheduleEnabled, Replaced
<1>7. ASSUME NEW j \in Jobs, NEW s \in Schedules, RescheduleDisabled(j, s)
       PROVE  TriggersFollow'
  BY <1>7, SchedulingAssumption DEF IInv, TypeOK, TriggersFollow, KnownOK,
     RescheduleDisabled
<1>8. ASSUME NEW j \in Jobs, NEW g \in Groups, NEW s \in Schedules,
                  NEW on \in BOOLEAN, CreateJob(j, g, s, on)
       PROVE  TriggersFollow'
  BY <1>8, SchedulingAssumption DEF IInv, TypeOK, TriggersFollow, KnownOK,
     QuartzMirrors, CreateJob
<1>9. ASSUME NEW j \in Jobs, Fire(j)
       PROVE  TriggersFollow'
  BY <1>9, SchedulingAssumption DEF IInv, TypeOK, TriggersFollow, KnownOK,
     Fire, NotExecuting
<1>10. ASSUME NEW j \in Jobs, Start(j)
       PROVE  TriggersFollow'
  BY <1>10, SchedulingAssumption DEF IInv, TypeOK, TriggersFollow, KnownOK,
     Start
<1>11. ASSUME NEW j \in Jobs, End(j)
       PROVE  TriggersFollow'
  BY <1>11, SchedulingAssumption DEF IInv, TypeOK, TriggersFollow, KnownOK,
     End
<1>12. ASSUME NEW j \in Jobs, DropTrigger(j)
       PROVE  TriggersFollow'
  BY <1>12, SchedulingAssumption DEF IInv, TypeOK, TriggersFollow, KnownOK,
     DropTrigger
<1>13. CASE Quiet
  BY <1>13 DEF Quiet, IInv, TypeOK, TriggersFollow, KnownOK
<1>14. CASE UNCHANGED vars
  BY <1>13, <1>14 DEF vars, Quiet
<1>15. CASE Next
  BY <1>15, JobSteps, <1>1, <1>2, <1>3, <1>4, <1>5, <1>6, <1>7, <1>8, <1>9,
     <1>10, <1>11, <1>12, <1>13, Zenon
<1> QED
  BY <1>14, <1>15

\* Only jobs with a trigger fire, and only theirs lapse.
LEMMA KnownStep == IInv /\ [Next]_vars => KnownOK'
<1> SUFFICES ASSUME IInv, [Next]_vars  PROVE KnownOK'
  OBVIOUS
<1>1. ASSUME NEW g \in Groups, DeleteGroup(g)
       PROVE  KnownOK'
  BY <1>1, SchedulingAssumption DEF IInv, TypeOK, QuartzMirrors, KnownOK,
     DeleteGroup
<1>2. ASSUME NEW j \in Jobs, CommitDelete(j)
       PROVE  KnownOK'
  BY <1>2, SchedulingAssumption DEF IInv, TypeOK, QuartzMirrors, KnownOK,
     CommitDelete, GoneWith, LeftInQuartz
<1>3. ASSUME NEW j \in Jobs, EnableJob(j)
       PROVE  KnownOK'
  BY <1>3, SchedulingAssumption DEF IInv, TypeOK, QuartzMirrors, KnownOK,
     EnableJob
<1>4. ASSUME NEW j \in Jobs, DisableJob(j)
       PROVE  KnownOK'
  BY <1>4, SchedulingAssumption DEF IInv, TypeOK, QuartzMirrors, KnownOK,
     DisableJob
<1>5. ASSUME NEW j \in Jobs, NEW g \in Groups, ChangeJobGroup(j, g)
       PROVE  KnownOK'
  BY <1>5, SchedulingAssumption DEF IInv, TypeOK, QuartzMirrors, KnownOK,
     ChangeJobGroup, Orphans
<1>6. ASSUME NEW j \in Jobs, NEW s \in Schedules, RescheduleEnabled(j, s)
       PROVE  KnownOK'
  BY <1>6, SchedulingAssumption DEF IInv, TypeOK, QuartzMirrors, KnownOK,
     RescheduleEnabled, Replaced
<1>7. ASSUME NEW j \in Jobs, NEW s \in Schedules, RescheduleDisabled(j, s)
       PROVE  KnownOK'
  BY <1>7, SchedulingAssumption DEF IInv, TypeOK, QuartzMirrors, KnownOK,
     RescheduleDisabled
<1>8. ASSUME NEW j \in Jobs, NEW g \in Groups, NEW s \in Schedules,
                  NEW on \in BOOLEAN, CreateJob(j, g, s, on)
       PROVE  KnownOK'
  BY <1>8, SchedulingAssumption DEF IInv, TypeOK, QuartzMirrors, KnownOK,
     CreateJob
<1>9. ASSUME NEW j \in Jobs, Fire(j)
       PROVE  KnownOK'
  BY <1>9, SchedulingAssumption DEF IInv, TypeOK, QuartzMirrors, KnownOK,
     Fire, NotExecuting
<1>10. ASSUME NEW j \in Jobs, Start(j)
       PROVE  KnownOK'
  BY <1>10, SchedulingAssumption DEF IInv, TypeOK, QuartzMirrors, KnownOK,
     Start
<1>11. ASSUME NEW j \in Jobs, End(j)
       PROVE  KnownOK'
  BY <1>11, SchedulingAssumption DEF IInv, TypeOK, QuartzMirrors, KnownOK, End
<1>12. ASSUME NEW j \in Jobs, DropTrigger(j)
       PROVE  KnownOK'
  BY <1>12, SchedulingAssumption DEF IInv, TypeOK, QuartzMirrors, KnownOK,
     TriggersFollow, DropTrigger
<1>13. CASE Quiet
  BY <1>13 DEF Quiet, IInv, TypeOK, QuartzMirrors, KnownOK
<1>14. CASE UNCHANGED vars
  BY <1>13, <1>14 DEF vars, Quiet
<1>15. CASE Next
  BY <1>15, JobSteps, <1>1, <1>2, <1>3, <1>4, <1>5, <1>6, <1>7, <1>8, <1>9,
     <1>10, <1>11, <1>12, <1>13, Zenon
<1> QED
  BY <1>14, <1>15

\* While deleteJob is under way no job comes into a group.
LEMMA AloneStep == IInv /\ [Next]_vars => AloneOK'
<1> SUFFICES ASSUME IInv, [Next]_vars  PROVE AloneOK'
  OBVIOUS
<1> USE SchedulingAssumption DEF IInv, TypeOK, AloneOK
<1>1. ASSUME UNCHANGED <<groupOf, deleting>>
      PROVE  AloneOK'
  BY <1>1
<1>2. ASSUME deleting' = NoDelete
      PROVE  AloneOK'
  BY <1>2
<1>3. ASSUME NEW g \in Groups, DeleteGroup(g)
      PROVE  AloneOK'
  BY <1>3 DEF DeleteGroup
<1>4. ASSUME NEW j \in Jobs, NEW g \in Groups, ChangeJobGroup(j, g)
      PROVE  AloneOK'
  BY <1>4 DEF ChangeJobGroup, Orphans
<1>5. ASSUME NEW j \in Jobs, BeginDelete(j)
      PROVE  AloneOK'
  BY <1>5 DEF BeginDelete
<1>6. ASSUME NEW g \in Groups, ModifyGroup(g)
      PROVE  AloneOK'
  BY <1>6 DEF ModifyGroup
<1>7. ASSUME NEW j \in Jobs, NEW g \in Groups, NEW s \in Schedules,
             NEW on \in BOOLEAN, CreateJob(j, g, s, on)
      PROVE  AloneOK'
  BY <1>7 DEF CreateJob
<1>8. CASE Next
  BY <1>8, Steps, <1>1, <1>2, <1>3, <1>4, <1>5, <1>6, <1>7
     DEF CreateGroup, CommitDelete, EnableJob, DisableJob, ChangeJobAction,
         RescheduleEnabled, RescheduleDisabled, Fire, Start, End, DropTrigger,
         RollBackDelete, EnableScheduler, DisableScheduler, ScheduleEnds
<1>9. CASE UNCHANGED vars
  BY <1>1, <1>9 DEF vars
<1> QED
  BY <1>8, <1>9

----------------------------------------------------------------------------
\* The strengthened invariant.
THEOREM Invariance == Spec => []IInv
<1>1. Init => IInv
  <2> SUFFICES ASSUME Init  PROVE IInv
    OBVIOUS
  <2>1. Live = {}
    BY DEF Init
  <2>2. TypeOK
    BY <2>1, SchedulingAssumption DEF Init, TypeOK
  <2>3. QuartzMirrors /\ TriggersFollow /\ KnownOK /\ AloneOK
    BY <2>1 DEF Init, QuartzMirrors, TriggersFollow, KnownOK, AloneOK
  <2> QED
    BY <2>2, <2>3 DEF IInv
<1>2. IInv /\ [Next]_vars => IInv'
  BY TypeStep, MirrorStep, TriggerStep, KnownStep, AloneStep DEF IInv
<1> QED
  BY <1>1, <1>2, PTL DEF Spec

\* The types, and that rows refer to rows that exist.
THEOREM TypeCorrect == Spec => []TypeOK
<1>1. IInv => TypeOK
  BY DEF IInv
<1> QED
  BY <1>1, Invariance, PTL

\* Quartz has exactly the jobs of the table and those whose rows went with a
\* group or as orphans of a move.
THEOREM MirrorCorrect == Spec => []QuartzMirrors
<1>1. IInv => QuartzMirrors
  BY DEF IInv
<1> QED
  BY <1>1, Invariance, PTL

\* The triggers follow the rows.
THEOREM TriggerCorrect == Spec => []TriggersFollow
<1>1. IInv => TriggersFollow
  BY DEF IInv
<1> QED
  BY <1>1, Invariance, PTL

\* deleteJob takes no other job along.
THEOREM DeleteCorrect == Spec => DeletesOnlyJob
<1>1. IInv /\ [Next]_vars =>
        [\A j \in Jobs : CommitDelete(j) => Live' = Live \ {j}]_vars
  <2> SUFFICES ASSUME IInv, NEW j \in Jobs, CommitDelete(j)
               PROVE  Live' = Live \ {j}
    OBVIOUS
  <2>1. GoneWith(j) = {j}
    BY SchedulingAssumption
       DEF IInv, TypeOK, AloneOK, CommitDelete, GoneWith
  <2>2. groupOf' = Without(groupOf, {j})
    BY <2>1 DEF CommitDelete
  <2> QED
    BY <2>2 DEF IInv, TypeOK
<1> QED
  BY <1>1, Invariance, PTL DEF Spec, DeletesOnlyJob

----------------------------------------------------------------------------
(* Refinement.                                                             *)

Plan == [j \in Jobs |-> IF j \notin created THEN "unborn"
                        ELSE IF j \notin Live THEN "gone"
                        ELSE IF j \in enabled THEN schedule[j] ELSE "off"]
Due == [j \in Jobs |-> IF j \in Live THEN fired[j] ELSE None]

\* Every step is a step of the abstract specification, or none.
LEMMA PromiseStep ==
  ASSUME IInv, Next
  PROVE  Promise!Next \/ UNCHANGED Promise!vars
<1> DEFINE Goal == Promise!Next \/ UNCHANGED Promise!vars
<1>a. Live' = Live /\ Plan' = Plan /\ Due' = Due /\ running' = running => Goal
  BY DEF Plan, Due, Promise!vars
<1>b. ASSUME NEW j \in Jobs, NEW p \in Schedules \cup {"off"}, Plan[j] # "gone",
             Plan' = [Plan EXCEPT ![j] = p], Due' = Due, running' = running
      PROVE  Goal
  <2>1. Promise!Replan(j, p)
    BY <1>b DEF Promise!Replan, Plan, Due
  <2> QED
    BY <2>1, Zenon DEF Promise!Next
<1>c. ASSUME NEW S \in SUBSET Live, running' = running,
             Plan' = [j \in Jobs |-> IF j \in S THEN "gone" ELSE Plan[j]],
             Due' = [j \in Jobs |-> IF j \in S THEN "none" ELSE Due[j]]
      PROVE  Goal
  <2>1. \A j \in S : Plan[j] \notin {"unborn", "gone"}
    BY SchedulingAssumption DEF IInv, TypeOK, Plan
  <2>2. Promise!Remove(S)
    BY <1>c, <2>1 DEF Promise!Remove, Plan, Due
  <2>3. S \in SUBSET Jobs
    OBVIOUS
  <2> QED
    BY <2>2, <2>3, Zenon DEF Promise!Next
<1> HIDE DEF Goal
<1>1. ASSUME Quiet
      PROVE  Goal
  <2>1. Live' = Live /\ Plan' = Plan /\ Due' = Due /\ running' = running
    BY <1>1 DEF Quiet, Plan, Due
  <2> QED
    BY <1>a, <2>1
<1>2. ASSUME NEW g \in Groups, DeleteGroup(g)
       PROVE  Goal
  <2>1. Live' = Live \ Members(g) /\ running' = running /\ Members(g) \in SUBSET Live
    BY <1>2, SchedulingAssumption DEF IInv, TypeOK, DeleteGroup
  <2>2. Plan' = [j0 \in Jobs |-> IF j0 \in Members(g) THEN "gone" ELSE Plan[j0]]
    BY <1>2, <2>1, SchedulingAssumption DEF IInv, TypeOK, Plan, DeleteGroup
  <2>3. Due' = [j0 \in Jobs |-> IF j0 \in Members(g) THEN "none" ELSE Due[j0]]
    BY <1>2, <2>1 DEF Due, None, DeleteGroup
  <2> QED
    BY <1>c, <2>1, <2>2, <2>3
<1>3. ASSUME NEW j \in Jobs, CommitDelete(j)
       PROVE  Goal
  <2>1. Live' = Live \ GoneWith(j) /\ running' = running /\ GoneWith(j) \in SUBSET Live
    BY <1>3, SchedulingAssumption DEF IInv, TypeOK, CommitDelete, GoneWith
  <2>2. Plan' = [j0 \in Jobs |-> IF j0 \in GoneWith(j) THEN "gone" ELSE Plan[j0]]
    BY <1>3, <2>1, SchedulingAssumption DEF IInv, TypeOK, Plan, CommitDelete, GoneWith
  <2>3. Due' = [j0 \in Jobs |-> IF j0 \in GoneWith(j) THEN "none" ELSE Due[j0]]
    BY <1>3, <2>1 DEF Due, None, CommitDelete, GoneWith
  <2> QED
    BY <1>c, <2>1, <2>2, <2>3
<1>4. ASSUME NEW j \in Jobs, EnableJob(j)
       PROVE  Goal
  <2>0. /\ j \in Live /\ j \in created /\ Live' = Live /\ created' = created
        /\ enabled' = enabled \cup {j} /\ schedule' = schedule
    BY <1>4 DEF IInv, TypeOK, EnableJob
  <2>1. Plan[j] # "gone" /\ Plan' = [Plan EXCEPT ![j] = schedule[j]]
    <3>1. Plan[j] # "gone"
      BY <2>0, SchedulingAssumption DEF IInv, TypeOK, Plan
    <3>2. ASSUME NEW k \in Jobs
          PROVE  Plan'[k] = IF k = j THEN schedule[j] ELSE Plan[k]
      BY <2>0 DEF IInv, TypeOK, Plan
    <3>3. Plan' = [k \in Jobs |-> Plan'[k]]
      BY DEF Plan
    <3>4. Plan = [k \in Jobs |-> Plan[k]]
      BY DEF Plan
    <3> HIDE DEF Plan
    <3> QED
      BY <3>1, <3>2, <3>3, <3>4
  <2>2. Due' = Due /\ running' = running
    BY <1>4, SchedulingAssumption DEF IInv, TypeOK, Due, EnableJob
  <2> QED
    BY <1>b, <2>1, <2>2, <1>4, SchedulingAssumption DEF IInv, TypeOK,
       EnableJob
<1>5. ASSUME NEW j \in Jobs, DisableJob(j)
       PROVE  Goal
  <2>0. /\ j \in Live /\ j \in created /\ Live' = Live /\ created' = created
        /\ enabled' = enabled \ {j} /\ schedule' = schedule
    BY <1>5 DEF IInv, TypeOK, DisableJob
  <2>1. Plan[j] # "gone" /\ Plan' = [Plan EXCEPT ![j] = "off"]
    <3>1. Plan[j] # "gone"
      BY <2>0, SchedulingAssumption DEF IInv, TypeOK, Plan
    <3>2. ASSUME NEW k \in Jobs
          PROVE  Plan'[k] = IF k = j THEN "off" ELSE Plan[k]
      BY <2>0 DEF IInv, TypeOK, Plan
    <3>3. Plan' = [k \in Jobs |-> Plan'[k]]
      BY DEF Plan
    <3>4. Plan = [k \in Jobs |-> Plan[k]]
      BY DEF Plan
    <3> HIDE DEF Plan
    <3> QED
      BY <3>1, <3>2, <3>3, <3>4
  <2>2. Due' = Due /\ running' = running
    BY <1>5, SchedulingAssumption DEF IInv, TypeOK, Due, DisableJob
  <2> QED
    BY <1>b, <2>1, <2>2
<1>6. ASSUME NEW j \in Jobs, NEW g \in Groups, ChangeJobGroup(j, g)
       PROVE  Goal
  <2>1. CASE UNCHANGED <<groupOf, schedule, enabled, swept>>
    <3>1. Quiet
      BY <1>6, <2>1 DEF Quiet, ChangeJobGroup
    <3> QED
      BY <1>1, <3>1
  <2>2. CASE RemoveRows(Orphans(j, g))
    <3>1. /\ Live' = Live \ Orphans(j, g) /\ running' = running
          /\ Orphans(j, g) \in SUBSET Live
      BY <1>6, <2>2, SchedulingAssumption
         DEF IInv, TypeOK, ChangeJobGroup, Orphans
    <3>2. Plan' = [k \in Jobs |-> IF k \in Orphans(j, g) THEN "gone"
                                  ELSE Plan[k]]
      BY <1>6, <2>2, <3>1, SchedulingAssumption
         DEF IInv, TypeOK, Plan, ChangeJobGroup
    <3>3. Due' = [k \in Jobs |-> IF k \in Orphans(j, g) THEN "none"
                                 ELSE Due[k]]
      BY <1>6, <3>1 DEF Due, None, ChangeJobGroup
    <3> QED
      BY <1>c, <3>1, <3>2, <3>3
  <2> QED
    BY <1>6, <2>1, <2>2 DEF ChangeJobGroup
<1>7. ASSUME NEW j \in Jobs, NEW s \in Schedules, RescheduleEnabled(j, s)
       PROVE  Goal
  <2>0. /\ j \in Live /\ j \in created /\ Live' = Live /\ created' = created
        /\ enabled' = enabled /\ schedule' = [schedule EXCEPT ![j] = s] /\ j \in enabled
    BY <1>7 DEF IInv, TypeOK, RescheduleEnabled
  <2>1. Plan[j] # "gone" /\ Plan' = [Plan EXCEPT ![j] = s]
    <3>1. Plan[j] # "gone"
      BY <2>0, SchedulingAssumption DEF IInv, TypeOK, Plan
    <3>2. ASSUME NEW k \in Jobs
          PROVE  Plan'[k] = IF k = j THEN s ELSE Plan[k]
      BY <2>0 DEF IInv, TypeOK, Plan
    <3>3. Plan' = [k \in Jobs |-> Plan'[k]]
      BY DEF Plan
    <3>4. Plan = [k \in Jobs |-> Plan[k]]
      BY DEF Plan
    <3> HIDE DEF Plan
    <3> QED
      BY <3>1, <3>2, <3>3, <3>4
  <2>2. Due' = Due /\ running' = running
    BY <1>7, SchedulingAssumption DEF IInv, TypeOK, Due, RescheduleEnabled
  <2> QED
    BY <1>b, <2>1, <2>2
<1>8. ASSUME NEW j \in Jobs, NEW s \in Schedules, RescheduleDisabled(j, s)
       PROVE  Goal
  <2>1. Live' = Live /\ Plan' = Plan /\ Due' = Due /\ running' = running
    BY <1>8, SchedulingAssumption DEF IInv, TypeOK, Plan, Due, RescheduleDisabled
  <2> QED
    BY <1>a, <2>1
<1>9. ASSUME NEW j \in Jobs, NEW g \in Groups, NEW s \in Schedules,
                  NEW on \in BOOLEAN, CreateJob(j, g, s, on)
       PROVE  Goal
  <2>1. Plan[j] # "gone" /\ Plan' = [Plan EXCEPT ![j] = IF on THEN s ELSE "off"]
    BY <1>9, SchedulingAssumption DEF IInv, TypeOK, Plan, CreateJob
  <2>2. Due' = Due /\ running' = running
    BY <1>9, SchedulingAssumption DEF IInv, TypeOK, KnownOK, Due, CreateJob
  <2> QED
    BY <1>b, <2>1, <2>2
<1>10. ASSUME NEW j \in Jobs, Fire(j)
       PROVE  Goal
  <2>1. Live' = Live /\ Plan' = Plan /\ running' = running
    BY <1>10 DEF Fire, Plan
  <2>2. CASE j \in Live
    <3>1. Plan[j] = trigger[j] /\ trigger[j] \in Schedules
      BY <1>10, <2>2, SchedulingAssumption
         DEF IInv, TypeOK, TriggersFollow, Fire, Plan
    <3>2. Due[j] = "none" /\ Due' = [Due EXCEPT ![j] = Plan[j]]
      BY <1>10, <2>1, <2>2, <3>1 DEF IInv, TypeOK, Fire, NotExecuting, Due, None
    <3>3. Promise!Fire(j)
      BY <1>10, <2>1, <3>1, <3>2 DEF Promise!Fire, Plan, Due, Fire,
         NotExecuting
    <3> QED
      BY <3>3, Zenon DEF Promise!Next, Goal
  <2>3. CASE j \notin Live
    <3>1. Due' = Due
      BY <1>10, <2>1, <2>3 DEF IInv, TypeOK, QuartzMirrors, TriggersFollow,
         KnownOK, Fire, Due
    <3> QED
      BY <1>a, <2>1, <3>1
  <2> QED
    BY <2>2, <2>3
<1>11. ASSUME NEW j \in Jobs, Start(j)
       PROVE  Goal
  <2>1. Live' = Live /\ Plan' = Plan /\ running' = running \cup {j}
    BY <1>11 DEF Start, Plan
  <2>2. Due[j] # "none" /\ Due' = [Due EXCEPT ![j] = "none"]
    BY <1>11, <2>1 DEF IInv, TypeOK,
       Start, Due, None
  <2>3. Promise!Begin(j)
    BY <2>1, <2>2 DEF Promise!Begin, Plan, Due
  <2> QED
    BY <2>3, Zenon DEF Promise!Next, Goal
<1>12. ASSUME NEW j \in Jobs, End(j)
       PROVE  Goal
  <2>1. Live' = Live /\ Plan' = Plan /\ running' = running \ {j}
    BY <1>12 DEF End, Plan
  <2>2. Due' = [Due EXCEPT ![j] = "none"]
    BY <1>12, <2>1 DEF IInv, TypeOK,
       End, Due, None
  <2>3. Promise!End(j)
    BY <2>1, <2>2 DEF Promise!End, Plan, Due
  <2> QED
    BY <2>3, Zenon DEF Promise!Next, Goal
<1>13. ASSUME NEW j \in Jobs, DropTrigger(j)
       PROVE  Goal
  <2>1. Live' = Live /\ Plan' = Plan /\ Due' = Due /\ running' = running
    BY <1>13, SchedulingAssumption DEF IInv, TypeOK, Plan, Due, DropTrigger
  <2> QED
    BY <1>a, <2>1
<1> QED
  BY JobSteps, <1>1, <1>2, <1>3, <1>4, <1>5, <1>6, <1>7, <1>8, <1>9, <1>10,
     <1>11, <1>12, <1>13, Zenon DEF Goal

\* The services and Quartz keep the promise of JobSchedule.
THEOREM Refinement == Spec => ImplementsSchedule
<1>1. Init => Promise!Init
  <2> SUFFICES ASSUME Init  PROVE Promise!Init
    OBVIOUS
  <2>1. Live = {} /\ created = {} /\ running = {}
    BY DEF Init
  <2> QED
    BY <2>1 DEF Promise!Init, Init, None
<1>2. IInv /\ [Next]_vars => [Promise!Next]_(Promise!vars)
  <2>1. ASSUME IInv, Next  PROVE Promise!Next \/ UNCHANGED Promise!vars
    BY <2>1, PromiseStep
  <2>2. ASSUME UNCHANGED vars  PROVE UNCHANGED Promise!vars
    BY <2>2 DEF vars, Promise!vars
  <2> QED
    BY <2>1, <2>2
<1> QED
  BY <1>1, <1>2, Invariance, PTL DEF Spec, ImplementsSchedule, Promise!Spec
=============================================================================
