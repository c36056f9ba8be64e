---------------------------- MODULE JobSchedule ----------------------------
(***************************************************************************)
(* What the scheduler promises to those who plan jobs: an automatic        *)
(* execution begins only for a job that exists, because of a firing that   *)
(* was handed out under the plan in force at that moment; a job has one    *)
(* firing or automatic execution at a time.  JobScheduling implements it   *)
(* with two stores, the program's tables and those of Quartz.              *)
(***************************************************************************)
CONSTANTS Jobs, Schedules

VARIABLES
  plan,  \* per job: unborn, off, its schedule while it is enabled, or gone
  due,   \* per job: the schedule of a firing that was handed out, or none
  busy   \* jobs whose automatic execution runs

vars == <<plan, due, busy>>

Init ==
  /\ plan = [j \in Jobs |-> "unborn"]
  /\ due = [j \in Jobs |-> "none"]
  /\ busy = {}

\* A job is created, enabled, disabled or rescheduled.
Replan(j, p) ==
  /\ plan[j] # "gone" /\ p \in Schedules \cup {"off"}
  /\ plan' = [plan EXCEPT ![j] = p]
  /\ UNCHANGED <<due, busy>>

\* Jobs are deleted, with what was due; what runs goes on.
Remove(S) ==
  /\ \A j \in S : plan[j] \notin {"unborn", "gone"}
  /\ plan' = [j \in Jobs |-> IF j \in S THEN "gone" ELSE plan[j]]
  /\ due' = [j \in Jobs |-> IF j \in S THEN "none" ELSE due[j]]
  /\ UNCHANGED busy

Fire(j) ==
  /\ plan[j] \in Schedules /\ due[j] = "none" /\ j \notin busy
  /\ due' = [due EXCEPT ![j] = plan[j]]
  /\ UNCHANGED <<plan, busy>>

Begin(j) ==
  /\ due[j] # "none"
  /\ due' = [due EXCEPT ![j] = "none"] /\ busy' = busy \cup {j}
  /\ UNCHANGED plan

\* A firing comes to nothing, or an execution ends.
End(j) ==
  /\ due' = [due EXCEPT ![j] = "none"] /\ busy' = busy \ {j}
  /\ UNCHANGED plan

Next ==
  \/ \E S \in SUBSET Jobs : Remove(S)
  \/ \E j \in Jobs :
       \/ Fire(j) \/ Begin(j) \/ End(j)
       \/ \E p \in Schedules \cup {"off"} : Replan(j, p)

Spec == Init /\ [][Next]_vars
=============================================================================
