--------------------------- MODULE MCJobScheduling ---------------------------
(***************************************************************************)
(* Model checking JobScheduling: two jobs, two groups, a schedule that     *)
(* never ends and one that does.                                           *)
(***************************************************************************)
EXTENDS JobScheduling, TLC

CONSTANTS report, backup, g1, g2, daily, once, east, west

MCJobs      == {report, backup}
MCGroups    == {g1, g2}
MCSchedules == {daily, once}
MCFinite    == {once}
MCServers   == {east, west}

\* No definition tells one job, group or server from another.
Symmetry == Permutations(MCJobs) \cup Permutations(MCGroups)
              \cup Permutations(MCServers)
=============================================================================
