--------------------------- MODULE MCClusterGroup ---------------------------
(***************************************************************************)
(* Model checking ClusterGroup: three nodes and two jobs.                  *)
(***************************************************************************)
EXTENDS ClusterGroup, TLC

CONSTANTS a, b, c, report, backup

MCNodes  == {a, b, c}
MCJobs   == {report, backup}
MCLimits == {0, 1, 2}

\* No definition tells one node, or one job, from another.
Symmetry == Permutations(MCNodes) \cup Permutations(MCJobs)
=============================================================================
