---------------------------- MODULE ClusterGroup ----------------------------
(***************************************************************************)
(* A cluster group: its ordered nodes, the rolling index that spreads the  *)
(* executions over them, and the jobs that run on it.                      *)
(*                                                                         *)
(* Processes: the servers, which start executions of the jobs (the         *)
(* transaction of startExecution, as far as it concerns the group), and    *)
(* the users who edit the group.  The circular strategy reads the group    *)
(* and its nodes before rollGroupIndex locks the group, so it is two       *)
(* steps; Hibernate's row version makes the lock fail if the group was     *)
(* written in between.  deleteGroup looks for jobs first and deletes then. *)
(***************************************************************************)
EXTENDS Naturals, Sequences, FiniteSets

CONSTANTS
  NodeIds,  \* the nodes that may be created (an id is used again)
  Jobs,     \* the jobs that may be created
  Limits    \* the values of nodesLimit that a job may have (0: no limit)

ASSUME ClusterAssumption == IsFiniteSet(NodeIds) /\ Limits \subseteq Nat

VARIABLES
  group,    \* the group's row: live or gone
  nodes,    \* its nodes, ordered by their orderIndex
  enabled,  \* the nodes that are enabled
  nodeCount,
  rollingIndex,
  jobs,     \* the jobs that have the group as their cluster
  starts,   \* per job, what a start in progress has read: nodes and index
  outdated, \* jobs whose start has read an old version of the group's row
  deleter,  \* deleteGroup has found no jobs
  firsts    \* history: the nodes executions began with, since the nodes were
            \* edited or a start used nodes it had read before that (the
            \* latest Cardinality(NodeIds) of them)

groupVars == <<group, nodes, enabled, nodeCount, rollingIndex>>
startVars == <<starts, outdated>>
vars == <<groupVars, jobs, startVars, deleter, firsts>>

Idle == [busy |-> FALSE, list |-> <<>>, on |-> {}, index |-> 0]

Init ==
  /\ group = "gone" /\ nodes = <<>> /\ enabled = {}
  /\ nodeCount = 0 /\ rollingIndex = 0
  /\ jobs = {} /\ starts = [j \in Jobs |-> Idle] /\ outdated = {}
  /\ deleter = FALSE /\ firsts = <<>>

----------------------------------------------------------------------------
(* Selecting nodes.  Positions count from 1 here, indexes from 0.          *)

Members(list) == {list[p] : p \in 1 .. Len(list)}

Least(S) == CHOOSE i \in S : \A k \in S : i <= k

\* The index that follows idx in the circle of the enabled nodes; idx itself
\* if there is no other.
Rolled(list, on, idx) ==
  LET At(i)   == list[i + 1] \in on
      later   == {i \in (idx + 1) .. (Len(list) - 1) : At(i)}
      earlier == {i \in 0 .. (idx - 1) : At(i)}
  IN  IF later # {} THEN Least(later)
      ELSE IF earlier # {} THEN Least(earlier)
      ELSE idx

\* The enabled nodes of a list: the loops add them one by one.
EnabledOf(list, on) ==
  LET Added[n \in 0 .. Len(list)] ==
        IF n = 0 THEN <<>>
        ELSE IF list[n] \in on THEN Append(Added[n - 1], list[n])
        ELSE Added[n - 1]
  IN  Added[Len(list)]

\* The enabled nodes from the rolled index on, then those before it.
\* (Variant: the second loop runs one too far.)
WalkTooFar(list, on, idx) ==
  LET bound == IF idx < Len(list) THEN idx + 1 ELSE idx
  IN  EnabledOf(SubSeq(list, idx + 1, Len(list)), on)
        \o EnabledOf(SubSeq(list, 1, bound), on)

Walk(list, on, idx) ==
  EnabledOf(SubSeq(list, idx + 1, Len(list)), on)
    \o EnabledOf(SubSeq(list, 1, idx), on)

InIndexedOrder(list, on) == EnabledOf(list, on)

InRandomOrder(list, on) ==
  LET S == on \cap Members(list)
  IN  {s \in [1 .. Cardinality(S) -> S] : \A p, q \in DOMAIN s :
                                            s[p] = s[q] => p = q}

\* subList(0, limit), where there is a limit and the list is longer.
Limited(s, limit) ==
  IF limit > 0 /\ limit < Len(s) THEN SubSeq(s, 1, limit) ELSE s

----------------------------------------------------------------------------
(* Transactions that write the group's row give it a new version.          *)

\* (Variant: they do not.)
NoReaders == {}
Readers == {j \in Jobs : starts[j].busy}

NewVersion == outdated' = outdated \cup Readers

Changed == firsts' = <<>>

\* createGroup, when there is none.
CreateGroup ==
  /\ group = "gone"
  /\ group' = "live" /\ nodes' = <<>> /\ enabled' = {}
  /\ nodeCount' = 0 /\ rollingIndex' = 0
  /\ Changed
  /\ UNCHANGED <<jobs, startVars, deleter>>

\* modifyGroup: another name.
ModifyGroup ==
  /\ group = "live" /\ NewVersion
  /\ UNCHANGED <<groupVars, jobs, starts, deleter, firsts>>

\* reindexNodes: the order stays, the nodes are counted.  (Variant: it is not
\* called.)
NotCounted(list) == nodeCount
Counted(list) == Len(list)

\* createNode: at the end.
CreateNode(n, active) ==
  /\ group = "live" /\ n \notin Members(nodes)
  /\ nodes' = Append(nodes, n) /\ nodeCount' = Counted(nodes')
  /\ enabled' = IF active THEN enabled \cup {n} ELSE enabled
  /\ NewVersion /\ Changed
  /\ UNCHANGED <<group, rollingIndex, jobs, starts, deleter>>

\* The index after the node at index i was removed.  (Variant: it is not
\* moved.)
KeptIndex(i) == rollingIndex
ShiftedIndex(i) == IF rollingIndex > i THEN rollingIndex - 1 ELSE rollingIndex

\* deleteNode: the list closes up.
DeleteNode(p) ==
  /\ group = "live" /\ p \in 1 .. Len(nodes)
  /\ nodes' = [q \in 1 .. (Len(nodes) - 1) |->
                 IF q < p THEN nodes[q] ELSE nodes[q + 1]]
  /\ nodeCount' = Counted(nodes')
  /\ enabled' = enabled \ {nodes[p]}
  /\ rollingIndex' = ShiftedIndex(p - 1)
  /\ NewVersion /\ Changed
  /\ UNCHANGED <<group, jobs, starts, deleter>>

\* modifyNode writes the node's row only, so the group's version stays.
ModifyNode(n, active) ==
  /\ group = "live" /\ n \in Members(nodes)
  /\ enabled' = IF active THEN enabled \cup {n} ELSE enabled \ {n}
  /\ Changed
  /\ UNCHANGED <<group, nodes, nodeCount, rollingIndex, jobs, startVars,
                 deleter>>

\* deleteGroup, first half: no job may use the group (else ClusterGroupUsed).
FindNoJobs ==
  /\ group = "live" /\ ~deleter /\ jobs = {}
  /\ deleter' = TRUE
  /\ UNCHANGED <<groupVars, jobs, startVars, firsts>>

\* Second half: the foreign keys take along the nodes, and any job that uses
\* the group by now.  (A start holds its job's row, so the delete waits.)
DeleteGroup ==
  /\ deleter /\ group = "live" /\ \A j \in Jobs : ~starts[j].busy
  /\ group' = "gone" /\ nodes' = <<>> /\ enabled' = {}
  /\ nodeCount' = 0 /\ rollingIndex' = 0
  /\ jobs' = {}
  /\ deleter' = FALSE /\ outdated' = {}
  /\ Changed /\ UNCHANGED starts

----------------------------------------------------------------------------
(* Jobs on the group, and the start of their executions.                   *)

\* createJob, with this group as the cluster.
CreateJob(j) ==
  /\ group = "live" /\ j \notin jobs
  /\ jobs' = jobs \cup {j}
  /\ UNCHANGED <<groupVars, startVars, deleter, firsts>>

\* deleteJob; it waits for a start, which holds the job's row.
DeleteJob(j) ==
  /\ j \in jobs /\ ~starts[j].busy
  /\ jobs' = jobs \ {j}
  /\ UNCHANGED <<groupVars, startVars, deleter, firsts>>

\* selectClusterNodesInCircularOrder, first line: getNodes() loads the group
\* and its nodes.
ReadGroup(j) ==
  /\ j \in jobs /\ ~starts[j].busy
  /\ starts' = [starts EXCEPT ![j] = [busy  |-> TRUE, list |-> nodes,
                                      on    |-> enabled,
                                      index |-> rollingIndex]]
  /\ UNCHANGED <<groupVars, jobs, outdated, deleter, firsts>>

\* The lock of rollGroupIndex finds the version that was read.  (Variant: the
\* lock does not look at it.)
AnyVersion(j) == TRUE
SameVersion(j) == j \notin outdated

\* The latest firsts, one for each node there may be.
Recent(s) ==
  LET N == Cardinality(NodeIds)
  IN  IF Len(s) > N THEN SubSeq(s, Len(s) - N + 1, Len(s)) ELSE s

\* rollGroupIndex, the rest of the selection, and the commit.
Roll(j) ==
  /\ starts[j].busy /\ SameVersion(j)
  /\ LET r == starts[j]
         i == Rolled(r.list, r.on, r.index)
     IN  /\ rollingIndex' = i
         /\ outdated' = (outdated \cup IF i # rollingIndex THEN Readers ELSE {})
                          \ {j}
         /\ firsts' = IF r.on # enabled THEN <<>>
                      ELSE IF enabled = {} THEN firsts
                      ELSE Recent(Append(firsts, r.list[i + 1]))
  /\ starts' = [starts EXCEPT ![j] = Idle]
  /\ UNCHANGED <<group, nodes, enabled, nodeCount, jobs, deleter>>

\* StaleObjectStateException: startExecution rolls back, the firing is lost.
StartLost(j) ==
  /\ starts[j].busy /\ ~SameVersion(j)
  /\ starts' = [starts EXCEPT ![j] = Idle]
  /\ outdated' = outdated \ {j}
  /\ UNCHANGED <<groupVars, jobs, deleter, firsts>>

----------------------------------------------------------------------------
Edit ==
  \/ CreateGroup \/ ModifyGroup \/ FindNoJobs \/ DeleteGroup
  \/ \E n \in NodeIds, active \in BOOLEAN :
       CreateNode(n, active) \/ ModifyNode(n, active)
  \/ \E p \in 1 .. Cardinality(NodeIds) : DeleteNode(p)
  \/ \E j \in Jobs : CreateJob(j) \/ DeleteJob(j)

Start(j) == ReadGroup(j) \/ Roll(j) \/ StartLost(j)

Next == Edit \/ \E j \in Jobs : Start(j)

Spec == Init /\ [][Next]_vars

----------------------------------------------------------------------------
(* Properties.                                                             *)

\* Types; the denormalised node count is right.
TypeOK ==
  /\ group \in {"live", "gone"} /\ nodes \in Seq(NodeIds)
  /\ enabled \subseteq NodeIds /\ nodeCount = Len(nodes)
  /\ rollingIndex \in Nat /\ jobs \subseteq Jobs
  /\ starts \in [Jobs -> [busy: BOOLEAN, list: Seq(NodeIds),
                          on: SUBSET NodeIds, index: Nat]]
  /\ outdated \subseteq Jobs /\ deleter \in BOOLEAN
  /\ firsts \in Seq(NodeIds)

\* The index may be one past the last node (its node was deleted), never
\* more, so rollGroupIndex and the circular selection never call get(i)
\* outside the list, whatever list and index a start has read.
IndexInBounds ==
  /\ rollingIndex <= Len(nodes)
  /\ \A j \in Jobs : starts[j].index <= Len(starts[j].list)

\* A start that can still commit has read the list and the index as they are
\* now: startExecution is serializable with every edit of the list.
StartCurrent ==
  \A j \in Jobs : starts[j].busy /\ j \notin outdated =>
    group = "live" /\ starts[j].list = nodes /\ starts[j].index = rollingIndex

\* Every strategy gives each enabled node once, up to the limit; the circular
\* one begins at the rolled index and walks the list round at most once.
Once(s) == \A p, q \in 1 .. Len(s) : s[p] = s[q] => p = q

Position(n) == CHOOSE p \in 1 .. Len(nodes) : nodes[p] = n

SelectionSound ==
  LET i == Rolled(nodes, enabled, rollingIndex)
      w == Walk(nodes, enabled, i)
      Dist(n) == IF Position(n) > i THEN Position(n) - i
                 ELSE Position(n) + Len(nodes) - i
  IN  /\ \A limit \in Limits :
           \A s \in {w, InIndexedOrder(nodes, enabled)}
                      \cup InRandomOrder(nodes, enabled) :
             LET t == Limited(s, limit)
             IN  /\ Once(t) /\ Members(t) \subseteq enabled
                 /\ Len(t) = IF limit \in 1 .. Cardinality(enabled)
                             THEN limit ELSE Cardinality(enabled)
      /\ \A p \in 1 .. (Len(w) - 1) : Dist(w[p]) < Dist(w[p + 1])
      /\ enabled # {} => nodes[i + 1] = w[1]

\* While nobody edits the nodes, and no start uses nodes it read before they
\* were edited, no node begins two executions before every other enabled
\* node has begun one, whichever jobs and servers start them.
RoundRobin ==
  \A p, q \in 1 .. Len(firsts) :
    p < q /\ q - p < Cardinality(enabled) => firsts[p] # firsts[q]

\* Editing the list does not change whose turn it was: while the node stays,
\* the index stays on it.
TurnKept ==
  [][group = "live" /\ group' = "live" /\ nodes' # nodes
       /\ rollingIndex < Len(nodes)
       /\ nodes[rollingIndex + 1] \in Members(nodes')
     => /\ rollingIndex' < Len(nodes')
        /\ nodes'[rollingIndex' + 1] = nodes[rollingIndex + 1]]_vars

\* ClusterManagementService.deleteGroup: ClusterGroupUsed "When cluster group
\* is used by SchedulerJob and can't be deleted".
JobsKept == [][group = "live" /\ group' = "gone" => jobs = {}]_vars
=============================================================================
