------------------------- MODULE ClusterGroupProofs -------------------------
(***************************************************************************)
(* Safety of ClusterGroup for any finite set of nodes and any set of jobs: *)
(* the rolling index stays within the list, a start that commits has       *)
(* chosen from the list and the index as they are when it commits, and the *)
(* turns of the nodes go round.                                            *)
(***************************************************************************)
EXTENDS ClusterGroup, WellFoundedInduction, FiniteSetTheorems,
        SequenceTheorems, TLAPS

\* The enabled nodes are nodes of the group, now and in what a start has read.
EnabledOK ==
  /\ enabled \subseteq Members(nodes)
  /\ \A j \in Jobs : starts[j].on \subseteq Members(starts[j].list)

\* A deleted group has no jobs, and no row whose version a start could hold.
GoneOK ==
  /\ group = "gone" => jobs = {} /\ \A j \in Jobs : ~starts[j].busy
  /\ outdated \subseteq Readers

\* No node is in the list twice.
UniqueOK == Once(nodes)

\* Index k lies on the way round the circle from index a to index b.
OnArc(a, b, k) == IF a <= b THEN a <= k /\ k <= b ELSE a <= k \/ k <= b

\* It lies strictly between them; all the others do if a is b.
Between(a, b, k) == IF a < b THEN a < k /\ k < b ELSE a < k \/ k < b

\* The nodes of the history from position p on.
Since(s, p) == {s[r] : r \in p .. Len(s)}

\* On the way round from a node of the history to the rolling index every
\* enabled node has had its turn since.
Round(s, list, on, idx) ==
  /\ \A p \in 1 .. Len(s) : s[p] \in on
  /\ \A p \in 1 .. Len(s), i, k \in 0 .. (Len(list) - 1) :
       list[i + 1] = s[p] /\ OnArc(i, idx, k) /\ list[k + 1] \in on
         => list[k + 1] \in Since(s, p)

\* RoundRobin, of any history.
Spread(s, on) ==
  \A p, q \in 1 .. Len(s) :
    p < q /\ q - p < Cardinality(on) => s[p] # s[q]

RoundOK ==
  /\ Round(firsts, nodes, enabled, rollingIndex)
  /\ firsts # <<>> => rollingIndex < Len(nodes)

IInv ==
  /\ TypeOK /\ EnabledOK /\ GoneOK /\ UniqueOK /\ StartCurrent
  /\ IndexInBounds /\ RoundOK /\ RoundRobin

USE DEF groupVars, startVars, Idle, Changed, NewVersion, Readers, Counted

----------------------------------------------------------------------------
(* The operators.                                                          *)

Below == {ss \in Nat \X Nat : ss[1] < ss[2]}

\* A set of numbers that is not empty has a least element.
LEMMA LeastWitness ==
  ASSUME NEW S, S \subseteq Nat, S # {}
  PROVE  \E i \in S : \A k \in S : i <= k
<1>1. IsWellFoundedOn(Below, Nat)
  BY NatLessThanWellFounded, Zenon DEF OpToRel, Below
<1>2. PICK x \in S : \A y \in S : ~ (<<y, x>> \in Below)
  BY <1>1, WFMin
<1>3. \A y \in S : x <= y
  <2> SUFFICES ASSUME NEW y \in S, y < x  PROVE FALSE
    OBVIOUS
  <2>1. <<y, x>> \in Nat \X Nat /\ <<y, x>>[1] < <<y, x>>[2]
    OBVIOUS
  <2>2. <<y, x>> \in Below
    BY <2>1, Zenon DEF Below
  <2> QED
    BY <1>2, <2>2
<1> QED
  BY <1>3

\* Least is that element.
LEMMA LeastExists ==
  ASSUME NEW S, S \subseteq Nat, S # {}
  PROVE  Least(S) \in S
BY LeastWitness DEF Least

\* No member is less than it.
LEMMA LeastIsLeast ==
  ASSUME NEW S, S \subseteq Nat, S # {}, NEW m \in S
  PROVE  Least(S) <= m
<1>1. \A i, k \in S : i <= k /\ k <= i => i = k
  OBVIOUS
<1>2. \E i \in S : \A k \in S : i <= k
  BY LeastWitness
<1> QED
  BY <1>2 DEF Least

\* At most as many nodes as positions.
LEMMA SinceSize ==
  ASSUME NEW s \in Seq(NodeIds), NEW p \in 1 .. Len(s)
  PROVE  /\ IsFiniteSet(Since(s, p))
         /\ Cardinality(Since(s, p)) <= Len(s) - p + 1
<1> DEFINE D == p .. Len(s)
           f == [r \in D |-> s[r]]
<1>1. IsFiniteSet(D) /\ Cardinality(D) = Len(s) - p + 1
  BY FS_Interval
<1>2. f \in Surjection(D, Since(s, p))
  BY DEF Surjection, Since
<1> QED
  BY <1>1, <1>2, FS_Surjection

\* Rolling from an index within the list, or one past it, stays there; if a
\* node is enabled, the rolled index is an index of the list.
LEMMA RolledBounds ==
  ASSUME NEW list \in Seq(NodeIds), NEW on, NEW idx \in 0 .. Len(list)
  PROVE  /\ Rolled(list, on, idx) \in 0 .. Len(list)
         /\ on # {} /\ on \subseteq Members(list) =>
              Rolled(list, on, idx) < Len(list)
<1> DEFINE later   == {i \in (idx + 1) .. (Len(list) - 1) : list[i + 1] \in on}
           earlier == {i \in 0 .. (idx - 1) : list[i + 1] \in on}
<1>1. Rolled(list, on, idx) = IF later # {} THEN Least(later)
                              ELSE IF earlier # {} THEN Least(earlier)
                              ELSE idx
  BY DEF Rolled
<1>2. ASSUME on # {}, on \subseteq Members(list), later = {}, earlier = {}
      PROVE  idx < Len(list)
  <2>1. PICK p \in 1 .. Len(list) : list[p] \in on
    BY <1>2 DEF Members
  <2>2. p - 1 \in 0 .. (Len(list) - 1) /\ list[(p - 1) + 1] \in on
    BY <2>1
  <2>3. p - 1 \notin later /\ p - 1 \notin earlier
    BY <1>2
  <2> QED
    BY <2>2, <2>3
<1>3. later \subseteq 0 .. (Len(list) - 1) /\ earlier \subseteq 0 .. (Len(list) - 1)
  OBVIOUS
<1>4. later \subseteq Nat /\ earlier \subseteq Nat
  BY <1>3
<1> HIDE DEF later, earlier
<1>5. later # {} => Least(later) \in 0 .. (Len(list) - 1)
  BY <1>3, <1>4, LeastExists
<1>6. earlier # {} => Least(earlier) \in 0 .. (Len(list) - 1)
  BY <1>3, <1>4, LeastExists
<1>7. CASE later # {}
  BY <1>1, <1>5, <1>7
<1>8. CASE later = {} /\ earlier # {}
  BY <1>1, <1>6, <1>8
<1>9. CASE later = {} /\ earlier = {}
  BY <1>1, <1>2, <1>9
<1> QED
  BY <1>7, <1>8, <1>9

\* The rolled index is that of the next enabled node: none lies between.
LEMMA RolledNext ==
  ASSUME NEW list \in Seq(NodeIds), NEW on, NEW idx \in 0 .. Len(list),
         on # {}, on \subseteq Members(list)
  PROVE  LET i == Rolled(list, on, idx)
         IN  /\ i \in 0 .. (Len(list) - 1) /\ list[i + 1] \in on
             /\ \A k \in 0 .. (Len(list) - 1) :
                  Between(idx, i, k) => list[k + 1] \notin on
<1> DEFINE later   == {i \in (idx + 1) .. (Len(list) - 1) : list[i + 1] \in on}
           earlier == {i \in 0 .. (idx - 1) : list[i + 1] \in on}
           i       == Rolled(list, on, idx)
<1> SUFFICES /\ i \in 0 .. (Len(list) - 1) /\ list[i + 1] \in on
             /\ \A k \in 0 .. (Len(list) - 1) :
                  Between(idx, i, k) => list[k + 1] \notin on
  OBVIOUS
<1>1. i = IF later # {} THEN Least(later)
          ELSE IF earlier # {} THEN Least(earlier) ELSE idx
  BY DEF Rolled
<1>2. i \in 0 .. (Len(list) - 1)
  BY RolledBounds
<1>3. later \subseteq Nat /\ earlier \subseteq Nat
  OBVIOUS
<1>4. CASE later # {}
  <2>1. i \in later
    <3> HIDE DEF later, i
    <3> QED
      BY <1>1, <1>3, <1>4, LeastExists
  <2>2. \A m \in later : i <= m
    <3> HIDE DEF later, earlier
    <3> QED
      BY <1>1, <1>3, <1>4, LeastIsLeast
  <2> HIDE DEF i
  <2> QED
    BY <1>2, <2>1, <2>2 DEF Between
<1>5. CASE later = {} /\ earlier # {}
  <2>1. i \in earlier
    <3> HIDE DEF later, earlier, i
    <3> QED
      BY <1>1, <1>3, <1>5, LeastExists
  <2>2. \A m \in earlier : i <= m
    <3> HIDE DEF later, earlier
    <3> QED
      BY <1>1, <1>3, <1>5, LeastIsLeast
  <2> HIDE DEF i
  <2>3. \A k \in (idx + 1) .. (Len(list) - 1) : list[k + 1] \notin on
    BY <1>5
  <2>4. i < idx /\ list[i + 1] \in on
    BY <2>1
  <2>5. \A k \in 0 .. (Len(list) - 1) : k < i => list[k + 1] \notin on
    BY <1>2, <2>2, <2>4
  <2> HIDE DEF later, earlier
  <2> QED
    BY <1>2, <2>3, <2>4, <2>5 DEF Between
<1>6. CASE later = {} /\ earlier = {}
  <2>1. i = idx
    BY <1>1, <1>6
  <2>2. \A k \in 0 .. (Len(list) - 1) : k # idx => list[k + 1] \notin on
    <3> SUFFICES ASSUME NEW k \in 0 .. (Len(list) - 1), k # idx,
                        list[k + 1] \in on
                 PROVE  FALSE
      OBVIOUS
    <3>1. k \in later \/ k \in earlier
      OBVIOUS
    <3> QED
      BY <1>6, <3>1
  <2>3. list[idx + 1] \in on
    <3>1. PICK p \in 1 .. Len(list) : list[p] \in on
      BY DEF Members
    <3>2. p - 1 \in 0 .. (Len(list) - 1) /\ list[(p - 1) + 1] \in on
      BY <3>1
    <3> QED
      BY <2>2, <3>2
  <2> HIDE DEF i, later, earlier
  <2> QED
    BY <1>2, <2>1, <2>2, <2>3 DEF Between
<1> QED
  BY <1>4, <1>5, <1>6

\* The next node joins the history.
LEMMA RoundAppend ==
  ASSUME NEW list \in Seq(NodeIds), Once(list), NEW on, NEW s \in Seq(NodeIds),
         NEW idx \in 0 .. Len(list), s # <<>> => idx < Len(list),
         on # {}, on \subseteq Members(list), Round(s, list, on, idx)
  PROVE  LET i == Rolled(list, on, idx)
         IN  Round(Append(s, list[i + 1]), list, on, i)
<1> DEFINE i == Rolled(list, on, idx)
           x == list[i + 1]
           t == Append(s, x)
<1>1. /\ i \in 0 .. (Len(list) - 1) /\ x \in on
      /\ \A k \in 0 .. (Len(list) - 1) :
           Between(idx, i, k) => list[k + 1] \notin on
  BY RolledNext
<1> HIDE DEF i
<1>2. /\ t \in Seq(NodeIds) /\ Len(t) = Len(s) + 1 /\ t[Len(t)] = x
      /\ \A p \in 1 .. Len(s) : t[p] = s[p]
  BY <1>1
<1> HIDE DEF t
<1>3. ASSUME NEW p \in 1 .. Len(s)
      PROVE  Since(t, p) = Since(s, p) \cup {x}
  BY <1>2 DEF Since
<1>4. \A p \in 1 .. Len(t) : t[p] \in on
  BY <1>1, <1>2 DEF Round
<1>5. ASSUME NEW p \in 1 .. Len(t), NEW m \in 0 .. (Len(list) - 1),
             NEW k \in 0 .. (Len(list) - 1), list[m + 1] = t[p],
             OnArc(m, i, k), list[k + 1] \in on
      PROVE  list[k + 1] \in Since(t, p)
  <2>1. CASE p = Len(t)
    <3>1. m = i
      BY <1>1, <1>2, <1>5, <2>1 DEF Once
    <3>2. k = i
      BY <1>1, <1>5, <3>1 DEF OnArc
    <3> QED
      BY <1>2, <2>1, <3>2 DEF Since
  <2>2. CASE p \in 1 .. Len(s)
    <3>1. k = i \/ OnArc(m, idx, k)
      <4>1. idx \in 0 .. (Len(list) - 1)
        BY <2>2
      <4>2. ~Between(idx, i, k)
        BY <1>1, <1>5
      <4> QED
        BY <1>1, <1>5, <4>1, <4>2 DEF OnArc, Between
    <3>2. OnArc(m, idx, k) => list[k + 1] \in Since(s, p)
      BY <1>2, <1>5, <2>2 DEF Round
    <3> QED
      BY <1>3, <2>2, <3>1, <3>2
  <2> QED
    BY <1>2, <2>1, <2>2
<1> QED
  BY <1>4, <1>5 DEF Round, t, i

\* Seen from a node of the history that is next again, the whole circle has
\* had its turn, so the history since it is as long as the circle.
LEMMA SpreadAppend ==
  ASSUME NEW list \in Seq(NodeIds), NEW on, NEW s \in Seq(NodeIds),
         NEW idx \in 0 .. Len(list), s # <<>> => idx < Len(list),
         on # {}, on \subseteq Members(list), Round(s, list, on, idx),
         IsFiniteSet(on), Spread(s, on)
  PROVE  Spread(Append(s, list[Rolled(list, on, idx) + 1]), on)
<1> DEFINE i == Rolled(list, on, idx)
           x == list[i + 1]
           t == Append(s, x)
<1>1. /\ i \in 0 .. (Len(list) - 1) /\ x \in on
      /\ \A k \in 0 .. (Len(list) - 1) :
           Between(idx, i, k) => list[k + 1] \notin on
  BY RolledNext
<1> HIDE DEF i
<1>2. /\ t \in Seq(NodeIds) /\ Len(t) = Len(s) + 1 /\ t[Len(t)] = x
      /\ \A p \in 1 .. Len(s) : t[p] = s[p]
  BY <1>1
<1> HIDE DEF t
<1>3. ASSUME NEW p \in 1 .. Len(s), s[p] = x
      PROVE  Cardinality(on) <= Len(t) - p
  <2>1. \A k \in 0 .. (Len(list) - 1) : list[k + 1] \in on =>
          list[k + 1] \in Since(s, p)
    <3> SUFFICES ASSUME NEW k \in 0 .. (Len(list) - 1), list[k + 1] \in on
                 PROVE  list[k + 1] \in Since(s, p)
      OBVIOUS
    <3>1. idx \in 0 .. (Len(list) - 1)
      BY <1>3
    <3>2. OnArc(i, idx, k)
      BY <1>1, <3>1 DEF OnArc, Between
    <3> QED
      BY <1>1, <1>3, <3>2 DEF Round
  <2>2. on \subseteq Since(s, p)
    <3> SUFFICES ASSUME NEW n \in on  PROVE n \in Since(s, p)
      OBVIOUS
    <3>1. PICK q \in 1 .. Len(list) : list[q] = n
      BY DEF Members
    <3>2. q - 1 \in 0 .. (Len(list) - 1) /\ list[(q - 1) + 1] = n
      BY <3>1
    <3> QED
      BY <2>1, <3>2
  <2>3. IsFiniteSet(Since(s, p)) /\ Cardinality(Since(s, p)) <= Len(s) - p + 1
    BY SinceSize
  <2>4. Cardinality(on) <= Cardinality(Since(s, p))
    BY <2>2, <2>3, FS_Subset
  <2>5. Cardinality(on) \in Nat /\ Cardinality(Since(s, p)) \in Nat
    BY <2>3, FS_CardinalityType
  <2> QED
    BY <1>2, <2>3, <2>4, <2>5
<1>4. ASSUME NEW p \in 1 .. Len(t), NEW q \in 1 .. Len(t), p < q,
             q - p < Cardinality(on)
      PROVE  t[p] # t[q]
  <2>1. Cardinality(on) \in Nat
    BY FS_CardinalityType
  <2>2. CASE q = Len(t)
    <3>1. p \in 1 .. Len(s) /\ t[p] = s[p] /\ t[q] = x
      BY <1>2, <1>4, <2>2
    <3> QED
      BY <1>2, <1>3, <1>4, <2>1, <2>2, <3>1
  <2>3. CASE q \in 1 .. Len(s)
    <3>1. p \in 1 .. Len(s)
      BY <1>4, <2>3
    <3> QED
      BY <1>2, <1>4, <2>3, <3>1 DEF Spread
  <2> QED
    BY <1>2, <2>2, <2>3
<1> QED
  BY <1>4 DEF Spread, t, i

\* Forgetting the beginning of the history keeps both.
LEMMA RecentRound ==
  ASSUME NEW s \in Seq(NodeIds), NEW list, Len(list) \in Nat, NEW on,
         NEW idx, Round(s, list, on, idx), Spread(s, on)
  PROVE  Round(Recent(s), list, on, idx) /\ Spread(Recent(s), on)
<1> DEFINE N == Cardinality(NodeIds)
           t == SubSeq(s, Len(s) - N + 1, Len(s))
<1>1. N \in Nat
  BY ClusterAssumption, FS_CardinalityType
<1> HIDE DEF N
<1>2. CASE Len(s) > N
  <2> DEFINE d == Len(s) - N
  <2>1. d \in Nat /\ Len(s) = N + d
    BY <1>1, <1>2
  <2>2. t \in Seq(NodeIds) /\ Len(t) = N /\ \A p \in 1 .. N : t[p] = s[p + d]
    BY <1>1, <1>2, SubSeqProperties
  <2>3. Recent(s) = t
    BY <1>2 DEF Recent, N
  <2> HIDE DEF t, d
  <2>4. \A p \in 1 .. N : p + d \in 1 .. Len(s)
    BY <1>1, <2>1
  <2>5. ASSUME NEW p \in 1 .. N
        PROVE  Since(s, p + d) \subseteq Since(t, p)
    <3> SUFFICES ASSUME NEW r \in (p + d) .. Len(s)
                 PROVE  s[r] \in Since(t, p)
      BY DEF Since
    <3>1. r - d \in p .. Len(t) /\ r - d \in 1 .. N /\ (r - d) + d = r
      BY <1>1, <2>1, <2>2
    <3>2. t[r - d] = s[r]
      BY <2>2, <3>1
    <3> QED
      BY <3>1, <3>2 DEF Since
  <2>6. Round(t, list, on, idx)
    BY <2>2, <2>4, <2>5 DEF Round
  <2>7. Spread(t, on)
    <3> SUFFICES ASSUME NEW p \in 1 .. N, NEW q \in 1 .. N, p < q,
                        q - p < Cardinality(on)
                 PROVE  t[p] # t[q]
      BY <2>2 DEF Spread
    <3>1. p + d < q + d /\ (q + d) - (p + d) = q - p
      BY <2>1
    <3> QED
      BY <2>2, <2>4, <3>1 DEF Spread
  <2> QED
    BY <2>3, <2>6, <2>7
<1>3. CASE ~(Len(s) > N)
  BY <1>3 DEF Recent, N
<1> QED
  BY <1>2, <1>3

\* The list without its p-th node.
LEMMA Closed ==
  ASSUME TypeOK, NEW p \in 1 .. Len(nodes), DeleteNode(p)
  PROVE  /\ nodes' \in Seq(NodeIds) /\ Len(nodes') = Len(nodes) - 1
         /\ enabled \subseteq Members(nodes) => enabled' \subseteq Members(nodes')
<1> USE DEF TypeOK
<1>1. /\ nodes' = [q \in 1 .. (Len(nodes) - 1) |->
                     IF q < p THEN nodes[q] ELSE nodes[q + 1]]
      /\ enabled' = enabled \ {nodes[p]}
  BY DEF DeleteNode
<1>2. nodes' \in Seq(NodeIds) /\ Len(nodes') = Len(nodes) - 1
  BY <1>1
<1>3. ASSUME enabled \subseteq Members(nodes), NEW n \in enabled'
      PROVE  n \in Members(nodes')
  <2>1. PICK q \in 1 .. Len(nodes) : nodes[q] = n /\ q # p
    BY <1>1, <1>3 DEF Members
  <2>2. CASE q < p
    BY <1>1, <1>2, <2>1, <2>2 DEF Members
  <2>3. CASE q > p
    <3>1. q - 1 \in 1 .. Len(nodes') /\ nodes'[q - 1] = n
      BY <1>1, <1>2, <2>1, <2>3
    <3> QED
      BY <3>1 DEF Members
  <2> QED
    BY <2>1, <2>2, <2>3
<1> QED
  BY <1>2, <1>3

\* Appending a node keeps the members.
LEMMA Appended ==
  ASSUME NEW list \in Seq(NodeIds), NEW n \in NodeIds
  PROVE  Members(Append(list, n)) = Members(list) \cup {n}
<1>1. Len(Append(list, n)) = Len(list) + 1
  OBVIOUS
<1>2. \A p \in 1 .. Len(list) : Append(list, n)[p] = list[p]
  OBVIOUS
<1>3. Append(list, n)[Len(list) + 1] = n
  OBVIOUS
<1> QED
  BY <1>1, <1>2, <1>3 DEF Members

\* The history keeps its type.
LEMMA RecentType ==
  ASSUME NEW s \in Seq(NodeIds)
  PROVE  Recent(s) \in Seq(NodeIds)
<1>1. Cardinality(NodeIds) \in Nat
  BY ClusterAssumption, FS_CardinalityType
<1> QED
  BY <1>1, SubSeqProperties DEF Recent

----------------------------------------------------------------------------
(* Steps.                                                                  *)

\* A step is one of the actions, or leaves everything as it is.
LEMMA Steps ==
  ASSUME [Next]_vars
  PROVE  \/ CreateGroup \/ ModifyGroup \/ FindNoJobs \/ DeleteGroup
         \/ \E n \in NodeIds, active \in BOOLEAN : CreateNode(n, active)
         \/ \E n \in NodeIds, active \in BOOLEAN : ModifyNode(n, active)
         \/ \E p \in 1 .. Len(nodes) : DeleteNode(p)
         \/ \E j \in Jobs : CreateJob(j)
         \/ \E j \in Jobs : DeleteJob(j)
         \/ \E j \in Jobs : ReadGroup(j)
         \/ \E j \in Jobs : Roll(j)
         \/ \E j \in Jobs : StartLost(j)
         \/ UNCHANGED vars
<1>1. CASE Edit
  <2>1. ASSUME NEW p \in 1 .. Cardinality(NodeIds), DeleteNode(p)
        PROVE  \E q \in 1 .. Len(nodes) : DeleteNode(q)
    BY <2>1 DEF DeleteNode
  <2> QED
    BY <1>1, <2>1, Zenon DEF Edit
<1>2. CASE \E j \in Jobs : Start(j)
  BY <1>2, Zenon DEF Start
<1> QED
  BY <1>1, <1>2 DEF Next

\* The types, and the node count.
LEMMA TypeStep ==
  ASSUME IInv, [Next]_vars
  PROVE  TypeOK'
<1> USE DEF IInv, TypeOK
<1>1. CASE CreateGroup
  BY <1>1 DEF CreateGroup
<1>2. CASE ModifyGroup
  BY <1>2 DEF ModifyGroup
<1>3. CASE FindNoJobs
  BY <1>3 DEF FindNoJobs
<1>4. CASE DeleteGroup
  <2>1. /\ group' = "gone" /\ nodes' = <<>> /\ enabled' = {}
        /\ nodeCount' = 0 /\ rollingIndex' = 0 /\ jobs' = {}
        /\ deleter' = FALSE /\ outdated' = {} /\ firsts' = <<>>
        /\ starts' = starts
    BY <1>4 DEF DeleteGroup
  <2>2. nodes' \in Seq(NodeIds) /\ Len(nodes') = 0 /\ firsts' \in Seq(NodeIds)
    BY <2>1
  <2> QED
    BY <2>1, <2>2
<1>5. ASSUME NEW n \in NodeIds, NEW active \in BOOLEAN, CreateNode(n, active)
      PROVE  TypeOK'
  BY <1>5 DEF CreateNode
<1>6. ASSUME NEW n \in NodeIds, NEW active \in BOOLEAN, ModifyNode(n, active)
      PROVE  TypeOK'
  BY <1>6 DEF ModifyNode
<1>7. ASSUME NEW p \in 1 .. Len(nodes), DeleteNode(p)
      PROVE  TypeOK'
  <2>1. nodes' \in Seq(NodeIds) /\ Len(nodes') = Len(nodes) - 1
    BY <1>7, Closed
  <2>2. rollingIndex' \in Nat
    BY <1>7 DEF DeleteNode, ShiftedIndex
  <2> QED
    BY <1>7, <2>1, <2>2 DEF DeleteNode
<1>8. ASSUME NEW j \in Jobs, CreateJob(j)
      PROVE  TypeOK'
  BY <1>8 DEF CreateJob
<1>9. ASSUME NEW j \in Jobs, DeleteJob(j)
      PROVE  TypeOK'
  BY <1>9 DEF DeleteJob
<1>10. ASSUME NEW j \in Jobs, ReadGroup(j)
      PROVE  TypeOK'
  BY <1>10 DEF ReadGroup
<1>11. ASSUME NEW j \in Jobs, Roll(j)
      PROVE  TypeOK'
  <2> DEFINE r == starts[j]
             i == Rolled(r.list, r.on, r.index)
  <2>1. r.list \in Seq(NodeIds) /\ r.index \in 0 .. Len(r.list)
    BY DEF IndexInBounds
  <2>2. i \in 0 .. Len(r.list)
    BY <2>1, RolledBounds
  <2>3. ASSUME r.on = enabled, enabled # {}
        PROVE  r.list[i + 1] \in NodeIds
    <3>1. i < Len(r.list)
      BY <2>1, <2>3, RolledBounds DEF EnabledOK
    <3> QED
      BY <2>1, <2>2, <3>1
  <2>4. firsts' \in Seq(NodeIds)
    <3>1. CASE r.on = enabled /\ enabled # {}
      <4>1. Append(firsts, r.list[i + 1]) \in Seq(NodeIds)
        BY <2>3, <3>1
      <4>2. Recent(Append(firsts, r.list[i + 1])) \in Seq(NodeIds)
        BY <4>1, RecentType
      <4>3. firsts' = Recent(Append(firsts, r.list[i + 1]))
        BY <1>11, <3>1 DEF Roll
      <4> QED
        BY <4>2, <4>3
    <3>2. CASE ~ (r.on = enabled /\ enabled # {})
      BY <1>11, <3>2 DEF Roll
    <3> QED
      BY <3>1, <3>2
  <2>5. rollingIndex' \in Nat
    BY <1>11, <2>2 DEF Roll
  <2>6. starts' \in [Jobs -> [busy: BOOLEAN, list: Seq(NodeIds),
                              on: SUBSET NodeIds, index: Nat]]
    BY <1>11 DEF Roll
  <2> QED
    BY <1>11, <2>4, <2>5, <2>6 DEF Roll
<1>12. ASSUME NEW j \in Jobs, StartLost(j)
      PROVE  TypeOK'
  BY <1>12 DEF StartLost
<1>13. CASE UNCHANGED vars
  BY <1>13 DEF vars
<1> HIDE DEF IInv, TypeOK
<1> QED
  BY <1>1, <1>2, <1>3, <1>4, <1>5, <1>6, <1>7, <1>8, <1>9, <1>10, <1>11, <1>12, <1>13, Steps, Zenon

\* Only nodes of the list are enabled.
LEMMA EnabledStep ==
  ASSUME IInv, [Next]_vars
  PROVE  EnabledOK'
<1> USE DEF IInv, EnabledOK, TypeOK
<1>1. CASE CreateGroup
  BY <1>1 DEF CreateGroup, Members
<1>2. CASE ModifyGroup
  BY <1>2 DEF ModifyGroup
<1>3. CASE FindNoJobs
  BY <1>3 DEF FindNoJobs
<1>4. CASE DeleteGroup
  BY <1>4 DEF DeleteGroup, Members
<1>5. ASSUME NEW n \in NodeIds, NEW active \in BOOLEAN, CreateNode(n, active)
      PROVE  EnabledOK'
  <2>1. Members(nodes') = Members(nodes) \cup {n}
    BY <1>5, Appended DEF CreateNode
  <2> QED
    BY <1>5, <2>1 DEF CreateNode
<1>6. ASSUME NEW n \in NodeIds, NEW active \in BOOLEAN, ModifyNode(n, active)
      PROVE  EnabledOK'
  BY <1>6 DEF ModifyNode
<1>7. ASSUME NEW p \in 1 .. Len(nodes), DeleteNode(p)
      PROVE  EnabledOK'
  <2>1. enabled' \subseteq Members(nodes')
    BY <1>7, Closed
  <2> QED
    BY <1>7, <2>1 DEF DeleteNode
<1>8. ASSUME NEW j \in Jobs, CreateJob(j)
      PROVE  EnabledOK'
  BY <1>8 DEF CreateJob
<1>9. ASSUME NEW j \in Jobs, DeleteJob(j)
      PROVE  EnabledOK'
  BY <1>9 DEF DeleteJob
<1>10. ASSUME NEW j \in Jobs, ReadGroup(j)
      PROVE  EnabledOK'
  BY <1>10 DEF ReadGroup
<1>11. ASSUME NEW j \in Jobs, Roll(j)
      PROVE  EnabledOK'
  BY <1>11 DEF Roll, Members
<1>12. ASSUME NEW j \in Jobs, StartLost(j)
      PROVE  EnabledOK'
  <2>1. /\ starts' = [starts EXCEPT ![j] = Idle]
        /\ nodes' = nodes /\ enabled' = enabled
    BY <1>12 DEF StartLost
  <2>2. \A k \in Jobs : starts'[k] = starts[k] \/ starts'[k].on = {}
    BY <2>1
  <2>3. \A k \in Jobs : starts'[k].on \subseteq Members(starts'[k].list)
    <3> SUFFICES ASSUME NEW k \in Jobs
                 PROVE  starts'[k].on \subseteq Members(starts'[k].list)
      OBVIOUS
    <3>1. CASE starts'[k] = starts[k]
      <4>1. starts[k].on \subseteq Members(starts[k].list)
        OBVIOUS
      <4> HIDE DEF IInv, EnabledOK, TypeOK
      <4> QED
        BY <3>1, <4>1
    <3>2. CASE starts'[k].on = {}
      BY <3>2
    <3> QED
      BY <2>2, <3>1, <3>2
  <2>4. Members(nodes') = Members(nodes)
    BY <2>1
  <2> QED
    BY <2>1, <2>3, <2>4
<1>13. CASE UNCHANGED vars
  BY <1>13 DEF vars
<1> HIDE DEF IInv, EnabledOK, TypeOK
<1> QED
  BY <1>1, <1>2, <1>3, <1>4, <1>5, <1>6, <1>7, <1>8, <1>9, <1>10, <1>11, <1>12, <1>13, Steps, Zenon

\* A start in progress holds the row of a job, which keeps the group.
LEMMA GoneStep ==
  ASSUME IInv, [Next]_vars
  PROVE  GoneOK'
<1> USE DEF IInv, GoneOK, TypeOK
<1>1. CASE CreateGroup
  BY <1>1 DEF CreateGroup
<1>2. CASE ModifyGroup
  BY <1>2 DEF ModifyGroup
<1>3. CASE FindNoJobs
  BY <1>3 DEF FindNoJobs
<1>4. CASE DeleteGroup
  BY <1>4 DEF DeleteGroup
<1>5. ASSUME NEW n \in NodeIds, NEW active \in BOOLEAN, CreateNode(n, active)
      PROVE  GoneOK'
  BY <1>5 DEF CreateNode
<1>6. ASSUME NEW n \in NodeIds, NEW active \in BOOLEAN, ModifyNode(n, active)
      PROVE  GoneOK'
  BY <1>6 DEF ModifyNode
<1>7. ASSUME NEW p \in 1 .. Len(nodes), DeleteNode(p)
      PROVE  GoneOK'
  BY <1>7 DEF DeleteNode
<1>8. ASSUME NEW j \in Jobs, CreateJob(j)
      PROVE  GoneOK'
  BY <1>8 DEF CreateJob
<1>9. ASSUME NEW j \in Jobs, DeleteJob(j)
      PROVE  GoneOK'
  BY <1>9 DEF DeleteJob
<1>10. ASSUME NEW j \in Jobs, ReadGroup(j)
      PROVE  GoneOK'
  BY <1>10 DEF ReadGroup
<1>11. ASSUME NEW j \in Jobs, Roll(j)
      PROVE  GoneOK'
  BY <1>11 DEF Roll
<1>12. ASSUME NEW j \in Jobs, StartLost(j)
      PROVE  GoneOK'
  BY <1>12 DEF StartLost
<1>13. CASE UNCHANGED vars
  BY <1>13 DEF vars
<1> HIDE DEF IInv, GoneOK, TypeOK
<1> QED
  BY <1>1, <1>2, <1>3, <1>4, <1>5, <1>6, <1>7, <1>8, <1>9, <1>10, <1>11, <1>12, <1>13, Steps, Zenon

\* A node is created once, and closing the list up makes no copies.
LEMMA UniqueStep ==
  ASSUME IInv, [Next]_vars
  PROVE  UniqueOK'
<1> USE DEF IInv, UniqueOK, Once, TypeOK
<1>1. CASE CreateGroup
  BY <1>1 DEF CreateGroup
<1>2. CASE ModifyGroup
  BY <1>2 DEF ModifyGroup
<1>3. CASE FindNoJobs
  BY <1>3 DEF FindNoJobs
<1>4. CASE DeleteGroup
  BY <1>4 DEF DeleteGroup
<1>5. ASSUME NEW n \in NodeIds, NEW active \in BOOLEAN, CreateNode(n, active)
      PROVE  UniqueOK'
  BY <1>5 DEF CreateNode, Members
<1>6. ASSUME NEW n \in NodeIds, NEW active \in BOOLEAN, ModifyNode(n, active)
      PROVE  UniqueOK'
  BY <1>6 DEF ModifyNode
<1>7. ASSUME NEW p \in 1 .. Len(nodes), DeleteNode(p)
      PROVE  UniqueOK'
  BY <1>7 DEF DeleteNode
<1>8. ASSUME NEW j \in Jobs, CreateJob(j)
      PROVE  UniqueOK'
  BY <1>8 DEF CreateJob
<1>9. ASSUME NEW j \in Jobs, DeleteJob(j)
      PROVE  UniqueOK'
  BY <1>9 DEF DeleteJob
<1>10. ASSUME NEW j \in Jobs, ReadGroup(j)
      PROVE  UniqueOK'
  BY <1>10 DEF ReadGroup
<1>11. ASSUME NEW j \in Jobs, Roll(j)
      PROVE  UniqueOK'
  BY <1>11 DEF Roll
<1>12. ASSUME NEW j \in Jobs, StartLost(j)
      PROVE  UniqueOK'
  BY <1>12 DEF StartLost
<1>13. CASE UNCHANGED vars
  BY <1>13 DEF vars
<1> HIDE DEF IInv, UniqueOK, Once, TypeOK
<1> QED
  BY <1>1, <1>2, <1>3, <1>4, <1>5, <1>6, <1>7, <1>8, <1>9, <1>10, <1>11, <1>12, <1>13, Steps, Zenon

\* Whatever changes the list or the index gives the row a new version, except
\* a start that finds the index where it leaves it.
LEMMA CurrentStep ==
  ASSUME IInv, [Next]_vars
  PROVE  StartCurrent'
<1> USE DEF IInv, StartCurrent, TypeOK
<1>1. CASE CreateGroup
  BY <1>1 DEF CreateGroup
<1>2. CASE ModifyGroup
  BY <1>2 DEF ModifyGroup
<1>3. CASE FindNoJobs
  BY <1>3 DEF FindNoJobs
<1>4. CASE DeleteGroup
  BY <1>4 DEF DeleteGroup
<1>5. ASSUME NEW n \in NodeIds, NEW active \in BOOLEAN, CreateNode(n, active)
      PROVE  StartCurrent'
  BY <1>5 DEF CreateNode
<1>6. ASSUME NEW n \in NodeIds, NEW active \in BOOLEAN, ModifyNode(n, active)
      PROVE  StartCurrent'
  BY <1>6 DEF ModifyNode
<1>7. ASSUME NEW p \in 1 .. Len(nodes), DeleteNode(p)
      PROVE  StartCurrent'
  BY <1>7 DEF DeleteNode
<1>8. ASSUME NEW j \in Jobs, CreateJob(j)
      PROVE  StartCurrent'
  BY <1>8 DEF CreateJob
<1>9. ASSUME NEW j \in Jobs, DeleteJob(j)
      PROVE  StartCurrent'
  BY <1>9 DEF DeleteJob
<1>10. ASSUME NEW j \in Jobs, ReadGroup(j)
      PROVE  StartCurrent'
  BY <1>10 DEF ReadGroup, GoneOK
<1>11. ASSUME NEW j \in Jobs, Roll(j)
      PROVE  StartCurrent'
  BY <1>11 DEF Roll
<1>12. ASSUME NEW j \in Jobs, StartLost(j)
      PROVE  StartCurrent'
  BY <1>12 DEF StartLost
<1>13. CASE UNCHANGED vars
  BY <1>13 DEF vars
<1> HIDE DEF IInv, StartCurrent, TypeOK
<1> QED
  BY <1>1, <1>2, <1>3, <1>4, <1>5, <1>6, <1>7, <1>8, <1>9, <1>10, <1>11, <1>12, <1>13, Steps, Zenon

\* The index never passes the end of the list.
LEMMA BoundsStep ==
  ASSUME IInv, [Next]_vars
  PROVE  IndexInBounds'
<1> USE DEF IInv, IndexInBounds, TypeOK
<1>1. CASE CreateGroup
  BY <1>1 DEF CreateGroup
<1>2. CASE ModifyGroup
  BY <1>2 DEF ModifyGroup
<1>3. CASE FindNoJobs
  BY <1>3 DEF FindNoJobs
<1>4. CASE DeleteGroup
  BY <1>4 DEF DeleteGroup
<1>5. ASSUME NEW n \in NodeIds, NEW active \in BOOLEAN, CreateNode(n, active)
      PROVE  IndexInBounds'
  BY <1>5 DEF CreateNode
<1>6. ASSUME NEW n \in NodeIds, NEW active \in BOOLEAN, ModifyNode(n, active)
      PROVE  IndexInBounds'
  BY <1>6 DEF ModifyNode
<1>7. ASSUME NEW p \in 1 .. Len(nodes), DeleteNode(p)
      PROVE  IndexInBounds'
  <2>1. Len(nodes') = Len(nodes) - 1
    BY <1>7, Closed
  <2> QED
    BY <1>7, <2>1 DEF DeleteNode, ShiftedIndex
<1>8. ASSUME NEW j \in Jobs, CreateJob(j)
      PROVE  IndexInBounds'
  BY <1>8 DEF CreateJob
<1>9. ASSUME NEW j \in Jobs, DeleteJob(j)
      PROVE  IndexInBounds'
  BY <1>9 DEF DeleteJob
<1>10. ASSUME NEW j \in Jobs, ReadGroup(j)
      PROVE  IndexInBounds'
  BY <1>10 DEF ReadGroup
<1>11. ASSUME NEW j \in Jobs, Roll(j)
      PROVE  IndexInBounds'
  <2> DEFINE r == starts[j]
             i == Rolled(r.list, r.on, r.index)
  <2>1. r.list \in Seq(NodeIds) /\ r.index \in 0 .. Len(r.list)
    OBVIOUS
  <2>2. i \in 0 .. Len(r.list)
    BY <2>1, RolledBounds
  <2>3. r.list = nodes
    BY <1>11 DEF Roll, SameVersion, StartCurrent
  <2>4. rollingIndex' = i /\ nodes' = nodes /\ starts' = [starts EXCEPT ![j] = Idle]
    BY <1>11 DEF Roll
  <2> HIDE DEF i
  <2> QED
    BY <2>2, <2>3, <2>4
<1>12. ASSUME NEW j \in Jobs, StartLost(j)
      PROVE  IndexInBounds'
  BY <1>12 DEF StartLost
<1>13. CASE UNCHANGED vars
  BY <1>13 DEF vars
<1> HIDE DEF IInv, IndexInBounds, TypeOK
<1> QED
  BY <1>1, <1>2, <1>3, <1>4, <1>5, <1>6, <1>7, <1>8, <1>9, <1>10, <1>11, <1>12, <1>13, Steps, Zenon

Forgets == firsts' = <<>>
Keeps == UNCHANGED <<firsts, nodes, enabled, rollingIndex>>

\* A step forgets the history, leaves it and what it is about as they are, or
\* is a Roll.
LEMMA HistorySteps ==
  ASSUME [Next]_vars
  PROVE  Forgets \/ Keeps \/ \E j \in Jobs : Roll(j)
<1> USE DEF Forgets, Keeps
<1>1. CASE CreateGroup
  BY <1>1 DEF CreateGroup
<1>2. CASE ModifyGroup
  BY <1>2 DEF ModifyGroup
<1>3. CASE FindNoJobs
  BY <1>3 DEF FindNoJobs
<1>4. CASE DeleteGroup
  BY <1>4 DEF DeleteGroup
<1>5. ASSUME NEW n \in NodeIds, NEW active \in BOOLEAN, CreateNode(n, active)
      PROVE  Forgets
  BY <1>5 DEF CreateNode
<1>6. ASSUME NEW n \in NodeIds, NEW active \in BOOLEAN, ModifyNode(n, active)
      PROVE  Forgets
  BY <1>6 DEF ModifyNode
<1>7. ASSUME NEW p \in 1 .. Len(nodes), DeleteNode(p)
      PROVE  Forgets
  BY <1>7 DEF DeleteNode
<1>8. ASSUME NEW j \in Jobs, CreateJob(j)
      PROVE  Keeps
  BY <1>8 DEF CreateJob
<1>9. ASSUME NEW j \in Jobs, DeleteJob(j)
      PROVE  Keeps
  BY <1>9 DEF DeleteJob
<1>10. ASSUME NEW j \in Jobs, ReadGroup(j)
      PROVE  Keeps
  BY <1>10 DEF ReadGroup
<1>11. ASSUME NEW j \in Jobs, Roll(j)
      PROVE  \E h \in Jobs : Roll(h)
  BY <1>11
<1>12. ASSUME NEW j \in Jobs, StartLost(j)
      PROVE  Keeps
  BY <1>12 DEF StartLost
<1>13. CASE UNCHANGED vars
  BY <1>13 DEF vars
<1> HIDE DEF Forgets, Keeps
<1> QED
  BY <1>1, <1>2, <1>3, <1>4, <1>5, <1>6, <1>7, <1>8, <1>9, <1>10, <1>11, <1>12, <1>13, Steps, Zenon

\* The history stays a history of fair turns.
LEMMA RoundStep ==
  ASSUME IInv, [Next]_vars
  PROVE  RoundOK' /\ RoundRobin'
<1> USE DEF IInv
<1>1. CASE Forgets
  BY <1>1 DEF Forgets, RoundOK, Round, RoundRobin
<1>2. CASE Keeps
  BY <1>2 DEF Keeps, RoundOK, RoundRobin
<1>3. ASSUME NEW j \in Jobs, Roll(j), firsts' # <<>>
      PROVE  RoundOK' /\ RoundRobin'
  <2> DEFINE i == Rolled(nodes, enabled, rollingIndex)
             s == Append(firsts, nodes[i + 1])
  <2>1. starts[j].list = nodes /\ starts[j].index = rollingIndex
    BY <1>3 DEF Roll, SameVersion, StartCurrent
  <2>2. /\ starts[j].on = enabled
        /\ enabled # {} \/ firsts # <<>>
        /\ enabled # {} => firsts' = Recent(s)
        /\ rollingIndex' = Rolled(nodes, starts[j].on, rollingIndex)
        /\ UNCHANGED <<nodes, enabled>>
    BY <1>3, <2>1 DEF Roll
  <2>3. enabled # {}
    BY <2>2 DEF RoundOK, Round, TypeOK
  <2>4. /\ nodes \in Seq(NodeIds) /\ firsts \in Seq(NodeIds)
        /\ rollingIndex \in 0 .. Len(nodes)
        /\ firsts # <<>> => rollingIndex < Len(nodes)
        /\ enabled \subseteq Members(nodes) /\ Once(nodes)
    BY DEF TypeOK, IndexInBounds, EnabledOK, UniqueOK, RoundOK
  <2>5. IsFiniteSet(enabled)
    BY ClusterAssumption, FS_Subset DEF TypeOK
  <2>6. i \in 0 .. (Len(nodes) - 1)
    BY <2>3, <2>4, RolledNext
  <2>7. s \in Seq(NodeIds)
    BY <2>4, <2>6
  <2>8. Round(s, nodes, enabled, i)
    BY <2>3, <2>4, RoundAppend DEF RoundOK
  <2>9. Spread(firsts, enabled)
    BY DEF RoundRobin, Spread
  <2>10. Spread(s, enabled)
    BY <2>3, <2>4, <2>5, <2>9, SpreadAppend DEF RoundOK
  <2>11. Len(nodes) \in Nat
    BY <2>4
  <2> HIDE DEF i, s, IInv
  <2>12. Round(Recent(s), nodes, enabled, i) /\ Spread(Recent(s), enabled)
    BY <2>7, <2>8, <2>10, <2>11, RecentRound, Zenon
  <2>13. firsts' = Recent(s) /\ rollingIndex' = i /\ UNCHANGED <<nodes, enabled>>
    BY <2>2, <2>3 DEF i
  <2>14. RoundOK'
    BY <2>6, <2>12, <2>13 DEF RoundOK
  <2>15. RoundRobin'
    BY <2>12, <2>13 DEF RoundRobin, Spread
  <2> QED
    BY <2>14, <2>15
<1> QED
  BY <1>1, <1>2, <1>3, HistorySteps DEF Forgets

\* Initially.
LEMMA InitIInv ==
  ASSUME Init
  PROVE  IInv
<1> USE DEF Init
<1>1. TypeOK
  <2>1. nodes \in Seq(NodeIds) /\ Len(nodes) = 0 /\ firsts \in Seq(NodeIds)
    OBVIOUS
  <2>2. starts \in [Jobs -> [busy: BOOLEAN, list: Seq(NodeIds),
                             on: SUBSET NodeIds, index: Nat]]
    OBVIOUS
  <2> QED
    BY <2>1, <2>2 DEF TypeOK
<1>2. EnabledOK
  BY DEF EnabledOK, Members
<1>3. GoneOK /\ UniqueOK
  BY DEF GoneOK, UniqueOK, Once
<1>4. StartCurrent /\ IndexInBounds
  BY DEF StartCurrent, IndexInBounds
<1>5. RoundOK /\ RoundRobin
  BY DEF RoundOK, Round, RoundRobin
<1> QED
  BY <1>1, <1>2, <1>3, <1>4, <1>5 DEF IInv

LEMMA NextIInv ==
  ASSUME IInv, [Next]_vars
  PROVE  IInv'
BY TypeStep, EnabledStep, GoneStep, UniqueStep, CurrentStep, BoundsStep,
   RoundStep, Zenon DEF IInv

\* No step takes its turn from a node that stays.
LEMMA TurnStep ==
  ASSUME IInv, [Next]_vars, group = "live", group' = "live", nodes' # nodes,
         rollingIndex < Len(nodes),
         nodes[rollingIndex + 1] \in Members(nodes')
  PROVE  /\ rollingIndex' < Len(nodes')
         /\ nodes'[rollingIndex' + 1] = nodes[rollingIndex + 1]
<1> USE DEF IInv, TypeOK
<1>1. ASSUME NEW n \in NodeIds, NEW active \in BOOLEAN, CreateNode(n, active)
      PROVE  /\ rollingIndex' < Len(nodes')
             /\ nodes'[rollingIndex' + 1] = nodes[rollingIndex + 1]
  BY <1>1 DEF CreateNode
<1>2. ASSUME NEW p \in 1 .. Len(nodes), DeleteNode(p)
      PROVE  /\ rollingIndex' < Len(nodes')
             /\ nodes'[rollingIndex' + 1] = nodes[rollingIndex + 1]
  <2>1. /\ nodes' = [q \in 1 .. (Len(nodes) - 1) |->
                       IF q < p THEN nodes[q] ELSE nodes[q + 1]]
        /\ rollingIndex' = ShiftedIndex(p - 1)
    BY <1>2 DEF DeleteNode
  <2>2. Len(nodes') = Len(nodes) - 1
    BY <1>2, Closed
  <2>3. PICK q \in 1 .. (Len(nodes) - 1) : nodes'[q] = nodes[rollingIndex + 1]
    BY <2>2 DEF Members
  <2>4. rollingIndex + 1 # p
    BY <2>1, <2>3 DEF UniqueOK, Once
  <2>5. CASE rollingIndex > p - 1
    BY <2>1, <2>2, <2>5 DEF ShiftedIndex
  <2>6. CASE rollingIndex < p - 1
    BY <2>1, <2>2, <2>6 DEF ShiftedIndex
  <2> QED
    BY <2>4, <2>5, <2>6
<1>3. \/ \E n \in NodeIds, active \in BOOLEAN : CreateNode(n, active)
      \/ \E p \in 1 .. Len(nodes) : DeleteNode(p)
  BY Steps DEF CreateGroup, ModifyGroup, FindNoJobs, DeleteGroup, ModifyNode,
     CreateJob, DeleteJob, ReadGroup, Roll, StartLost, vars
<1> HIDE DEF IInv, TypeOK
<1> QED
  BY <1>1, <1>2, <1>3, Zenon

----------------------------------------------------------------------------
(* Theorems.                                                               *)

\* IInv is an invariant.
THEOREM Invariance == Spec => []IInv
<1>1. Init => IInv
  BY InitIInv
<1>2. IInv /\ [Next]_vars => IInv'
  BY NextIInv
<1> QED
  BY <1>1, <1>2, PTL DEF Spec

\* The types are kept, and nodeCount counts the nodes.
THEOREM TypeCorrect == Spec => []TypeOK
<1>1. IInv => TypeOK
  BY DEF IInv
<1> QED
  BY <1>1, Invariance, PTL

\* rollGroupIndex and the circular selection never leave the list.
THEOREM BoundsCorrect == Spec => []IndexInBounds
<1>1. IInv => IndexInBounds
  BY DEF IInv
<1> QED
  BY <1>1, Invariance, PTL

\* A start that can commit has read the list and the index as they are.
THEOREM CurrentCorrect == Spec => []StartCurrent
<1>1. IInv => StartCurrent
  BY DEF IInv
<1> QED
  BY <1>1, Invariance, PTL

\* No node begins two executions before every other enabled node has begun
\* one, while nobody edits the nodes.
THEOREM RoundRobinCorrect == Spec => []RoundRobin
<1>1. IInv => RoundRobin
  BY DEF IInv
<1> QED
  BY <1>1, Invariance, PTL

\* Creating and deleting nodes keeps the turn of the node whose turn it is.
THEOREM TurnCorrect == Spec => TurnKept
<1>1. IInv /\ [Next]_vars =>
        [group = "live" /\ group' = "live" /\ nodes' # nodes
           /\ rollingIndex < Len(nodes)
           /\ nodes[rollingIndex + 1] \in Members(nodes')
         => /\ rollingIndex' < Len(nodes')
            /\ nodes'[rollingIndex' + 1] = nodes[rollingIndex + 1]]_vars
  BY TurnStep
<1> QED
  BY <1>1, Invariance, PTL DEF Spec, TurnKept
=============================================================================
