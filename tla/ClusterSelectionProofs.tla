----------------------- MODULE ClusterSelectionProofs -----------------------
(***************************************************************************)
(* What the strategies of ClusterGroup select, for any list of nodes.      *)
(* EnabledOf is a recursive function; its existence and what it returns    *)
(* are proved by least counterexamples (LeastWitness).                     *)
(***************************************************************************)
EXTENDS ClusterGroupProofs

----------------------------------------------------------------------------
(* The loops that add the enabled nodes of a list one by one.              *)

\* g gives what was added after each of the first n nodes.
AddedBy(g, list, on, n) ==
  g = [m \in 0 .. n |->
        IF m = 0 THEN <<>>
        ELSE IF list[m] \in on THEN Append(g[m - 1], list[m])
        ELSE g[m - 1]]

\* There is such a function.
LEMMA AddedExists ==
  ASSUME NEW list \in Seq(NodeIds), NEW on, NEW n \in Nat
  PROVE  \E g : AddedBy(g, list, on, n)
<1> DEFINE Bad == {m \in Nat : ~ \E g : AddedBy(g, list, on, m)}
<1> SUFFICES ASSUME Bad # {}  PROVE FALSE
  OBVIOUS
<1>1. PICK m \in Bad : \A k \in Bad : m <= k
  BY LeastWitness
<1>2. m # 0
  <2> DEFINE z == [k \in 0 .. 0 |-> <<>>]
  <2>1. AddedBy(z, list, on, 0)
    BY DEF AddedBy
  <2> QED
    BY <2>1
<1>3. PICK g : AddedBy(g, list, on, m - 1)
  BY <1>1, <1>2
<1> DEFINE h == [k \in 0 .. m |->
                  IF k < m THEN g[k]
                  ELSE IF list[m] \in on THEN Append(g[m - 1], list[m])
                  ELSE g[m - 1]]
<1>4. m \in Nat /\ m > 0
  BY <1>2
<1>5. \A k \in 0 .. (m - 1) :
        g[k] = IF k = 0 THEN <<>>
               ELSE IF list[k] \in on THEN Append(g[k - 1], list[k])
               ELSE g[k - 1]
  BY <1>3, <1>4 DEF AddedBy
<1>6. AddedBy(h, list, on, m)
  BY <1>4, <1>5 DEF AddedBy
<1> QED
  BY <1>1, <1>6

\* EnabledOf is its last value.
LEMMA EnabledOfDef ==
  ASSUME NEW list \in Seq(NodeIds), NEW on
  PROVE  \E g : /\ AddedBy(g, list, on, Len(list))
                /\ EnabledOf(list, on) = g[Len(list)]
<1>1. Len(list) \in Nat
  OBVIOUS
<1>2. \E g : AddedBy(g, list, on, Len(list))
  BY <1>1, AddedExists
<1> DEFINE f == CHOOSE g : AddedBy(g, list, on, Len(list))
<1>3. AddedBy(f, list, on, Len(list))
  BY <1>2, Zenon
<1>4. EnabledOf(list, on) = f[Len(list)]
  BY Zenon DEF EnabledOf, AddedBy
<1> QED
  BY <1>3, <1>4

\* t holds the nodes of the list that are in on and at one of the first n
\* positions, in the order of the list; e tells their positions.
Picks(e, t, list, n, on) ==
  /\ e \in [1 .. Len(t) -> 1 .. n]
  /\ \A k \in 1 .. Len(t) : t[k] = list[e[k]] /\ t[k] \in on
  /\ \A k, m \in 1 .. Len(t) : k < m => e[k] < e[m]
  /\ \A q \in 1 .. n : list[q] \in on => \E k \in 1 .. Len(t) : e[k] = q

\* One turn of the loop.
LEMMA PicksNext ==
  ASSUME NEW list \in Seq(NodeIds), NEW on, NEW n \in 1 .. Len(list),
         NEW t \in Seq(NodeIds), NEW e, Picks(e, t, list, n - 1, on)
  PROVE  \E d : Picks(d, IF list[n] \in on THEN Append(t, list[n]) ELSE t,
                      list, n, on)
<1>1. CASE list[n] \in on
  <2> DEFINE u == Append(t, list[n])
             d == [k \in 1 .. (Len(t) + 1) |-> IF k <= Len(t) THEN e[k] ELSE n]
  <2>1. /\ Len(u) = Len(t) + 1 /\ u[Len(u)] = list[n]
        /\ \A k \in 1 .. Len(t) : u[k] = t[k]
    OBVIOUS
  <2>2. /\ d \in [1 .. Len(u) -> 1 .. n] /\ d[Len(u)] = n
        /\ \A k \in 1 .. Len(t) : d[k] = e[k] /\ e[k] \in 1 .. (n - 1)
    BY <2>1 DEF Picks
  <2> HIDE DEF u, d
  <2>3. \A k \in 1 .. Len(u) : u[k] = list[d[k]] /\ u[k] \in on
    BY <1>1, <2>1, <2>2 DEF Picks
  <2>4. \A k, m \in 1 .. Len(u) : k < m => d[k] < d[m]
    <3> SUFFICES ASSUME NEW k \in 1 .. Len(u), NEW m \in 1 .. Len(u), k < m
                 PROVE  d[k] < d[m]
      OBVIOUS
    <3>1. k \in 1 .. Len(t) /\ (m \in 1 .. Len(t) \/ m = Len(u))
      BY <2>1
    <3>2. CASE m \in 1 .. Len(t)
      BY <2>2, <3>1, <3>2 DEF Picks
    <3>3. CASE m = Len(u)
      BY <2>2, <3>1, <3>3
    <3> QED
      BY <3>1, <3>2, <3>3
  <2>5. \A q \in 1 .. n : list[q] \in on => \E k \in 1 .. Len(u) : d[k] = q
    <3> SUFFICES ASSUME NEW q \in 1 .. n, list[q] \in on
                 PROVE  \E k \in 1 .. Len(u) : d[k] = q
      OBVIOUS
    <3>1. CASE q = n
      BY <2>1, <2>2, <3>1
    <3>2. CASE q \in 1 .. (n - 1)
      <4>1. PICK k \in 1 .. Len(t) : e[k] = q
        BY <3>2 DEF Picks
      <4>2. k \in 1 .. Len(u)
        BY <2>1
      <4> QED
        BY <2>2, <4>1, <4>2
    <3> QED
      BY <3>1, <3>2
  <2>6. Picks(d, u, list, n, on)
    BY <2>2, <2>3, <2>4, <2>5 DEF Picks
  <2> QED
    BY <1>1, <2>6 DEF u
<1>2. CASE list[n] \notin on
  <2>1. e \in [1 .. Len(t) -> 1 .. n]
    BY DEF Picks
  <2>2. \A q \in 1 .. n : list[q] \in on => q \in 1 .. (n - 1)
    BY <1>2
  <2>3. Picks(e, t, list, n, on)
    BY <2>1, <2>2 DEF Picks
  <2> QED
    BY <1>2, <2>3
<1> QED
  BY <1>1, <1>2

\* After each turn the nodes added are those of the positions seen.
LEMMA AddedPicks ==
  ASSUME NEW list \in Seq(NodeIds), NEW on, NEW g,
         AddedBy(g, list, on, Len(list)), NEW n \in 0 .. Len(list)
  PROVE  g[n] \in Seq(NodeIds) /\ \E e : Picks(e, g[n], list, n, on)
<1> DEFINE Good(m) == /\ g[m] \in Seq(NodeIds)
                      /\ \E e : Picks(e, g[m], list, m, on)
           Bad == {m \in 0 .. Len(list) : ~ Good(m)}
<1> SUFFICES ASSUME Bad # {}  PROVE FALSE
  OBVIOUS
<1>1. Bad \subseteq Nat
  OBVIOUS
<1>2. PICK m \in Bad : \A k \in Bad : m <= k
  <2> HIDE DEF Bad
  <2> QED
    BY <1>1, LeastWitness
<1>3. m \in 0 .. Len(list)
  OBVIOUS
<1>4. m # 0
  <2> DEFINE z == [k \in 1 .. 0 |-> 1]
  <2>1. g[0] = <<>>
    BY DEF AddedBy
  <2>2. Picks(z, <<>>, list, 0, on)
    BY DEF Picks
  <2>3. Good(0)
    BY <2>1, <2>2
  <2> QED
    BY <2>3
<1>5. m \in 1 .. Len(list) /\ m - 1 \in 0 .. Len(list)
  BY <1>3, <1>4
<1>6. m - 1 \notin Bad
  BY <1>2, <1>5
<1>7. Good(m - 1)
  BY <1>5, <1>6
<1>8. g[m] = IF list[m] \in on THEN Append(g[m - 1], list[m]) ELSE g[m - 1]
  <2> HIDE DEF Bad
  <2> QED
    BY <1>3, <1>4 DEF AddedBy
<1>9. g[m] \in Seq(NodeIds)
  BY <1>5, <1>7, <1>8
<1>10. \E d : Picks(d, g[m], list, m, on)
  <2> DEFINE t == g[m - 1]
  <2>1. t \in Seq(NodeIds)
    BY <1>7
  <2>2. PICK e : Picks(e, t, list, m - 1, on)
    BY <1>7
  <2> HIDE DEF t
  <2>3. \E d : Picks(d, IF list[m] \in on THEN Append(t, list[m]) ELSE t,
                     list, m, on)
    BY <1>5, <2>1, <2>2, PicksNext
  <2> QED
    BY <1>8, <2>3 DEF t
<1> QED
  BY <1>9, <1>10

\* So EnabledOf returns the enabled nodes of the list, in its order.
LEMMA EnabledOfPicks ==
  ASSUME NEW list \in Seq(NodeIds), NEW on
  PROVE  /\ EnabledOf(list, on) \in Seq(NodeIds)
         /\ \E e : Picks(e, EnabledOf(list, on), list, Len(list), on)
<1>1. PICK g : /\ AddedBy(g, list, on, Len(list))
               /\ EnabledOf(list, on) = g[Len(list)]
  BY EnabledOfDef
<1>2. Len(list) \in 0 .. Len(list)
  OBVIOUS
<1> QED
  BY <1>1, <1>2, AddedPicks

----------------------------------------------------------------------------
(* The circle.                                                             *)

\* How far position p is from the index idx, going round.
Dist(list, idx, p) == IF p > idx THEN p - idx ELSE p + Len(list) - idx

\* w holds the nodes of the list that are in on, in the order of the circle
\* that begins after idx; e tells their positions.
Rounds(e, w, list, idx, on) ==
  /\ e \in [1 .. Len(w) -> 1 .. Len(list)]
  /\ \A k \in 1 .. Len(w) : w[k] = list[e[k]] /\ w[k] \in on
  /\ \A k, m \in 1 .. Len(w) :
       k < m => Dist(list, idx, e[k]) < Dist(list, idx, e[m])
  /\ \A q \in 1 .. Len(list) : list[q] \in on => \E k \in 1 .. Len(w) : e[k] = q

\* The indexed order is the circle from the beginning.
LEMMA IndexedRounds ==
  ASSUME NEW list \in Seq(NodeIds), NEW on
  PROVE  /\ InIndexedOrder(list, on) \in Seq(NodeIds)
         /\ \E e : Rounds(e, InIndexedOrder(list, on), list, 0, on)
<1> DEFINE w == EnabledOf(list, on)
<1>1. w \in Seq(NodeIds)
  BY EnabledOfPicks
<1>2. PICK e : Picks(e, w, list, Len(list), on)
  BY EnabledOfPicks
<1>3. w = InIndexedOrder(list, on)
  BY DEF InIndexedOrder
<1> HIDE DEF w
<1>4. \A p \in 1 .. Len(list) : Dist(list, 0, p) = p
  BY DEF Dist
<1>5. \A k \in 1 .. Len(w) : e[k] \in 1 .. Len(list)
  BY <1>2 DEF Picks
<1>6. \A k, m \in 1 .. Len(w) :
        k < m => Dist(list, 0, e[k]) < Dist(list, 0, e[m])
  BY <1>2, <1>4, <1>5 DEF Picks
<1>7. Rounds(e, w, list, 0, on)
  BY <1>2, <1>6 DEF Picks, Rounds
<1> QED
  BY <1>1, <1>3, <1>7

\* The two loops of the circular selection walk round the circle once.
LEMMA WalkRounds ==
  ASSUME NEW list \in Seq(NodeIds), NEW on, NEW idx \in 0 .. Len(list)
  PROVE  /\ Walk(list, on, idx) \in Seq(NodeIds)
         /\ \E e : Rounds(e, Walk(list, on, idx), list, idx, on)
<1> DEFINE s1 == SubSeq(list, idx + 1, Len(list))
           s2 == SubSeq(list, 1, idx)
           t1 == EnabledOf(s1, on)
           t2 == EnabledOf(s2, on)
           w  == t1 \o t2
<1>1. /\ s1 \in Seq(NodeIds) /\ Len(s1) = Len(list) - idx
      /\ \A q \in 1 .. (Len(list) - idx) : s1[q] = list[idx + q]
  OBVIOUS
<1>2. /\ s2 \in Seq(NodeIds) /\ Len(s2) = idx
      /\ \A q \in 1 .. idx : s2[q] = list[q]
  OBVIOUS
<1> HIDE DEF s1, s2
<1>3. t1 \in Seq(NodeIds) /\ t2 \in Seq(NodeIds)
  BY <1>1, <1>2, EnabledOfPicks
<1>4. PICK e1 : Picks(e1, t1, s1, Len(list) - idx, on)
  BY <1>1, EnabledOfPicks
<1>5. PICK e2 : Picks(e2, t2, s2, idx, on)
  BY <1>2, EnabledOfPicks
<1>6. w = Walk(list, on, idx)
  BY DEF Walk, s1, s2
<1> HIDE DEF t1, t2
<1>7. /\ w \in Seq(NodeIds) /\ Len(w) = Len(t1) + Len(t2)
      /\ \A k \in 1 .. (Len(t1) + Len(t2)) :
           w[k] = IF k <= Len(t1) THEN t1[k] ELSE t2[k - Len(t1)]
  BY <1>3
<1> HIDE DEF w
<1> DEFINE e == [k \in 1 .. (Len(t1) + Len(t2)) |->
                  IF k <= Len(t1) THEN idx + e1[k] ELSE e2[k - Len(t1)]]
<1>8. Len(t1) \in Nat /\ Len(t2) \in Nat /\ Len(list) \in Nat /\ idx \in Nat
  BY <1>3
<1>9. ASSUME NEW k \in 1 .. Len(t1)
      PROVE  /\ e[k] = idx + e1[k] /\ e1[k] \in 1 .. (Len(list) - idx)
             /\ w[k] = t1[k]
  BY <1>4, <1>7, <1>8 DEF Picks
<1>10. ASSUME NEW k \in (Len(t1) + 1) .. (Len(t1) + Len(t2))
       PROVE  /\ k - Len(t1) \in 1 .. Len(t2)
              /\ e[k] = e2[k - Len(t1)] /\ e2[k - Len(t1)] \in 1 .. idx
              /\ w[k] = t2[k - Len(t1)]
  <2>1. k - Len(t1) \in 1 .. Len(t2)
    BY <1>8
  <2>2. k \in 1 .. (Len(t1) + Len(t2)) /\ ~(k <= Len(t1))
    BY <1>8
  <2>3. e[k] = e2[k - Len(t1)] /\ w[k] = t2[k - Len(t1)]
    BY <1>7, <2>2
  <2>4. e2[k - Len(t1)] \in 1 .. idx
    BY <1>5, <2>1 DEF Picks
  <2> QED
    BY <2>1, <2>3, <2>4
<1>11. \A k \in 1 .. (Len(t1) + Len(t2)) : e[k] \in 1 .. Len(list)
  <2> SUFFICES ASSUME NEW k \in 1 .. (Len(t1) + Len(t2))
               PROVE  e[k] \in 1 .. Len(list)
    OBVIOUS
  <2> HIDE DEF e
  <2>1. CASE k <= Len(t1)
    <3>1. k \in 1 .. Len(t1)
      BY <1>8, <2>1
    <3>2. e[k] = idx + e1[k] /\ e1[k] \in 1 .. (Len(list) - idx)
      BY <1>9, <3>1
    <3> QED
      BY <1>8, <3>2
  <2>2. CASE k > Len(t1)
    BY <1>8, <1>10, <2>2
  <2> QED
    BY <1>8, <2>1, <2>2
<1>12. e \in [1 .. Len(w) -> 1 .. Len(list)]
  BY <1>7, <1>11
<1>13. ASSUME NEW k \in 1 .. Len(w)
       PROVE  w[k] = list[e[k]] /\ w[k] \in on
  <2>1. CASE k <= Len(t1)
    <3>1. k \in 1 .. Len(t1)
      BY <1>8, <2>1
    <3>2. t1[k] = s1[e1[k]] /\ t1[k] \in on
      BY <1>4, <3>1 DEF Picks
    <3> HIDE DEF e
    <3> QED
      BY <1>1, <1>9, <3>1, <3>2
  <2>2. CASE k > Len(t1)
    <3>1. k \in (Len(t1) + 1) .. (Len(t1) + Len(t2))
      BY <1>7, <1>8, <2>2
    <3>2. k - Len(t1) \in 1 .. Len(t2)
      BY <1>10, <3>1
    <3>3. t2[k - Len(t1)] = s2[e2[k - Len(t1)]] /\ t2[k - Len(t1)] \in on
      BY <1>5, <3>2 DEF Picks
    <3> HIDE DEF e
    <3> QED
      BY <1>2, <1>10, <3>1, <3>3
  <2> QED
    BY <1>7, <1>8, <2>1, <2>2
<1>14. ASSUME NEW k \in 1 .. Len(w), NEW m \in 1 .. Len(w), k < m
       PROVE  Dist(list, idx, e[k]) < Dist(list, idx, e[m])
  <2> HIDE DEF e
  <2>1. CASE m <= Len(t1)
    <3>1. k \in 1 .. Len(t1) /\ m \in 1 .. Len(t1)
      BY <1>8, <1>14, <2>1
    <3>2. e1[k] < e1[m]
      BY <1>4, <1>14, <3>1 DEF Picks
    <3> QED
      BY <1>8, <1>9, <3>1, <3>2 DEF Dist
  <2>2. CASE k <= Len(t1) /\ m > Len(t1)
    <3>1. k \in 1 .. Len(t1) /\ m \in (Len(t1) + 1) .. (Len(t1) + Len(t2))
      BY <1>7, <1>8, <2>2
    <3>2. e[k] \in (idx + 1) .. Len(list)
      BY <1>8, <1>9, <3>1
    <3>3. e[m] \in 1 .. idx
      BY <1>10, <3>1
    <3> QED
      BY <1>8, <3>2, <3>3 DEF Dist
  <2>3. CASE k > Len(t1)
    <3>1. /\ k \in (Len(t1) + 1) .. (Len(t1) + Len(t2))
          /\ m \in (Len(t1) + 1) .. (Len(t1) + Len(t2))
      BY <1>7, <1>8, <1>14, <2>3
    <3>2. /\ k - Len(t1) \in 1 .. Len(t2) /\ m - Len(t1) \in 1 .. Len(t2)
          /\ k - Len(t1) < m - Len(t1)
      BY <1>8, <1>14, <3>1
    <3>3. e2[k - Len(t1)] < e2[m - Len(t1)]
      BY <1>5, <3>2 DEF Picks
    <3>4. e[k] \in 1 .. idx /\ e[m] \in 1 .. idx /\ e[k] < e[m]
      BY <1>10, <3>1, <3>3
    <3> QED
      BY <1>8, <3>4 DEF Dist
  <2> QED
    BY <1>7, <1>8, <2>1, <2>2, <2>3
<1>15. ASSUME NEW q \in 1 .. Len(list), list[q] \in on
       PROVE  \E k \in 1 .. Len(w) : e[k] = q
  <2>1. CASE q > idx
    <3>1. q - idx \in 1 .. (Len(list) - idx) /\ idx + (q - idx) = q
      BY <1>8, <2>1
    <3>2. s1[q - idx] \in on
      BY <1>1, <1>15, <3>1
    <3>3. PICK k \in 1 .. Len(t1) : e1[k] = q - idx
      BY <1>4, <3>1, <3>2 DEF Picks
    <3>4. k \in 1 .. Len(w)
      BY <1>7, <1>8
    <3> HIDE DEF e
    <3> QED
      BY <1>9, <3>1, <3>3, <3>4
  <2>2. CASE q <= idx
    <3>1. q \in 1 .. idx
      BY <1>8, <2>2
    <3>2. PICK k \in 1 .. Len(t2) : e2[k] = q
      BY <1>2, <1>5, <1>15, <3>1 DEF Picks
    <3>3. /\ k + Len(t1) \in (Len(t1) + 1) .. (Len(t1) + Len(t2))
          /\ (k + Len(t1)) - Len(t1) = k /\ k + Len(t1) \in 1 .. Len(w)
      BY <1>7, <1>8
    <3> HIDE DEF e
    <3> QED
      BY <1>10, <3>2, <3>3
  <2> HIDE DEF e
  <2> QED
    BY <1>8, <1>15, <2>1, <2>2
<1>16. Rounds(e, w, list, idx, on)
  <2> HIDE DEF e
  <2> QED
    BY <1>12, <1>13, <1>14, <1>15 DEF Rounds
<1> QED
  BY <1>6, <1>7, <1>16

\* What is in the order of a circle holds every enabled node once.
LEMMA RoundsOnce ==
  ASSUME NEW list \in Seq(NodeIds), Once(list), NEW on \in SUBSET Members(list),
         NEW idx \in 0 .. Len(list), NEW w \in Seq(NodeIds), NEW e,
         Rounds(e, w, list, idx, on)
  PROVE  Once(w) /\ Members(w) = on
<1>1. \A k \in 1 .. Len(w) : e[k] \in 1 .. Len(list)
  BY DEF Rounds
<1>2. Once(w)
  <2> SUFFICES ASSUME NEW p \in 1 .. Len(w), NEW q \in 1 .. Len(w),
                      w[p] = w[q], p < q
               PROVE  FALSE
    BY DEF Once
  <2>1. e[p] = e[q]
    BY <1>1 DEF Rounds, Once
  <2>2. Dist(list, idx, e[p]) < Dist(list, idx, e[q])
    BY DEF Rounds
  <2>3. Dist(list, idx, e[p]) \in Int
    BY <1>1 DEF Dist
  <2> QED
    BY <2>1, <2>2, <2>3
<1>3. Members(w) \subseteq on
  BY DEF Rounds, Members
<1>4. ASSUME NEW n \in on
      PROVE  n \in Members(w)
  <2>1. PICK q \in 1 .. Len(list) : list[q] = n
    BY DEF Members
  <2>2. PICK k \in 1 .. Len(w) : e[k] = q
    BY <2>1 DEF Rounds
  <2>3. w[k] = n
    BY <2>1, <2>2 DEF Rounds
  <2> QED
    BY <2>3 DEF Members
<1> QED
  BY <1>2, <1>3, <1>4

\* A sequence without repetition is as long as it has members.
LEMMA OnceLength ==
  ASSUME NEW s \in Seq(NodeIds), Once(s), IsFiniteSet(Members(s))
  PROVE  Len(s) = Cardinality(Members(s))
<1> DEFINE f == [p \in 1 .. Len(s) |-> s[p]]
<1>1. IsFiniteSet(1 .. Len(s)) /\ Cardinality(1 .. Len(s)) = Len(s)
  <2>1. Len(s) \in Int /\ 1 \in Int /\ Len(s) >= 1 - 1
    OBVIOUS
  <2> DEFINE m == Len(s)
  <2> HIDE DEF m
  <2>2. m \in Int /\ 1 \in Int /\ m >= 1 - 1
    BY <2>1 DEF m
  <2>3. IsFiniteSet(1 .. m) /\ Cardinality(1 .. m) = m
    <3>1. /\ IsFiniteSet(1 .. m)
          /\ Cardinality(1 .. m) = IF 1 > m THEN 0 ELSE m - 1 + 1
      BY <2>2, FS_Interval
    <3> QED
      BY <2>2, <3>1
  <2> QED
    BY <2>3 DEF m
<1>2. f \in Surjection(1 .. Len(s), Members(s))
  BY DEF Surjection, Members
<1>3. f \in Injection(1 .. Len(s), Members(s))
  <2>1. f \in [1 .. Len(s) -> Members(s)]
    BY DEF Members
  <2>2. \A p, q \in 1 .. Len(s) : f[p] = f[q] => p = q
    BY DEF Once
  <2> QED
    BY <2>1, <2>2 DEF Injection, IsInjective
<1> QED
  BY <1>1, <1>2, <1>3, FS_Surjection

\* What SelectionSound says of a selection before and after the limit.
Whole(s, on) == Once(s) /\ Members(s) \subseteq on /\ Len(s) = Cardinality(on)

Cut(t, on, limit) ==
  /\ Once(t) /\ Members(t) \subseteq on
  /\ Len(t) = IF limit \in 1 .. Cardinality(on) THEN limit ELSE Cardinality(on)

\* The limit keeps it.
LEMMA LimitedCut ==
  ASSUME NEW on, IsFiniteSet(on), NEW s \in Seq(NodeIds), Whole(s, on),
         NEW limit \in Nat
  PROVE  Cut(Limited(s, limit), on, limit)
<1>1. Cardinality(on) \in Nat
  BY FS_CardinalityType
<1>2. CASE limit > 0 /\ limit < Len(s)
  <2> DEFINE t == SubSeq(s, 1, limit)
  <2>1. /\ t \in Seq(NodeIds) /\ Len(t) = limit
        /\ \A p \in 1 .. limit : t[p] = s[p] /\ p \in 1 .. Len(s)
    BY <1>2
  <2>2. Limited(s, limit) = t
    BY <1>2 DEF Limited
  <2> HIDE DEF t
  <2>3. Once(t) /\ Members(t) \subseteq on
    BY <2>1 DEF Whole, Once, Members
  <2> QED
    BY <1>1, <1>2, <2>1, <2>2, <2>3 DEF Cut, Whole
<1>3. CASE ~(limit > 0 /\ limit < Len(s))
  <2>1. Limited(s, limit) = s
    BY <1>3 DEF Limited
  <2> QED
    BY <1>1, <1>3, <2>1 DEF Cut, Whole
<1> QED
  BY <1>2, <1>3

\* A random order is a whole selection too.
LEMMA RandomWhole ==
  ASSUME NEW list \in Seq(NodeIds), NEW on \in SUBSET Members(list),
         on \subseteq NodeIds, IsFiniteSet(on),
         NEW s \in InRandomOrder(list, on)
  PROVE  s \in Seq(NodeIds) /\ Whole(s, on)
<1>1. Cardinality(on) \in Nat
  BY FS_CardinalityType
<1>2. on \cap Members(list) = on
  OBVIOUS
<1>3. /\ s \in [1 .. Cardinality(on) -> on]
      /\ \A p, q \in DOMAIN s : s[p] = s[q] => p = q
  BY <1>2, Zenon DEF InRandomOrder
<1>4. s \in Seq(NodeIds) /\ Len(s) = Cardinality(on)
  BY <1>1, <1>3
<1> QED
  BY <1>3, <1>4 DEF Whole, Once, Members

----------------------------------------------------------------------------
(* Theorems.                                                               *)

\* In a state of the invariant each strategy selects soundly.
LEMMA Selected ==
  ASSUME IInv
  PROVE  SelectionSound
<1> DEFINE i == Rolled(nodes, enabled, rollingIndex)
           w == Walk(nodes, enabled, i)
           Away(n) == IF Position(n) > i THEN Position(n) - i
                      ELSE Position(n) + Len(nodes) - i
<1>1. /\ nodes \in Seq(NodeIds) /\ Once(nodes) /\ enabled \subseteq Members(nodes)
      /\ rollingIndex \in 0 .. Len(nodes) /\ enabled \subseteq NodeIds
  BY DEF IInv, TypeOK, UniqueOK, EnabledOK, IndexInBounds
<1>2. IsFiniteSet(enabled) /\ Limits \subseteq Nat
  BY <1>1, ClusterAssumption, FS_Subset
<1>3. i \in 0 .. Len(nodes)
  BY <1>1, RolledBounds
<1> HIDE DEF i
<1>4. w \in Seq(NodeIds)
  BY <1>1, <1>3, WalkRounds
<1>5. PICK e : Rounds(e, w, nodes, i, enabled)
  BY <1>1, <1>3, WalkRounds
<1> HIDE DEF w
<1>6. ASSUME NEW idx \in 0 .. Len(nodes), NEW s \in Seq(NodeIds), NEW d,
             Rounds(d, s, nodes, idx, enabled)
      PROVE  Whole(s, enabled)
  <2>1. Once(s) /\ Members(s) = enabled
    BY <1>1, <1>6, RoundsOnce
  <2> QED
    BY <1>2, <2>1, OnceLength DEF Whole
<1>7. ASSUME NEW limit \in Limits,
             NEW s \in {w, InIndexedOrder(nodes, enabled)}
                         \cup InRandomOrder(nodes, enabled)
      PROVE  Cut(Limited(s, limit), enabled, limit)
  <2>1. s \in Seq(NodeIds) /\ Whole(s, enabled)
    <3>1. CASE s = w
      BY <1>3, <1>4, <1>5, <1>6, <3>1
    <3>2. CASE s = InIndexedOrder(nodes, enabled)
      <4>1. s \in Seq(NodeIds)
        BY <1>1, <3>2, IndexedRounds
      <4>2. PICK d : Rounds(d, s, nodes, 0, enabled)
        BY <1>1, <3>2, IndexedRounds
      <4>3. 0 \in 0 .. Len(nodes)
        BY <1>1
      <4> QED
        BY <1>6, <4>1, <4>2, <4>3
    <3>3. CASE s \in InRandomOrder(nodes, enabled)
      BY <1>1, <1>2, <3>3, RandomWhole
    <3> QED
      BY <1>7, <3>1, <3>2, <3>3
  <2> QED
    BY <1>2, <2>1, LimitedCut
<1>8. ASSUME NEW k \in 1 .. Len(w)
      PROVE  e[k] \in 1 .. Len(nodes) /\ Position(w[k]) = e[k]
  <2>1. e[k] \in 1 .. Len(nodes) /\ nodes[e[k]] = w[k]
    BY <1>5 DEF Rounds
  <2>2. \A p \in 1 .. Len(nodes) : nodes[p] = w[k] => p = e[k]
    BY <1>1, <2>1 DEF Once
  <2> QED
    BY <2>1, <2>2 DEF Position
<1>9. ASSUME NEW p \in 1 .. (Len(w) - 1)
      PROVE  Away(w[p]) < Away(w[p + 1])
  <2>1. p \in 1 .. Len(w) /\ p + 1 \in 1 .. Len(w) /\ p < p + 1
    BY <1>4
  <2>2. Dist(nodes, i, e[p]) < Dist(nodes, i, e[p + 1])
    BY <1>5, <2>1 DEF Rounds
  <2>3. Position(w[p]) = e[p] /\ Position(w[p + 1]) = e[p + 1]
    BY <1>8, <2>1
  <2> QED
    BY <2>2, <2>3 DEF Dist
<1>10. ASSUME enabled # {}
       PROVE  nodes[i + 1] = w[1]
  <2>1. i + 1 \in 1 .. Len(nodes) /\ nodes[i + 1] \in enabled
    BY <1>1, <1>10, RolledNext DEF i
  <2>2. PICK k \in 1 .. Len(w) : e[k] = i + 1
    BY <1>5, <2>1 DEF Rounds
  <2>3. k = 1
    <3> SUFFICES ASSUME k > 1  PROVE FALSE
      BY <1>4
    <3>1. 1 \in 1 .. Len(w) /\ e[1] \in 1 .. Len(nodes)
      BY <1>4, <1>8
    <3>2. Dist(nodes, i, e[1]) < Dist(nodes, i, i + 1)
      BY <1>5, <2>2, <3>1 DEF Rounds
    <3> QED
      BY <1>3, <2>1, <3>1, <3>2 DEF Dist
  <2> QED
    BY <1>5, <2>2, <2>3 DEF Rounds
<1>11. ASSUME NEW limit \in Limits,
              NEW s \in {w, InIndexedOrder(nodes, enabled)}
                          \cup InRandomOrder(nodes, enabled)
       PROVE  LET t == Limited(s, limit)
              IN  /\ Once(t) /\ Members(t) \subseteq enabled
                  /\ Len(t) = IF limit \in 1 .. Cardinality(enabled)
                              THEN limit ELSE Cardinality(enabled)
  BY <1>7, <1>11 DEF Cut
<1> QED
  BY <1>9, <1>10, <1>11, Zenon DEF SelectionSound, i, w

\* Whatever the list, the enabled nodes, the index and the limit, each strategy
\* gives each enabled node once, up to the limit, and the circular one walks the
\* circle once from the rolled index.
THEOREM SelectionCorrect == Spec => []SelectionSound
<1>1. IInv => SelectionSound
  BY Selected
<1> QED
  BY <1>1, Invariance, PTL

----------------------------------------------------------------------------
(* What RoundRobin means for the nodes.                                    *)

\* The nodes with which the executions p .. p + Cardinality(enabled) - 1 began.
Turns(p) == {firsts[q] : q \in p .. (p + Cardinality(enabled) - 1)}

\* As many executions as there are enabled nodes begin with each of them once,
\* and then the turns repeat.
EveryNodeServed ==
  LET C == Cardinality(enabled)
  IN  \A p \in 1 .. Len(firsts) :
        /\ p + C - 1 <= Len(firsts) => Turns(p) = enabled
        /\ enabled # {} /\ p + C <= Len(firsts) => firsts[p + C] = firsts[p]

\* In a state of the invariant a window of the history is the enabled nodes.
LEMMA Window ==
  ASSUME IInv, NEW p \in 1 .. (Len(firsts) + 1),
         p + Cardinality(enabled) - 1 <= Len(firsts)
  PROVE  Turns(p) = enabled
<1> DEFINE C == Cardinality(enabled)
           s == SubSeq(firsts, p, p + C - 1)
<1>1. firsts \in Seq(NodeIds) /\ enabled \subseteq NodeIds
  BY DEF IInv, TypeOK
<1>2. IsFiniteSet(enabled) /\ C \in Nat
  BY <1>1, ClusterAssumption, FS_Subset, FS_CardinalityType
<1>3. \A q \in 1 .. Len(firsts) : firsts[q] \in enabled
  BY DEF IInv, RoundOK, Round
<1>4. \A q, r \in 1 .. Len(firsts) :
        q < r /\ r - q < C => firsts[q] # firsts[r]
  BY DEF IInv, RoundRobin
<1>5. Turns(p) = {firsts[q] : q \in p .. (p + C - 1)}
  BY DEF Turns
<1>6. p + C - 1 <= Len(firsts)
  OBVIOUS
<1> HIDE DEF C
<1>7. /\ s \in Seq(NodeIds) /\ Len(s) = C
      /\ \A q \in 1 .. C : s[q] = firsts[p + q - 1]
  BY <1>1, <1>2, <1>6
<1> HIDE DEF s
<1>8. Once(s)
  <2> SUFFICES ASSUME NEW q \in 1 .. C, NEW r \in 1 .. C, s[q] = s[r], q < r
               PROVE  FALSE
    BY <1>2, <1>7 DEF Once
  <2>1. /\ p + q - 1 \in 1 .. Len(firsts) /\ p + r - 1 \in 1 .. Len(firsts)
        /\ p + q - 1 < p + r - 1 /\ (p + r - 1) - (p + q - 1) < C
    BY <1>1, <1>2, <1>6
  <2> QED
    BY <1>4, <1>7, <2>1
<1>9. Members(s) = Turns(p)
  <2>1. ASSUME NEW q \in p .. (p + C - 1)
        PROVE  firsts[q] \in Members(s)
    <3>1. q - p + 1 \in 1 .. C /\ p + (q - p + 1) - 1 = q
      BY <1>2
    <3> QED
      BY <1>7, <3>1 DEF Members
  <2>2. ASSUME NEW q \in 1 .. C
        PROVE  s[q] \in Turns(p)
    <3>1. p + q - 1 \in p .. (p + C - 1)
      BY <1>2
    <3> QED
      BY <1>5, <1>7, <3>1
  <2> QED
    BY <1>5, <1>7, <2>1, <2>2 DEF Members
<1>10. Turns(p) \subseteq enabled
  <2>1. p .. (p + C - 1) \subseteq 1 .. Len(firsts)
    BY <1>1, <1>2, <1>6
  <2> QED
    BY <1>3, <1>5, <2>1
<1>11. IsFiniteSet(Members(s)) /\ Cardinality(Members(s)) = C
  <2>1. IsFiniteSet(Members(s))
    BY <1>2, <1>9, <1>10, FS_Subset
  <2> QED
    BY <1>7, <1>8, <2>1, OnceLength
<1> QED
  BY <1>2, <1>9, <1>10, <1>11, FS_Subset DEF C

\* While nobody edits the nodes, each round of executions serves every enabled
\* node exactly once, in the same order as the round before.
THEOREM EveryNodeIsServed == Spec => []EveryNodeServed
<1>1. ASSUME IInv
      PROVE  EveryNodeServed
  <2> DEFINE C == Cardinality(enabled)
  <2>1. firsts \in Seq(NodeIds) /\ IsFiniteSet(enabled) /\ C \in Nat
    BY <1>1, ClusterAssumption, FS_Subset, FS_CardinalityType DEF IInv, TypeOK
  <2>2. \A q, r \in 1 .. Len(firsts) :
          q < r /\ r - q < C => firsts[q] # firsts[r]
    BY <1>1 DEF IInv, RoundRobin
  <2>3. \A q \in 1 .. Len(firsts) : firsts[q] \in enabled
    BY <1>1 DEF IInv, RoundOK, Round
  <2>4. enabled # {} => C > 0
    BY <2>1, FS_EmptySet
  <2>5. ASSUME NEW p \in 1 .. Len(firsts), p + C - 1 <= Len(firsts)
        PROVE  Turns(p) = enabled
    BY <1>1, <2>5, Window
  <2>6. ASSUME NEW p \in 1 .. Len(firsts), enabled # {}, p + C <= Len(firsts)
        PROVE  firsts[p + C] = firsts[p]
    <3> HIDE DEF C
    <3>1. /\ p + C \in 1 .. Len(firsts) /\ p + C - 1 <= Len(firsts)
          /\ p + C > p
      BY <2>1, <2>4, <2>6
    <3>2. Turns(p) = enabled
      BY <2>5, <3>1
    <3>3. PICK q \in p .. (p + C - 1) : firsts[q] = firsts[p + C]
      BY <2>3, <3>1, <3>2 DEF Turns, C
    <3>4. CASE q > p
      <4>1. q \in 1 .. Len(firsts) /\ q < p + C /\ (p + C) - q < C
        BY <2>1, <3>1, <3>4
      <4> QED
        BY <2>2, <3>1, <3>3, <4>1
    <3>5. CASE q = p
      BY <3>3, <3>5
    <3> QED
      BY <2>1, <3>4, <3>5
  <2> QED
    BY <2>5, <2>6 DEF EveryNodeServed
<1> QED
  BY <1>1, Invariance, PTL
=============================================================================
