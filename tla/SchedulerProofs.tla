-------------------------- MODULE SchedulerProofs --------------------------
(***************************************************************************)
(* The scheduler's ring and the processes in it, for any number of         *)
(* processes and nodes and any priorities, as long as a program does not   *)
(* create twice, nor create and finish, before the ring has moved on.      *)
(***************************************************************************)
EXTENDS Scheduler, FiniteSetTheorems, NaturalsInduction, WellFoundedInduction, TLAPS

-----------------------------------------------------------------------------
(* Natural numbers *)

(* A set of natural numbers has a smallest. *)
LEMMA Smallest ==
  ASSUME NEW S \in SUBSET Nat, S # {}
  PROVE  \E n \in S : \A m \in S : n <= m
<1> DEFINE R == OpToRel(<, Nat)
<1>1. IsWellFoundedOn(R, Nat)
  BY NatLessThanWellFounded
<1>2. \A m, n \in Nat : m < n => <<m, n>> \in R
  BY DEF OpToRel
<1> HIDE DEF R
<1>3. PICK n \in S : \A m \in S : <<m, n>> \notin R
  BY <1>1, WFMin
<1>4. \A m \in S : m \in Nat /\ n \in Nat /\ ~ (m < n)
  BY <1>2, <1>3
<1> QED BY <1>4

(* What holds of 0, and of every number whose predecessor it holds of, is true *)
(* up to n: a set of numbers that has no smallest is empty.                    *)
LEMMA UpTo ==
  ASSUME NEW n \in Nat, NEW S, n \in Nat,
         0 \in S, \A k \in 1 .. n : k - 1 \in S => k \in S
  PROVE  0 .. n \subseteq S
<1> SUFFICES ASSUME ~ (0 .. n \subseteq S) PROVE FALSE
  OBVIOUS
<1> DEFINE T == {k \in 0 .. n : k \notin S}
<1>1. T \in SUBSET Nat /\ T # {}
  OBVIOUS
<1>2. PICK k \in T : \A m \in T : k <= m
  BY <1>1, Smallest
<1>3. k \in 1 .. n /\ k - 1 \in 0 .. n /\ k - 1 \notin T
  BY <1>2
<1> QED BY <1>2, <1>3

-----------------------------------------------------------------------------
(* The ring *)

Used(r) == {n \in Nodes : r.buffer[n].element # NoPid}

\* The used nodes in the order of the ring, from current on: next leads from
\* each to the one after it and from the last one back to current; last is
\* the one before current, or one before that.
Laid(r, f) ==
  /\ f \in [0 .. r.nodes - 1 -> Nodes]
  /\ \A i, j \in 0 .. r.nodes - 1 : f[i] = f[j] => i = j
  /\ Used(r) = {f[i] : i \in 0 .. r.nodes - 1}
  /\ \A i \in 0 .. r.nodes - 2 : r.buffer[f[i]].next = f[i + 1]
  /\ r.nodes = 0 => r.current = NoNode
  /\ r.nodes > 0 =>
       /\ r.current = f[0]
       /\ r.buffer[f[r.nodes - 1]].next = f[0]
       /\ r.last = f[r.nodes - 1] \/ (r.nodes > 1 /\ r.last = f[r.nodes - 2])

\* Nothing was put between last and current since current became current.
Closed(r) == r.current # NoNode => r.buffer[r.last].next = r.current

(* Then last is the last of the order. *)
LEMMA ClosedLast ==
  ASSUME NEW r \in Ring, NEW f, Laid(r, f), r.nodes > 0
  PROVE  /\ r.current # NoNode
         /\ Closed(r) <=> r.last = f[r.nodes - 1]
<1>1. r.nodes \in Nat /\ f[0] \in Nodes /\ r.current = f[0]
  BY DEF Ring, Laid
<1>2. r.current # NoNode
  BY <1>1, RingAssumption DEF Nodes, NoNode
<1>3. CASE r.last = f[r.nodes - 1]
  BY <1>1, <1>2, <1>3 DEF Laid, Closed
<1>4. CASE r.last # f[r.nodes - 1]
  <2>1. r.nodes > 1 /\ r.last = f[r.nodes - 2]
    BY <1>4 DEF Laid
  <2>2. r.buffer[r.last].next = f[r.nodes - 1]
    BY <1>1, <2>1 DEF Laid
  <2>3. f[r.nodes - 1] # f[0]
    BY <1>1, <2>1 DEF Laid
  <2> QED BY <1>1, <1>2, <1>4, <2>2, <2>3 DEF Closed
<1> QED BY <1>2, <1>3, <1>4

(* The scheduler comes to the nodes of the order and to no other: after i     *)
(* steps to the first i + 1 of them.                                          *)
LEMMA Reaches ==
  ASSUME NEW r \in Ring, NEW f, Laid(r, f), r.nodes <= MAX_NODES
  PROVE  Linked(r) = Used(r)
<1> DEFINE N == MAX_NODES
           First(i) == {f[j] : j \in {l \in 0 .. r.nodes - 1 : l <= i}}
           After(g, i) == IF i = 0 THEN {r.current} \ {NoNode}
                          ELSE g[i - 1] \cup ({r.buffer[n].next : n \in g[i - 1]} \ {NoNode})
<1>1. N \in Nat \ {0} /\ r.nodes \in Nat /\ NoNode \notin Nodes
  BY RingAssumption DEF Ring, Nodes, NoNode
<1>2. \A i \in 0 .. r.nodes - 1 : f[i] \in Nodes
  BY DEF Laid
<1>3. First(0) = {r.current} \ {NoNode}
  <2>1. CASE r.nodes = 0
    BY <1>1, <2>1 DEF Laid
  <2>2. CASE r.nodes > 0
    <3>1. {l \in 0 .. r.nodes - 1 : l <= 0} = {0}
      BY <1>1, <2>2
    <3> QED BY <3>1, <1>1, <1>2, <2>2 DEF Laid
  <2> QED BY <1>1, <2>1, <2>2
<1>4. ASSUME NEW i \in 1 .. N
      PROVE  First(i) = First(i - 1) \cup ({r.buffer[n].next : n \in First(i - 1)} \ {NoNode})
  <2>1. ASSUME NEW j \in 0 .. r.nodes - 1, j <= i
        PROVE  f[j] \in First(i - 1) \cup ({r.buffer[n].next : n \in First(i - 1)} \ {NoNode})
    <3>1. CASE j <= i - 1
      BY <3>1
    <3>2. CASE j > i - 1
      <4>1. j - 1 \in 0 .. r.nodes - 2 /\ j - 1 \in 0 .. r.nodes - 1 /\ j - 1 <= i - 1 /\ j - 1 + 1 = j
        BY <1>1, <2>1, <3>2
      <4>2. r.buffer[f[j - 1]].next = f[j]
        BY <4>1 DEF Laid
      <4>3. f[j - 1] \in First(i - 1)
        BY <4>1
      <4> QED BY <1>1, <1>2, <4>2, <4>3
    <3> QED BY <2>1, <3>1, <3>2, <1>1
  <2>2. ASSUME NEW j \in 0 .. r.nodes - 1, j <= i - 1
        PROVE  f[j] \in First(i) /\ r.buffer[f[j]].next \in First(i)
    <3>1. f[j] \in First(i)
      BY <1>1, <2>2
    <3>2. CASE j = r.nodes - 1
      <4>1. r.buffer[f[j]].next = f[0] /\ 0 \in 0 .. r.nodes - 1
        BY <1>1, <2>2, <3>2 DEF Laid
      <4> QED BY <3>1, <4>1, <1>1
    <3>3. CASE j # r.nodes - 1
      <4>1. j \in 0 .. r.nodes - 2 /\ j + 1 \in 0 .. r.nodes - 1 /\ j + 1 <= i
        BY <1>1, <2>2, <3>3
      <4>2. r.buffer[f[j]].next = f[j + 1]
        BY <4>1 DEF Laid
      <4> QED BY <3>1, <4>1, <4>2
    <3> QED BY <3>2, <3>3
  <2> QED BY <2>1, <2>2
<1>5. \E g : g = [i \in 0 .. N |-> After(g, i)]
  <2> DEFINE g == [i \in 0 .. N |-> First(i)]
  <2>1. ASSUME NEW i \in 0 .. N PROVE First(i) = After(g, i)
    <3>1. CASE i = 0
      BY <1>3, <3>1
    <3>2. CASE i # 0
      <4>1. i \in 1 .. N /\ i - 1 \in 0 .. N
        BY <1>1, <3>2
      <4>2. g[i - 1] = First(i - 1)
        BY <4>1
      <4> HIDE DEF g, First
      <4> QED BY <1>4, <3>2, <4>1, <4>2
    <3> QED BY <3>1, <3>2
  <2>2. g = [i \in 0 .. N |-> After(g, i)]
    BY <2>1
  <2> QED BY <2>2
<1> HIDE DEF After
<1> DEFINE reach == CHOOSE g : g = [i \in 0 .. N |-> After(g, i)]
<1>6. reach = [i \in 0 .. N |-> After(reach, i)]
  BY <1>5
<1>7. Linked(r) = reach[N]
  BY DEF Linked, ReachableIn, After
<1> HIDE DEF reach
<1> DEFINE S == {i \in 0 .. N : reach[i] = First(i)}
<1>8. 0 \in S
  <2>1. 0 \in 0 .. N
    BY <1>1
  <2>2. reach[0] = After(reach, 0)
    BY <1>6, <2>1
  <2> HIDE DEF First
  <2>3. reach[0] = First(0)
    BY <1>3, <2>2 DEF After
  <2> QED BY <2>1, <2>3
<1>9. \A k \in 1 .. N : k - 1 \in S => k \in S
  <2> SUFFICES ASSUME NEW k \in 1 .. N, k - 1 \in S PROVE k \in S
    OBVIOUS
  <2>1. k # 0 /\ k \in 0 .. N /\ reach[k - 1] = First(k - 1)
    BY <1>1
  <2>2. reach[k] = After(reach, k)
    BY <1>6, <2>1
  <2> HIDE DEF First
  <2>3. reach[k] = First(k)
    BY <1>4, <2>1, <2>2 DEF After
  <2> QED BY <2>1, <2>3
<1>10. N \in S
  <2> HIDE DEF S
  <2> QED BY <1>1, <1>8, <1>9, UpTo
<1>11. First(N) = Used(r)
  <2>1. {l \in 0 .. r.nodes - 1 : l <= N} = 0 .. r.nodes - 1
    BY <1>1
  <2> QED BY <2>1 DEF Laid
<1> QED BY <1>7, <1>10, <1>11

(* What Laid says of the count, and what the ring's own definition of a sound *)
(* ring asks for.                                                             *)
LEMMA LaidCount ==
  ASSUME NEW r \in Ring, NEW f, Laid(r, f)
  PROVE  /\ IsFiniteSet(Used(r)) /\ Cardinality(Used(r)) = r.nodes
         /\ r.nodes <= MAX_NODES
         /\ r.nodes < MAX_NODES => Nodes \ Used(r) # {}
         /\ r.nodes = 0 <=> Used(r) = {}
<1> DEFINE I == 0 .. r.nodes - 1
<1>1. r.nodes \in Nat /\ MAX_NODES \in Nat \ {0}
  BY RingAssumption DEF Ring
<1>2. IsFiniteSet(I) /\ Cardinality(I) = r.nodes
  <2>1. 0 \in Int /\ r.nodes - 1 \in Int
    BY <1>1
  <2>2. IsFiniteSet(I) /\ Cardinality(I) = IF 0 > r.nodes - 1 THEN 0 ELSE r.nodes - 1 - 0 + 1
    BY <2>1, FS_Interval
  <2> QED BY <1>1, <2>2
<1>3. IsFiniteSet(Nodes) /\ Cardinality(Nodes) = MAX_NODES
  BY <1>1, FS_Interval DEF Nodes
<1>4. f \in Bijection(I, Used(r))
  <2>1. f \in [I -> Nodes] /\ Used(r) = {f[i] : i \in I} /\ \A i, j \in I : f[i] = f[j] => i = j
    BY DEF Laid
  <2> HIDE DEF I
  <2>2. f \in [I -> Used(r)]
    BY <2>1
  <2> QED BY <2>1, <2>2 DEF Bijection, Injection, Surjection, IsInjective
<1>5. IsFiniteSet(Used(r)) /\ Cardinality(Used(r)) = r.nodes
  <2> HIDE DEF I
  <2>1. ExistsBijection(I, Used(r))
    BY <1>4 DEF ExistsBijection
  <2> QED BY <1>2, <2>1, FS_Bijection
<1>6. Used(r) \subseteq Nodes
  BY DEF Used
<1>7. Cardinality(Used(r)) <= Cardinality(Nodes)
  BY <1>3, <1>6, FS_Subset
<1>8. Used(r) = Nodes => r.nodes = MAX_NODES
  BY <1>3, <1>5
<1>9. r.nodes = 0 <=> Used(r) = {}
  BY <1>5, FS_EmptySet
<1> QED BY <1>1, <1>3, <1>5, <1>6, <1>7, <1>8, <1>9

(* queue_round_robin looks for an unused node and finds one. *)
LEMMA FreeNodeUnused ==
  ASSUME NEW r \in Ring, Nodes \ Used(r) # {}
  PROVE  FreeNode(r) \in Nodes \ Used(r)
<1> DEFINE unused == {n \in Nodes : r.buffer[n].element = NoPid}
           ahead(n) == (n - r.ptr) % MAX_NODES
           D == {ahead(n) : n \in unused}
<1>1. unused = Nodes \ Used(r)
  BY DEF Used
<1>2. \A n \in unused : ahead(n) \in Nat
  <2> SUFFICES ASSUME NEW n \in unused PROVE ahead(n) \in Nat
    OBVIOUS
  <2>1. n - r.ptr \in Int /\ MAX_NODES \in Nat \ {0}
    BY RingAssumption DEF Ring, Nodes, NoNode
  <2> QED BY <2>1
<1>3. D \in SUBSET Nat /\ D # {}
  BY <1>1, <1>2
<1>4. PICK d \in D : \A m \in D : d <= m
  BY <1>3, Smallest
<1>5. PICK n \in unused : d = ahead(n)
  BY <1>4
<1>6. \A k \in unused : ahead(n) <= ahead(k)
  BY <1>4, <1>5
<1> HIDE DEF ahead
<1>7. FreeNode(r) = CHOOSE x \in unused : \A k \in unused : ahead(x) <= ahead(k)
  BY DEF FreeNode, ahead
<1> QED BY <1>1, <1>5, <1>6, <1>7

(* queue_round_robin puts the process into a node of its own, between the     *)
(* last one and current.                                                      *)
LEMMA QueueLaid ==
  ASSUME NEW r \in Ring, NEW f, Laid(r, f), Closed(r), r.nodes < MAX_NODES,
         NEW p \in Pid, NEW n \in Nat
  PROVE  LET s == queue_round_robin(r, p, n) IN
         /\ s \in Ring /\ \E g : Laid(s, g)
         /\ s.nodes = r.nodes + 1
         /\ \E m \in Nodes \ Used(r) :
              s.buffer[m].element = p
              /\ \A l \in Nodes \ {m} : s.buffer[l].element = r.buffer[l].element
         /\ r.nodes = 0 => s.buffer[s.current].element = p /\ Closed(s)
         /\ r.nodes > 0 => /\ s.current = r.current /\ s.current_quantum = r.current_quantum
                           /\ s.buffer[s.current].quantum = r.buffer[s.current].quantum
<1> DEFINE s == queue_round_robin(r, p, n)
           node(x) == [element |-> p, quantum |-> calculate_quantum(n), next |-> x]
<1>1. /\ r.nodes \in Nat /\ MAX_NODES \in Nat \ {0} /\ p # NoPid /\ NoNode \notin Nodes
      /\ r.buffer \in [Nodes -> Node]
  BY RingAssumption DEF Ring, Nodes, NoNode
<1>2. \A x \in Nodes : node(x) \in Node /\ node(x).element = p /\ node(x).next = x
  BY DEF Node, calculate_quantum
<1>3. CASE r.nodes = 0
  <2>1. s = QueueFirst(r, p, n)
    BY <1>1, <1>3 DEF queue_round_robin, Laid
  <2>2. 0 \in Nodes /\ 0 \notin Used(r) /\ Used(r) = {}
    BY <1>1, <1>3, LaidCount DEF Nodes
  <2>3. s = [r EXCEPT !.buffer = [r.buffer EXCEPT ![0] = node(0)], !.ptr = 0, !.current = 0,
                      !.last = 0, !.current_quantum = 0, !.nodes = r.nodes + 1]
    BY <2>1 DEF QueueFirst
  <2>4. /\ s.nodes = 1 /\ s.current = 0 /\ s.last = 0
        /\ s.buffer = [r.buffer EXCEPT ![0] = node(0)]
    BY <1>1, <1>3, <2>3 DEF Ring
  <2>5. s \in Ring
    <3>1. [r.buffer EXCEPT ![0] = node(0)] \in [Nodes -> Node]
      BY <1>1, <1>2, <2>2
    <3> HIDE DEF node
    <3> DEFINE b == [r.buffer EXCEPT ![0] = node(0)]
    <3>2. b \in [Nodes -> Node] /\ 0 \in Nodes /\ 0 \in Int /\ r.nodes + 1 \in Nat
      BY <1>1, <2>2, <3>1
    <3>3. s = [r EXCEPT !.buffer = b, !.ptr = 0, !.current = 0, !.last = 0, !.current_quantum = 0,
                        !.nodes = r.nodes + 1]
      BY <2>3
    <3> HIDE DEF b, s
    <3> QED BY <3>2, <3>3 DEF Ring
  <2>6. s.buffer[0] = node(0) /\ \A l \in Nodes \ {0} : s.buffer[l] = r.buffer[l]
    BY <1>1, <2>2, <2>4
  <2>7. Used(s) = {0}
    BY <1>1, <1>2, <2>2, <2>6 DEF Used
  <2>8. Laid(s, [i \in 0 .. 0 |-> 0])
    BY <1>2, <2>2, <2>4, <2>6, <2>7 DEF Laid
  <2>9. Closed(s) /\ s.buffer[s.current].element = p
    BY <1>2, <2>2, <2>4, <2>6 DEF Closed
  <2> HIDE DEF s, node
  <2>10. s.buffer[0].element = p /\ \A l \in Nodes \ {0} : s.buffer[l].element = r.buffer[l].element
    BY <1>2, <2>2, <2>6
  <2> QED BY <1>3, <2>2, <2>4, <2>5, <2>8, <2>9, <2>10 DEF s
<1>4. CASE r.nodes > 0
  <2> DEFINE k == r.nodes
             m == FreeNode(r)
             g == [i \in 0 .. k |-> IF i = k THEN m ELSE f[i]]
  <2>1. r.current # NoNode /\ r.current = f[0] /\ r.last = f[k - 1]
    BY <1>4, ClosedLast DEF Laid
  <2>2. /\ m \in Nodes /\ m \notin Used(r)
        /\ f \in [0 .. k - 1 -> Nodes] /\ Used(r) = {f[i] : i \in 0 .. k - 1}
        /\ \A i, j \in 0 .. k - 1 : f[i] = f[j] => i = j
        /\ \A i \in 0 .. k - 2 : r.buffer[f[i]].next = f[i + 1]
    BY LaidCount, FreeNodeUnused DEF Laid
  <2>3. s = QueueBetween(r, p, n)
    BY <1>1, <2>1 DEF queue_round_robin
  <2>4. f[0] \in Nodes /\ f[k - 1] \in Nodes /\ f[k - 1] # m /\ f[0] # m
    BY <1>1, <1>4, <2>2
  <2>5. s = [r EXCEPT !.buffer = [[r.buffer EXCEPT ![m] = node(f[0])] EXCEPT ![f[k - 1]].next = m],
                      !.ptr = m, !.nodes = k + 1]
    BY <2>1, <2>3 DEF QueueBetween
  <2> HIDE DEF node, m, s
  <2>6. /\ s.nodes = k + 1 /\ s.current = f[0] /\ s.last = f[k - 1]
        /\ s.current_quantum = r.current_quantum
        /\ s.buffer = [[r.buffer EXCEPT ![m] = node(f[0])] EXCEPT ![f[k - 1]].next = m]
    BY <2>1, <2>5 DEF Ring
  <2>7. /\ s.buffer[m] = node(f[0])
        /\ s.buffer[f[k - 1]] = [r.buffer[f[k - 1]] EXCEPT !.next = m]
        /\ \A l \in Nodes \ {m, f[k - 1]} : s.buffer[l] = r.buffer[l]
    BY <1>1, <2>2, <2>4, <2>6
  <2>8. /\ s.buffer[m].element = p /\ s.buffer[m].next = f[0]
        /\ s.buffer[f[k - 1]].next = m
        /\ \A l \in Nodes \ {m} : /\ s.buffer[l].element = r.buffer[l].element
                                  /\ s.buffer[l].quantum = r.buffer[l].quantum
    BY <1>1, <1>2, <2>2, <2>4, <2>7 DEF Node
  <2>9. s \in Ring
    <3>1. [r.buffer[f[k - 1]] EXCEPT !.next = m] \in Node
      BY <1>1, <2>2, <2>4 DEF Node
    <3>2. s.buffer \in [Nodes -> Node]
      BY <1>1, <1>2, <2>2, <2>4, <2>6, <3>1
    <3>3. s = [r EXCEPT !.buffer = s.buffer, !.ptr = m, !.nodes = k + 1]
      BY <2>5, <2>6
    <3> DEFINE b == s.buffer
    <3>4. b \in [Nodes -> Node] /\ m \in Nodes /\ k + 1 \in Nat
          /\ s = [r EXCEPT !.buffer = b, !.ptr = m, !.nodes = k + 1]
      BY <1>1, <2>2, <3>2, <3>3
    <3> HIDE DEF b, k
    <3> QED BY <3>4 DEF Ring
  <2>10. Used(s) = Used(r) \cup {m}
    BY <1>1, <2>2, <2>8 DEF Used
  <2>11. Laid(s, g)
    <3>1. g \in [0 .. k -> Nodes]
      BY <1>1, <2>2
    <3>2. \A i, j \in 0 .. k : g[i] = g[j] => i = j
      BY <1>1, <2>2
    <3>3. Used(s) = {g[i] : i \in 0 .. k}
      <4>1. \A i \in 0 .. k : g[i] \in Used(s)
        BY <1>1, <2>2, <2>10
      <4>2. \A x \in Used(s) : \E i \in 0 .. k : x = g[i]
        <5>1. ASSUME NEW x \in Used(r) PROVE \E i \in 0 .. k : x = g[i]
          <6>1. PICK i \in 0 .. k - 1 : x = f[i]
            BY <2>2
          <6>2. i \in 0 .. k /\ i # k
            BY <1>1
          <6> QED BY <6>1, <6>2
        <5>2. k \in 0 .. k /\ g[k] = m
          BY <1>1
        <5> QED BY <2>10, <5>1, <5>2
      <4> QED BY <4>1, <4>2
    <3>4. ASSUME NEW i \in 0 .. k - 1 PROVE s.buffer[g[i]].next = g[i + 1]
      <4>1. CASE i = k - 1
        BY <1>1, <1>4, <2>8, <4>1
      <4>2. CASE i # k - 1
        <5>1. i \in 0 .. k - 2 /\ g[i] = f[i] /\ g[i + 1] = f[i + 1] /\ k - 1 \in 0 .. k - 1
          BY <1>1, <4>2
        <5>2. f[i] \in Nodes /\ f[i] # m /\ f[i] # f[k - 1]
          BY <2>2, <4>2, <5>1
        <5>3. s.buffer[f[i]] = r.buffer[f[i]]
          BY <2>7, <5>2
        <5> QED BY <2>2, <5>1, <5>3
      <4> QED BY <4>1, <4>2
    <3>5. g[0] = f[0] /\ g[k] = m /\ g[k - 1] = f[k - 1]
      BY <1>1, <1>4
    <3> HIDE DEF g
    <3>6. s.nodes - 1 = k /\ s.nodes - 2 = k - 1 /\ s.nodes > 1 /\ s.nodes # 0
      BY <1>1, <1>4, <2>6
    <3> QED BY <2>6, <2>8, <3>1, <3>2, <3>3, <3>4, <3>5, <3>6 DEF Laid
  <2> QED BY <1>4, <2>1, <2>2, <2>4, <2>6, <2>8, <2>9, <2>11 DEF s
<1> QED BY <1>1, <1>3, <1>4

(* next_round_robin goes on along the order when the quantum is over, and     *)
(* last comes along.                                                          *)
LEMMA NextLaid ==
  ASSUME NEW r \in Ring, NEW f, Laid(r, f), r.nodes > 0
  PROVE  LET s == next_round_robin(r) IN
         /\ s \in Ring /\ \E g : Laid(s, g)
         /\ s.nodes = r.nodes /\ s.buffer = r.buffer
         /\ IF r.current_quantum + 1 >= r.buffer[r.current].quantum THEN Closed(s)
            ELSE s.current = r.current /\ s.last = r.last
<1> DEFINE s == next_round_robin(r)
           k == r.nodes
           c == r.buffer[r.current].next
<1>1. /\ k \in Nat /\ NoNode \notin Nodes
      /\ r.buffer \in [Nodes -> Node]
  BY DEF Ring, Nodes, NoNode
<1>2. /\ f \in [0 .. k - 1 -> Nodes] /\ Used(r) = {f[i] : i \in 0 .. k - 1}
      /\ \A i, j \in 0 .. k - 1 : f[i] = f[j] => i = j
      /\ \A i \in 0 .. k - 2 : r.buffer[f[i]].next = f[i + 1]
      /\ r.current = f[0] /\ r.current # NoNode
      /\ r.buffer[f[k - 1]].next = f[0]
  BY ClosedLast DEF Laid
<1>3. CASE ~ (r.current_quantum + 1 >= r.buffer[r.current].quantum)
  <2>1. s = [r EXCEPT !.current_quantum = r.current_quantum + 1]
    BY <1>2, <1>3 DEF next_round_robin
  <2>2. r.current_quantum + 1 \in Int
    BY DEF Ring
  <2> HIDE DEF s
  <2>3. /\ s \in Ring /\ s.nodes = k /\ s.buffer = r.buffer
        /\ s.current = r.current /\ s.last = r.last
    BY <2>1, <2>2 DEF Ring
  <2>4. Laid(s, f)
    BY <2>3 DEF Laid, Used
  <2> QED BY <1>3, <2>3, <2>4 DEF s
<1>4. CASE r.current_quantum + 1 >= r.buffer[r.current].quantum
  <2> DEFINE g == [i \in 0 .. k - 1 |-> IF i = k - 1 THEN f[0] ELSE f[i + 1]]
  <2>1. s = [r EXCEPT !.current_quantum = 0, !.last = f[0], !.current = c]
    BY <1>2, <1>4 DEF next_round_robin
  <2>2. 0 \in 0 .. k - 1 /\ k - 1 \in 0 .. k - 1 /\ f[0] \in Nodes
    BY <1>1, <1>2
  <2>3. c = g[0]
    <3>1. CASE k = 1
      BY <1>1, <1>2, <3>1
    <3>2. CASE k # 1
      BY <1>1, <1>2, <2>2, <3>2
    <3> QED BY <3>1, <3>2
  <2>4. /\ g \in [0 .. k - 1 -> Nodes]
        /\ \A i, j \in 0 .. k - 1 : g[i] = g[j] => i = j
    BY <1>1, <1>2
  <2>5. c \in Nodes
    BY <2>2, <2>3, <2>4
  <2> HIDE DEF c, s
  <2>6. /\ s \in Ring /\ s.nodes = k /\ s.buffer = r.buffer
        /\ s.current = c /\ s.last = f[0]
    <3> DEFINE x == f[0]
    <3>1. /\ s = [r EXCEPT !.current_quantum = 0, !.last = x, !.current = c]
          /\ x \in Nodes /\ c \in Nodes /\ 0 \in Int
      BY <2>1, <2>2, <2>5
    <3> HIDE DEF x
    <3>2. s.nodes = k /\ s.buffer = r.buffer /\ s.current = c /\ s.last = x
      BY <3>1 DEF Ring
    <3>3. s \in Ring
      BY <3>1 DEF Ring
    <3> QED BY <3>2, <3>3 DEF x
  <2>7. Used(s) = {g[i] : i \in 0 .. k - 1}
    <3>1. \A i \in 0 .. k - 1 : g[i] \in Used(r)
      BY <1>1, <1>2
    <3>2. ASSUME NEW x \in Used(r) PROVE \E i \in 0 .. k - 1 : x = g[i]
      <4>1. PICK j \in 0 .. k - 1 : x = f[j]
        BY <1>2
      <4>2. CASE j = 0
        BY <1>1, <2>2, <4>1, <4>2
      <4>3. CASE j # 0
        <5>1. j - 1 \in 0 .. k - 1 /\ j - 1 # k - 1 /\ j - 1 + 1 = j
          BY <1>1, <4>3
        <5> QED BY <4>1, <5>1
      <4> QED BY <4>2, <4>3
    <3>3. Used(s) = Used(r)
      BY <2>6 DEF Used
    <3> QED BY <3>1, <3>2, <3>3
  <2>8. ASSUME NEW i \in 0 .. k - 2 PROVE s.buffer[g[i]].next = g[i + 1]
    <3>1. i \in 0 .. k - 1 /\ i + 1 \in 0 .. k - 1 /\ i # k - 1 /\ g[i] = f[i + 1]
      BY <1>1
    <3>2. CASE i + 1 = k - 1
      BY <1>1, <1>2, <2>6, <3>1, <3>2
    <3>3. CASE i + 1 # k - 1
      <4>1. i + 1 \in 0 .. k - 2 /\ g[i + 1] = f[i + 1 + 1]
        BY <1>1, <3>1, <3>3
      <4> QED BY <1>2, <2>6, <3>1, <4>1
    <3> QED BY <3>2, <3>3
  <2>9. g[k - 1] = f[0] /\ s.buffer[g[k - 1]].next = g[0]
    BY <1>1, <1>2, <2>2, <2>3, <2>6 DEF c
  <2> HIDE DEF g
  <2>10. Laid(s, g)
    BY <1>1, <2>3, <2>4, <2>6, <2>7, <2>8, <2>9 DEF Laid
  <2>11. Closed(s)
    BY <2>3, <2>6, <2>9 DEF Closed
  <2> QED BY <1>4, <2>6, <2>10, <2>11 DEF s
<1> QED BY <1>3, <1>4

(* dequeue_round_robin takes the current node out, and the order begins with  *)
(* the next one.                                                              *)
LEMMA DequeueLaid ==
  ASSUME NEW r \in Ring, NEW f, Laid(r, f), r.nodes > 0, Closed(r)
  PROVE  LET s == dequeue_round_robin(r) IN
         /\ s \in Ring /\ \E g : Laid(s, g)
         /\ s.nodes = r.nodes - 1 /\ Closed(s)
         /\ s.buffer[r.current].element = NoPid
         /\ \A l \in Nodes \ {r.current} : s.buffer[l].element = r.buffer[l].element
<1> DEFINE s == dequeue_round_robin(r)
           k == r.nodes
           c == r.current
           z == f[k - 1]
<1>1. /\ k \in Nat /\ k - 1 \in Nat /\ NoNode \notin Nodes /\ NoPid \notin Pid
      /\ r.buffer \in [Nodes -> Node]
  BY RingAssumption DEF Ring, Nodes, NoNode
<1>2. /\ f \in [0 .. k - 1 -> Nodes] /\ Used(r) = {f[i] : i \in 0 .. k - 1}
      /\ \A i, j \in 0 .. k - 1 : f[i] = f[j] => i = j
      /\ \A i \in 0 .. k - 2 : r.buffer[f[i]].next = f[i + 1]
      /\ c = f[0] /\ c # NoNode
      /\ r.last = z /\ r.buffer[z].next = c
      /\ c \in Nodes /\ z \in Nodes
  <2>1. 0 \in 0 .. k - 1 /\ k - 1 \in 0 .. k - 1
    BY <1>1
  <2> QED BY <2>1, ClosedLast DEF Laid
<1>3. CASE k = 1
  <2>1. s = [r EXCEPT !.buffer[c].element = NoPid, !.current = NoNode, !.last = NoNode, !.nodes = k - 1]
    BY <1>2, <1>3 DEF dequeue_round_robin
  <2> HIDE DEF s, c
  <2>2. /\ s.nodes = 0 /\ s.current = NoNode
        /\ s.buffer = [r.buffer EXCEPT ![c].element = NoPid]
    BY <1>3, <2>1 DEF Ring
  <2>3. s.buffer[c].element = NoPid /\ \A l \in Nodes \ {c} : s.buffer[l] = r.buffer[l]
    BY <1>1, <1>2, <2>2 DEF Node
  <2>4. s \in Ring
    <3> DEFINE b == [r.buffer EXCEPT ![c].element = NoPid]
    <3>1. [r.buffer[c] EXCEPT !.element = NoPid] \in Node
      BY <1>1, <1>2 DEF Node
    <3>2. b \in [Nodes -> Node] /\ k - 1 \in Nat
      BY <1>1, <1>2, <3>1
    <3>3. s = [r EXCEPT !.buffer = b, !.current = NoNode, !.last = NoNode, !.nodes = k - 1]
      BY <2>1
    <3> HIDE DEF b, k
    <3> QED BY <3>2, <3>3 DEF Ring
  <2>5. Used(r) = {c}
    BY <1>2, <1>3
  <2>6. Used(s) = {}
    BY <2>3, <2>5 DEF Used
  <2>7. Laid(s, [i \in 0 .. -1 |-> 0])
    BY <2>2, <2>6 DEF Laid
  <2>8. Closed(s)
    BY <2>2 DEF Closed
  <2> QED BY <1>3, <2>2, <2>3, <2>4, <2>7, <2>8 DEF s, c
<1>4. CASE k # 1
  <2> DEFINE d == r.buffer[c].next
             g == [i \in 0 .. k - 2 |-> f[i + 1]]
  <2>1. k > 1 /\ 0 \in 0 .. k - 2 /\ k - 1 \in 0 .. k - 1 /\ 1 \in 0 .. k - 1
    BY <1>1, <1>4
  <2>2. d = f[1] /\ d \in Nodes /\ c # z
    BY <1>2, <2>1
  <2>3. s = [r EXCEPT !.buffer = [[r.buffer EXCEPT ![c].element = NoPid] EXCEPT ![z].next = d],
                      !.current = d, !.nodes = k - 1]
    BY <1>2, <2>2 DEF dequeue_round_robin
  <2> HIDE DEF s, c, d, z
  <2>4. /\ s.nodes = k - 1 /\ s.current = d /\ s.last = z
        /\ s.buffer = [[r.buffer EXCEPT ![c].element = NoPid] EXCEPT ![z].next = d]
    BY <1>2, <2>3 DEF Ring
  <2>5. /\ s.buffer[c] = [r.buffer[c] EXCEPT !.element = NoPid]
        /\ s.buffer[z] = [r.buffer[z] EXCEPT !.next = d]
        /\ \A l \in Nodes \ {c, z} : s.buffer[l] = r.buffer[l]
    BY <1>1, <1>2, <2>2, <2>4
  <2>6. /\ s.buffer[c].element = NoPid /\ s.buffer[z].next = d
        /\ \A l \in Nodes \ {c} : s.buffer[l].element = r.buffer[l].element
    BY <1>1, <1>2, <2>2, <2>5 DEF Node
  <2>7. s \in Ring
    <3> DEFINE b == s.buffer
    <3>1. [r.buffer[c] EXCEPT !.element = NoPid] \in Node /\ [r.buffer[z] EXCEPT !.next = d] \in Node
      BY <1>1, <1>2, <2>2 DEF Node
    <3>2. b \in [Nodes -> Node] /\ k - 1 \in Nat
      BY <1>1, <1>2, <2>2, <2>4, <3>1
    <3>3. s = [r EXCEPT !.buffer = b, !.current = d, !.nodes = k - 1]
      BY <2>3, <2>4
    <3> HIDE DEF b, k
    <3> QED BY <2>2, <3>2, <3>3 DEF Ring
  <2>8. Used(s) = Used(r) \ {c}
    BY <1>1, <1>2, <2>6 DEF Used
  <2>9. Used(s) = {g[i] : i \in 0 .. k - 2}
    <3>1. ASSUME NEW i \in 0 .. k - 2 PROVE g[i] \in Used(s)
      <4>1. i + 1 \in 0 .. k - 1 /\ 0 \in 0 .. k - 1 /\ i + 1 # 0
        BY <1>1
      <4> QED BY <1>2, <2>8, <4>1
    <3>2. ASSUME NEW x \in Used(s) PROVE \E i \in 0 .. k - 2 : x = g[i]
      <4>1. PICK j \in 0 .. k - 1 : x = f[j]
        BY <1>2, <2>8
      <4>2. j - 1 \in 0 .. k - 2 /\ j - 1 + 1 = j
        BY <1>1, <1>2, <2>8, <4>1
      <4> QED BY <4>1, <4>2
    <3> QED BY <3>1, <3>2
  <2>10. /\ g \in [0 .. k - 2 -> Nodes]
         /\ \A i, j \in 0 .. k - 2 : g[i] = g[j] => i = j
    <3>1. \A i \in 0 .. k - 2 : i + 1 \in 0 .. k - 1
      BY <1>1
    <3>2. \A i \in 0 .. k - 2 : f[i + 1] \in Nodes
      BY <1>2, <3>1
    <3>3. ASSUME NEW i \in 0 .. k - 2, NEW j \in 0 .. k - 2, g[i] = g[j] PROVE i = j
      <4>1. i + 1 = j + 1
        BY <1>2, <3>1, <3>3
      <4> QED BY <4>1
    <3> QED BY <3>2, <3>3
  <2>11. ASSUME NEW i \in 0 .. k - 3 PROVE s.buffer[g[i]].next = g[i + 1]
    <3>1. /\ i + 1 \in 0 .. k - 2 /\ i + 1 \in 0 .. k - 1 /\ i \in 0 .. k - 2
          /\ i + 1 # k - 1 /\ i + 1 # 0 /\ 0 \in 0 .. k - 1 /\ k - 1 \in 0 .. k - 1
      BY <1>1
    <3>2. f[i + 1] \in Nodes /\ f[i + 1] # c /\ f[i + 1] # z
      BY <1>2, <3>1 DEF z
    <3>3. s.buffer[f[i + 1]].next = f[i + 1 + 1]
      BY <1>2, <2>5, <3>1, <3>2
    <3> QED BY <3>1, <3>3
  <2>12. g[0] = d /\ g[k - 2] = z
    BY <1>1, <2>1, <2>2 DEF z
  <2> HIDE DEF g
  <2>13. Laid(s, g)
    <3>1. s.nodes - 1 = k - 2 /\ s.nodes - 2 = k - 3 /\ s.nodes > 0 /\ s.nodes # 0
      BY <1>1, <2>1, <2>4
    <3> HIDE DEF k, d, z, s
    <3>2. s.current = g[0] /\ s.last = g[s.nodes - 1] /\ s.buffer[g[s.nodes - 1]].next = g[0]
      BY <2>4, <2>6, <2>12, <3>1
    <3>3. /\ g \in [0 .. s.nodes - 1 -> Nodes]
          /\ \A i, j \in 0 .. s.nodes - 1 : g[i] = g[j] => i = j
          /\ Used(s) = {g[i] : i \in 0 .. s.nodes - 1}
          /\ \A i \in 0 .. s.nodes - 2 : s.buffer[g[i]].next = g[i + 1]
      BY <2>9, <2>10, <2>11, <3>1
    <3> QED BY <3>1, <3>2, <3>3 DEF Laid
  <2>14. Closed(s)
    BY <2>4, <2>6 DEF Closed
  <2> QED BY <2>4, <2>6, <2>7, <2>13, <2>14 DEF s, c
<1> QED BY <1>3, <1>4

-----------------------------------------------------------------------------
(* The processes in the ring *)

\* A ring that is in order and has every process once.
Good(r) ==
  /\ r \in Ring /\ \E f : Laid(r, f)
  /\ \A m, n \in Used(r) : r.buffer[m].element = r.buffer[n].element => m = n

Processes(r) == {r.buffer[n].element : n \in Used(r)}

CurrentOf(r) == r.buffer[r.current].element

\* This tick is the last one of the quantum.
LastOf(r) == r.current_quantum + 1 >= r.buffer[r.current].quantum

(* A ring with nodes has a current process. *)
LEMMA GoodFacts ==
  ASSUME NEW r, Good(r)
  PROVE  /\ r.nodes \in Nat
         /\ Processes(r) \subseteq Pid
         /\ Processes(r) = {r.buffer[n].element : n \in Nodes} \ {NoPid}
         /\ r.nodes = 0 => Processes(r) = {} /\ r.current = NoNode
         /\ r.nodes > 0 => /\ r.current \in Used(r) /\ r.current # NoNode
                           /\ CurrentOf(r) \in Processes(r)
                           /\ peek_round_robin(r) = CurrentOf(r)
<1>1. r \in Ring
  BY DEF Good
<1>2. PICK f : Laid(r, f)
  BY DEF Good
<1>3. r.nodes \in Nat /\ \A n \in Nodes : r.buffer[n].element \in Pid \cup {NoPid}
  BY <1>1 DEF Ring, Node
<1>4. Processes(r) \subseteq Pid
  BY <1>3 DEF Processes, Used
<1>5. Processes(r) = {r.buffer[n].element : n \in Nodes} \ {NoPid}
  BY DEF Processes, Used
<1>6. CASE r.nodes = 0
  <2>1. Used(r) = {} /\ r.current = NoNode
    BY <1>1, <1>2, <1>6, LaidCount DEF Laid
  <2>2. Processes(r) = {}
    BY <2>1 DEF Processes
  <2> QED BY <1>3, <1>4, <1>5, <1>6, <2>1, <2>2
<1>7. CASE r.nodes > 0
  <2>1. 0 \in 0 .. r.nodes - 1 /\ r.current = f[0] /\ r.current # NoNode
    <3>1. r.current # NoNode
      BY <1>1, <1>2, <1>7, ClosedLast
    <3>2. r.current = f[0]
      BY <1>2, <1>7 DEF Laid
    <3> QED BY <1>3, <1>7, <3>1, <3>2
  <2>2. r.current \in Used(r)
    BY <1>2, <2>1 DEF Laid
  <2>3. CurrentOf(r) \in Processes(r)
    BY <2>2 DEF CurrentOf, Processes
  <2>4. peek_round_robin(r) = CurrentOf(r)
    BY <2>1 DEF peek_round_robin, CurrentOf
  <2> QED BY <1>3, <1>4, <1>5, <1>7, <2>1, <2>2, <2>3, <2>4
<1> QED BY <1>3, <1>6, <1>7

(* queue_round_robin adds a process that is not in the ring. *)
LEMMA QueueGood ==
  ASSUME NEW r, Good(r), Closed(r), r.nodes < MAX_NODES,
         NEW p \in Pid, p \notin Processes(r), NEW n \in Nat
  PROVE  LET s == queue_round_robin(r, p, n) IN
         /\ Good(s) /\ Processes(s) = Processes(r) \cup {p} /\ s.nodes = r.nodes + 1
         /\ r.nodes = 0 => CurrentOf(s) = p /\ Closed(s)
         /\ r.nodes > 0 => CurrentOf(s) = CurrentOf(r) /\ (LastOf(s) <=> LastOf(r))
<1> DEFINE s == queue_round_robin(r, p, n)
<1>1. r \in Ring /\ (\E f : Laid(r, f)) /\ p # NoPid
  BY RingAssumption DEF Good
<1>2. /\ s \in Ring /\ \E g : Laid(s, g)
      /\ s.nodes = r.nodes + 1
      /\ \E m \in Nodes \ Used(r) :
           s.buffer[m].element = p
           /\ \A l \in Nodes \ {m} : s.buffer[l].element = r.buffer[l].element
      /\ r.nodes = 0 => s.buffer[s.current].element = p /\ Closed(s)
      /\ r.nodes > 0 => /\ s.current = r.current /\ s.current_quantum = r.current_quantum
                        /\ s.buffer[s.current].quantum = r.buffer[s.current].quantum
  BY <1>1, QueueLaid
<1> HIDE DEF s
<1>3. PICK m \in Nodes \ Used(r) :
        s.buffer[m].element = p /\ \A l \in Nodes \ {m} : s.buffer[l].element = r.buffer[l].element
  BY <1>2
<1>4. Used(s) = Used(r) \cup {m}
  BY <1>1, <1>3 DEF Used
<1>5. \A l \in Used(r) : l \in Nodes \ {m} /\ s.buffer[l].element = r.buffer[l].element
  BY <1>3 DEF Used
<1>6. Processes(s) = Processes(r) \cup {p}
  BY <1>3, <1>4, <1>5 DEF Processes
<1>7. ASSUME NEW k \in Used(s), NEW l \in Used(s), s.buffer[k].element = s.buffer[l].element
      PROVE  k = l
  <2>1. \A x \in Used(r) : s.buffer[x].element # p
    BY <1>5 DEF Processes
  <2>2. CASE k \in Used(r) /\ l \in Used(r)
    BY <1>5, <1>7, <2>2 DEF Good
  <2> QED BY <1>3, <1>4, <1>7, <2>1, <2>2
<1>8. Good(s)
  BY <1>2, <1>7 DEF Good
<1>9. ASSUME r.nodes > 0 PROVE CurrentOf(s) = CurrentOf(r) /\ (LastOf(s) <=> LastOf(r))
  <2>1. r.current \in Used(r) /\ s.current = r.current
    BY <1>2, <1>9, GoodFacts
  <2> QED BY <1>2, <1>5, <1>9, <2>1 DEF CurrentOf, LastOf
<1>10. r.nodes = 0 => CurrentOf(s) = p
  BY <1>2 DEF CurrentOf
<1> QED BY <1>2, <1>6, <1>8, <1>9, <1>10 DEF s

(* next_round_robin keeps the processes. *)
LEMMA NextGood ==
  ASSUME NEW r, Good(r), r.nodes > 0
  PROVE  LET s == next_round_robin(r) IN
         /\ Good(s) /\ Processes(s) = Processes(r) /\ s.nodes = r.nodes
         /\ Closed(s) \/ (~ LastOf(r) /\ CurrentOf(s) = CurrentOf(r))
         /\ Closed(r) => Closed(s)
<1> DEFINE s == next_round_robin(r)
<1>1. r \in Ring /\ \E f : Laid(r, f)
  BY DEF Good
<1>2. /\ s \in Ring /\ (\E g : Laid(s, g))
      /\ s.nodes = r.nodes /\ s.buffer = r.buffer
      /\ IF LastOf(r) THEN Closed(s) ELSE s.current = r.current /\ s.last = r.last
  BY <1>1, NextLaid DEF LastOf
<1> HIDE DEF s
<1>3. Used(s) = Used(r) /\ Processes(s) = Processes(r)
  BY <1>2 DEF Used, Processes
<1>4. Good(s)
  BY <1>2, <1>3 DEF Good
<1> QED BY <1>2, <1>3, <1>4 DEF s, Closed, CurrentOf

(* dequeue_round_robin takes the current process out. *)
LEMMA DequeueGood ==
  ASSUME NEW r, Good(r), Closed(r), r.nodes > 0
  PROVE  LET s == dequeue_round_robin(r) IN
         /\ Good(s) /\ Closed(s) /\ s.nodes = r.nodes - 1
         /\ Processes(s) = Processes(r) \ {CurrentOf(r)}
<1> DEFINE s == dequeue_round_robin(r)
<1>1. r \in Ring /\ \E f : Laid(r, f)
  BY DEF Good
<1>2. /\ s \in Ring /\ (\E g : Laid(s, g))
      /\ s.nodes = r.nodes - 1 /\ Closed(s)
      /\ s.buffer[r.current].element = NoPid
      /\ \A l \in Nodes \ {r.current} : s.buffer[l].element = r.buffer[l].element
  BY <1>1, DequeueLaid
<1> HIDE DEF s
<1>3. r.current \in Used(r)
  BY GoodFacts
<1>4. Used(s) = Used(r) \ {r.current}
  BY <1>2, <1>3 DEF Used
<1>5. \A l \in Used(s) : s.buffer[l].element = r.buffer[l].element
  BY <1>2, <1>4 DEF Used
<1>6. Processes(s) = Processes(r) \ {CurrentOf(r)}
  BY <1>3, <1>4, <1>5 DEF Processes, CurrentOf, Good
<1>7. Good(s)
  BY <1>2, <1>4, <1>5 DEF Good
<1> QED BY <1>2, <1>6, <1>7 DEF s

(* Until the ring has moved on there is at most one process on the stack. *)
LEMMA Enqueued ==
  ASSUME NEW r, NEW pr,
         NEW s \in Seq(Pid)
  PROVE  /\ s = <<>> => true_enqueue_process(r, s, pr) = r
         /\ Len(s) = 1 => true_enqueue_process(r, s, pr) = queue_round_robin(r, s[1], pr[s[1]])
<1> DEFINE D == 0 .. Len(s)
           Put(g, k) == IF k = 0 THEN r
                        ELSE queue_round_robin(g[k - 1], s[Len(s) + 1 - k], pr[s[Len(s) + 1 - k]])
           put == CHOOSE g : g = [k \in D |-> Put(g, k)]
<1>1. true_enqueue_process(r, s, pr) = put[Len(s)]
  BY DEF true_enqueue_process
<1>2. ASSUME Len(s) \in {0, 1} PROVE \E g : g = [k \in D |-> Put(g, k)]
  <2> DEFINE g == [k \in D |-> IF k = 0 THEN r ELSE queue_round_robin(r, s[1], pr[s[1]])]
  <2>1. ASSUME NEW k \in D
        PROVE  Put(g, k) = IF k = 0 THEN r ELSE queue_round_robin(r, s[1], pr[s[1]])
    <3>1. CASE k = 0
      BY <3>1
    <3>2. CASE k # 0
      <4>1. k = 1 /\ k - 1 = 0 /\ Len(s) + 1 - k = 1 /\ 0 \in D
        BY <1>2, <3>2
      <4>2. g[k - 1] = r
        BY <4>1
      <4> HIDE DEF g, D
      <4> QED BY <4>1, <4>2
    <3> QED BY <3>1, <3>2
  <2>2. g = [k \in D |-> Put(g, k)]
    BY <2>1
  <2> QED BY <2>2
<1> HIDE DEF put
<1>3. ASSUME Len(s) \in {0, 1}
      PROVE  /\ 0 \in D => put[0] = r
             /\ 1 \in D => put[1] = queue_round_robin(put[0], s[Len(s)], pr[s[Len(s)]])
  <2>1. put = [k \in D |-> Put(put, k)]
    BY <1>2, <1>3 DEF put
  <2>2. \A k \in D : put[k] = Put(put, k)
    BY <2>1
  <2>3. 1 - 1 = 0 /\ Len(s) + 1 - 1 = Len(s) /\ 1 # 0
    OBVIOUS
  <2> HIDE DEF D
  <2>4. 0 \in D => put[0] = r
    BY <2>2
  <2>5. 1 \in D => put[1] = queue_round_robin(put[0], s[Len(s)], pr[s[Len(s)]])
    <3>1. 1 \in D => put[1] = Put(put, 1)
      BY <2>2
    <3> QED BY <3>1, <2>3
  <2> QED BY <2>4, <2>5
<1>4. s = <<>> => Len(s) = 0
  OBVIOUS
<1>5. Len(s) = 0 => 0 \in D
  OBVIOUS
<1>6. Len(s) = 1 => 0 \in D /\ 1 \in D
  OBVIOUS
<1> HIDE DEF D
<1> QED BY <1>1, <1>3, <1>4, <1>5, <1>6

-----------------------------------------------------------------------------
(* The inductive invariant *)

\* At most one process waits on the stack, and has not been in the ring.
Stacked ==
  /\ Len(to_queue) <= 1
  /\ to_queue # <<>> =>
       /\ Closed(ring) /\ 0 < ring.nodes /\ ring.nodes < MAX_NODES
       /\ phase # "loop"
       /\ to_queue[1] \notin Processes(ring)

\* Nobody is lost.
AllThere ==
  \A p \in Pid : state[p] # "FINISHED" => p \in Processes(ring) \cup ToSet(to_queue)

\* Who runs is READY.
Runner == phase = "run" => ring.nodes > 0 /\ state[CurrentOf(ring)] = "READY"

\* When the scheduler comes to remove the current process nothing stands
\* between last and it: it finished in its last tick, or before.
Removable ==
  ring.nodes > 0 /\ state[CurrentOf(ring)] = "FINISHED" =>
    \/ Closed(ring) /\ to_queue = <<>>
    \/ phase = "irq" /\ LastOf(ring)

SchedInv ==
  TypeOK /\ Good(ring) /\ Stacked /\ AllThere /\ Runner /\ Removable

(* What a step is about, in the words of the ring. *)
LEMMA Readable ==
  ASSUME SchedInv
  PROVE  /\ ring.nodes \in Nat /\ to_queue \in Seq(Pid)
         /\ InRing = Processes(ring) /\ (Settled <=> Closed(ring)) /\ (LastTick <=> LastOf(ring))
         /\ Current # NoPid <=> ring.nodes > 0
         /\ ring.current # NoNode <=> ring.nodes > 0
         /\ ring.nodes > 0 => Current = CurrentOf(ring) /\ CurrentOf(ring) \in Pid
         /\ \A p \in Pid : Running(p) =>
              phase = "run" /\ ring.nodes > 0 /\ CurrentOf(ring) = p /\ state[p] = "READY"
<1>1. Good(ring) /\ TypeOK /\ Runner
  BY DEF SchedInv
<1>2. to_queue \in Seq(Pid)
  BY <1>1 DEF TypeOK, BoundedSeq, SeqOf
<1>3. /\ ring.nodes \in Nat
      /\ InRing = Processes(ring)
      /\ ring.nodes = 0 => ring.current = NoNode
      /\ ring.nodes > 0 => /\ ring.current # NoNode
                           /\ CurrentOf(ring) \in Pid
                           /\ Current = CurrentOf(ring)
  BY <1>1, GoodFacts DEF InRing, Current
<1>4. ring.nodes = 0 => Current = NoPid
  BY <1>3 DEF Current, peek_round_robin
<1>5. (Settled <=> Closed(ring)) /\ (LastTick <=> LastOf(ring))
  BY DEF Settled, Closed, LastTick, LastOf
<1>6. NoPid \notin Pid
  BY RingAssumption
<1>7. \A p \in Pid : Running(p) => phase = "run" /\ Current = p
  BY DEF Running
<1> QED BY <1>1, <1>2, <1>3, <1>4, <1>5, <1>6, <1>7 DEF Runner

(* What programs do, as long as they create one process at a time. *)
LEMMA CreateStep ==
  ASSUME "Hasty" \notin Workload, SchedInv, NEW p \in Pid, NEW q \in Pid, NEW type,
         NEW n \in Priority, Create(p, q, type, n)
  PROVE  SchedInv'
<1>1. /\ phase = "run" /\ ring.nodes > 0 /\ CurrentOf(ring) = p /\ state[p] = "READY"
      /\ ring.nodes \in Nat /\ InRing = Processes(ring) /\ (Settled <=> Closed(ring))
  BY Readable DEF Create
<1>2. /\ to_queue = <<>> /\ Closed(ring)
      /\ state[q] = "FINISHED" /\ q \notin Processes(ring) /\ q # p
      /\ ring' = ring
  BY <1>1 DEF Create, FreeSlot
<1>3. TypeOK /\ Good(ring) /\ AllThere
  BY DEF SchedInv
<1>4. to_queue' = <<q>>
  <2>1. to_queue' = push(<<>>, q)
    BY <1>2 DEF Create, enqueue_process
  <2>2. SIZE \in Nat \ {0}
    BY RingAssumption
  <2> QED BY <2>1, <2>2 DEF push
<1>5. ring.nodes < MAX_NODES
  BY <1>1, <1>2 DEF Create, Scheduled
<1>6. /\ phase' \in {"run", "irq"}
      /\ state' \in {[state EXCEPT ![q] = "READY", ![p] = "BLOCKED"], [state EXCEPT ![q] = "READY"]}
      /\ phase' = "run" => state' = [state EXCEPT ![q] = "READY"]
      /\ priority' = [priority EXCEPT ![q] = n]
  BY <1>1 DEF Create
<1>7. TypeOK'
  <2>1. <<q>> \in BoundedSeq(Pid, SIZE)
    <3>1. <<q>> \in [1 .. 1 -> Pid] /\ 1 \in 0 .. SIZE
      BY RingAssumption
    <3> QED BY <3>1 DEF BoundedSeq, SeqOf
  <2>2. n \in Nat
    BY SchedulerAssumption
  <2>3. state' \in [Pid -> {"READY", "BLOCKED", "FINISHED"}]
    BY <1>3, <1>6 DEF TypeOK
  <2>4. priority' \in [Pid -> Nat]
    BY <1>3, <1>6, <2>2 DEF TypeOK
  <2> QED BY <1>2, <1>3, <1>4, <1>6, <2>1, <2>3, <2>4 DEF TypeOK
<1>8. \A r \in Pid : state'[r] # "FINISHED" => state[r] # "FINISHED" \/ r = q
  <2> TAKE r \in Pid
  <2>1. state \in [Pid -> {"READY", "BLOCKED", "FINISHED"}]
    BY <1>3 DEF TypeOK
  <2>2. CASE state' = [state EXCEPT ![q] = "READY", ![p] = "BLOCKED"]
    <3>1. r # p /\ r # q => state'[r] = state[r]
      BY <2>1, <2>2
    <3> QED BY <1>1, <3>1
  <2>3. CASE state' = [state EXCEPT ![q] = "READY"]
    BY <2>1, <2>3
  <2> QED BY <1>6, <2>2, <2>3
<1>9. state'[p] # "FINISHED" /\ (phase' = "run" => state'[p] = "READY")
  <2>1. state \in [Pid -> {"READY", "BLOCKED", "FINISHED"}]
    BY <1>3 DEF TypeOK
  <2>2. CASE state' = [state EXCEPT ![q] = "READY", ![p] = "BLOCKED"] /\ phase' # "run"
    BY <1>2, <2>1, <2>2
  <2>3. CASE state' = [state EXCEPT ![q] = "READY"]
    <3>1. state'[p] = state[p]
      BY <1>2, <2>1, <2>3
    <3> QED BY <1>1, <3>1
  <2> QED BY <1>6, <2>2, <2>3
<1>10. Good(ring)'
  BY <1>2, <1>3
<1>11. Stacked'
  BY <1>1, <1>2, <1>4, <1>5, <1>6 DEF Stacked
<1>12. AllThere'
  <2>1. ToSet(to_queue') = {q}
    BY <1>4 DEF ToSet
  <2>2. ToSet(to_queue) = {}
    BY <1>2 DEF ToSet
  <2> QED BY <1>2, <1>3, <1>8, <2>1, <2>2 DEF AllThere
<1>13. Runner' /\ Removable'
  BY <1>1, <1>2, <1>9 DEF Runner, Removable
<1> QED BY <1>7, <1>10, <1>11, <1>12, <1>13 DEF SchedInv

(* The ring and the stack stay as they are, and nobody comes back to life. *)
LEMMA CallStep ==
  ASSUME SchedInv, UNCHANGED <<ring, to_queue>>, TypeOK',
         phase = "run", phase' \in {"run", "irq"},
         \A r \in Pid : state'[r] # "FINISHED" => state[r] # "FINISHED",
         phase' = "run" => state'[CurrentOf(ring)] = "READY",
         state'[CurrentOf(ring)] = "FINISHED" =>
           (Closed(ring) /\ to_queue = <<>>) \/ (phase' = "irq" /\ LastOf(ring))
  PROVE  SchedInv'
<1>1. Good(ring)'
  BY DEF SchedInv
<1>2. Stacked'
  BY DEF SchedInv, Stacked
<1>3. AllThere'
  BY DEF SchedInv, AllThere
<1>4. Runner'
  BY DEF SchedInv, Runner
<1>5. Removable'
  BY DEF Removable
<1> QED BY <1>1, <1>2, <1>3, <1>4, <1>5 DEF SchedInv

LEMMA ProgramStep ==
  ASSUME "Hasty" \notin Workload, SchedInv, Program
  PROVE  SchedInv'
<1>1. TypeOK
  BY DEF SchedInv
<1>2. PICK p \in Pid, q \in Pid :
        \/ \E type \in {"FOREGROUND", "BACKGROUND"}, n \in Priority : Create(p, q, type, n)
        \/ Block(p)
        \/ Wake(p, q)
        \/ Finish(p, q)
        \/ \E n \in Priority : Nice(p, q, n)
  BY DEF Program
<1>3. ASSUME Running(p)
      PROVE  /\ phase = "run" /\ CurrentOf(ring) = p /\ state[p] = "READY" /\ ring.nodes > 0
             /\ (Settled <=> Closed(ring)) /\ (LastTick <=> LastOf(ring))
  BY <1>3, Readable
<1>4. CASE \E type \in {"FOREGROUND", "BACKGROUND"}, n \in Priority : Create(p, q, type, n)
  BY <1>4, CreateStep
<1>5. CASE Block(p)
  <2>1. Running(p)
    BY <1>5 DEF Block
  <2>2. TypeOK' /\ state'[p] = "BLOCKED" /\ \A r \in Pid \ {p} : state'[r] = state[r]
    BY <1>1, <1>5 DEF Block, TypeOK
  <2> QED BY <1>3, <1>5, <2>1, <2>2, CallStep DEF Block
<1>6. CASE Wake(p, q)
  <2>1. Running(p) /\ state[q] = "BLOCKED"
    BY <1>6 DEF Wake
  <2>2. TypeOK' /\ state'[q] = "READY" /\ \A r \in Pid \ {q} : state'[r] = state[r]
    BY <1>1, <1>6 DEF Wake, TypeOK
  <2> QED BY <1>3, <1>6, <2>1, <2>2, CallStep DEF Wake
<1>7. CASE Finish(p, q)
  <2>1. Running(p)
    BY <1>7 DEF Finish
  <2>2. /\ ring' = ring /\ to_queue' = to_queue /\ priority' = priority
        /\ state' = [state EXCEPT ![q] = "FINISHED"]
        /\ phase' = IF p = q THEN "irq" ELSE phase
        /\ p = q => LastOf(ring) \/ (to_queue = <<>> /\ Closed(ring))
    BY <1>3, <1>7, <2>1 DEF Finish
  <2>3. TypeOK' /\ state'[q] = "FINISHED" /\ \A r \in Pid \ {q} : state'[r] = state[r]
    BY <1>1, <1>3, <2>1, <2>2 DEF TypeOK
  <2>4. phase' \in {"run", "irq"} /\ (phase' = "run" => p # q)
    BY <1>3, <2>1, <2>2
  <2>5. p = q => phase' = "irq"
    BY <2>2
  <2> QED BY <1>3, <2>1, <2>2, <2>3, <2>4, <2>5, CallStep
<1>8. CASE \E n \in Priority : Nice(p, q, n)
  <2>1. PICK n \in Priority : Nice(p, q, n)
    BY <1>8
  <2>2. Running(p) /\ UNCHANGED <<ring, to_queue, state, phase>>
    BY <2>1 DEF Nice
  <2>3. TypeOK'
    <3>1. n \in Nat
      BY SchedulerAssumption
    <3> QED BY <1>1, <2>1, <3>1 DEF Nice, TypeOK
  <2> QED BY <1>3, <2>2, <2>3, CallStep
<1> QED BY <1>2, <1>4, <1>5, <1>6, <1>7, <1>8

(* The timer: the stack goes into the ring, and the ring moves on by a tick. *)
LEMMA GhostStep ==
  ASSUME SchedInv, ring.nodes = 0, NEW q \in Pid, Ghost(ring, q), to_queue' = <<>>
  PROVE  SchedInv'
<1>1. Good(ring) /\ TypeOK /\ Stacked /\ AllThere
  BY DEF SchedInv
<1>2. Processes(ring) = {} /\ Closed(ring)
  BY <1>1, GoodFacts DEF Closed
<1>3. to_queue = <<>>
  BY DEF SchedInv, Stacked
<1>4. MAX_NODES \in Nat \ {0} /\ 1 \in Nat
  BY RingAssumption
<1>5. /\ ring' = queue_round_robin(ring, q, 1) /\ phase' = "run"
      /\ state' = [state EXCEPT ![q] = "READY"]
      /\ priority' = [priority EXCEPT ![q] = 1]
  BY DEF Ghost
<1>6. /\ Good(ring') /\ Processes(ring') = {q} /\ ring'.nodes = 1
      /\ CurrentOf(ring') = q
  BY <1>1, <1>2, <1>4, <1>5, QueueGood
<1>7. TypeOK'
  <2>1. ring' \in Ring
    BY <1>6 DEF Good
  <2>2. <<>> \in BoundedSeq(Pid, SIZE)
    <3>1. <<>> \in [1 .. 0 -> Pid] /\ 0 \in 0 .. SIZE
      BY RingAssumption
    <3> QED BY <3>1 DEF BoundedSeq, SeqOf
  <2>3. state' \in [Pid -> {"READY", "BLOCKED", "FINISHED"}] /\ priority' \in [Pid -> Nat]
    BY <1>1, <1>5 DEF TypeOK
  <2> QED BY <1>5, <2>1, <2>2, <2>3 DEF TypeOK
<1>8. state'[q] = "READY" /\ \A p \in Pid \ {q} : state'[p] = state[p]
  BY <1>1, <1>5 DEF TypeOK
<1>9. ToSet(<<>>) = {}
  BY DEF ToSet
<1>10. Stacked'
  BY DEF Stacked
<1>11. AllThere'
  BY <1>1, <1>2, <1>3, <1>6, <1>8, <1>9 DEF AllThere
<1>12. Runner' /\ Removable'
  BY <1>6, <1>8 DEF Runner, Removable
<1> QED BY <1>6, <1>7, <1>10, <1>11, <1>12 DEF SchedInv

LEMMA InterruptStep ==
  ASSUME SchedInv, Interrupt
  PROVE  SchedInv'
<1> DEFINE filled == true_enqueue_process(ring, to_queue, priority)
<1>1. Good(ring) /\ TypeOK /\ Stacked /\ AllThere /\ Runner /\ Removable
  BY DEF SchedInv
<1>2. to_queue \in Seq(Pid) /\ ring.nodes \in Nat
  BY Readable
<1>3. to_queue = <<>> \/ Len(to_queue) = 1
  <2>1. Len(to_queue) \in Nat /\ (Len(to_queue) = 0 => to_queue = <<>>)
    BY <1>2
  <2>2. Len(to_queue) <= 1
    BY <1>1 DEF Stacked
  <2> QED BY <2>1, <2>2
<1>4. to_queue = <<>> => filled = ring
  BY <1>2, Enqueued
<1>5. ASSUME to_queue # <<>>
      PROVE  /\ Good(filled) /\ filled.nodes = ring.nodes + 1
             /\ Processes(filled) = Processes(ring) \cup ToSet(to_queue)
             /\ CurrentOf(filled) = CurrentOf(ring) /\ (LastOf(filled) <=> LastOf(ring))
  <2>1. Len(to_queue) = 1 /\ to_queue[1] \in Pid /\ ToSet(to_queue) = {to_queue[1]}
    <3>1. Len(to_queue) = 1
      BY <1>3, <1>5
    <3>2. DOMAIN to_queue = {1} /\ to_queue[1] \in Pid
      BY <1>2, <3>1
    <3> QED BY <3>1, <3>2 DEF ToSet
  <2>2. filled = queue_round_robin(ring, to_queue[1], priority[to_queue[1]])
    BY <1>2, <2>1, Enqueued
  <2>3. priority[to_queue[1]] \in Nat
    BY <1>1, <2>1 DEF TypeOK
  <2>4. /\ Closed(ring) /\ 0 < ring.nodes /\ ring.nodes < MAX_NODES
        /\ to_queue[1] \notin Processes(ring)
    BY <1>1, <1>5 DEF Stacked
  <2> HIDE DEF filled
  <2> QED BY <1>1, <2>1, <2>2, <2>3, <2>4, QueueGood
<1>6. ToSet(<<>>) = {}
  BY DEF ToSet
<1>7. Interrupt =>
        /\ phase \in {"run", "irq"} /\ to_queue' = <<>>
        /\ \/ \E q \in Pid : Ghost(filled, q)
           \/ /\ filled.current # NoNode /\ ring' = next_round_robin(filled)
              /\ phase' = "loop" /\ UNCHANGED <<state, priority>>
  BY DEF Interrupt
<1> HIDE DEF filled
<1>8. Good(filled) /\ Processes(filled) = Processes(ring) \cup ToSet(to_queue)
  BY <1>1, <1>4, <1>5, <1>6
<1>9. filled.nodes \in Nat /\ (filled.current # NoNode <=> filled.nodes > 0)
  BY <1>8, GoodFacts
<1>10. CASE \E q \in Pid : Ghost(filled, q)
  <2>1. PICK q \in Pid : Ghost(filled, q)
    BY <1>10
  <2>2. filled.nodes = 0
    BY <1>9, <2>1 DEF Ghost
  <2>3. to_queue = <<>>
    BY <1>2, <1>5, <2>2
  <2>4. ring.nodes = 0 /\ Ghost(ring, q)
    BY <1>4, <2>1, <2>2, <2>3
  <2> QED BY <1>7, <2>4, GhostStep
<1>11. CASE /\ filled.current # NoNode /\ ring' = next_round_robin(filled)
            /\ phase' = "loop" /\ UNCHANGED <<state, priority>>
  <2>1. filled.nodes > 0
    BY <1>9, <1>11
  <2>2. /\ Good(ring') /\ Processes(ring') = Processes(filled) /\ ring'.nodes = filled.nodes
        /\ Closed(ring') \/ (~ LastOf(filled) /\ CurrentOf(ring') = CurrentOf(filled))
        /\ Closed(filled) => Closed(ring')
    BY <1>8, <1>11, <2>1, NextGood
  <2>3. to_queue' = <<>> /\ phase \in {"run", "irq"}
    BY <1>7
  <2>4. TypeOK'
    <3>1. ring' \in Ring
      BY <2>2 DEF Good
    <3>2. <<>> \in BoundedSeq(Pid, SIZE)
      <4>1. <<>> \in [1 .. 0 -> Pid] /\ 0 \in 0 .. SIZE
        BY RingAssumption
      <4> QED BY <4>1 DEF BoundedSeq, SeqOf
    <3> QED BY <1>1, <1>11, <2>3, <3>1, <3>2 DEF TypeOK
  <2>5. Stacked'
    BY <2>3 DEF Stacked
  <2>6. AllThere'
    BY <1>1, <1>8, <1>11, <2>2 DEF AllThere
  <2>7. Runner'
    BY <1>11 DEF Runner
  <2>8. Removable'
    <3> SUFFICES ASSUME state[CurrentOf(ring')] = "FINISHED", ~ Closed(ring') PROVE FALSE
      BY <1>11, <2>3 DEF Removable
    <3>1. ~ LastOf(filled) /\ CurrentOf(ring') = CurrentOf(filled) /\ ~ Closed(filled)
      BY <2>2
    <3>2. CurrentOf(filled) = CurrentOf(ring) /\ (LastOf(filled) <=> LastOf(ring)) /\ ring.nodes > 0
      BY <1>1, <1>2, <1>4, <1>5, <2>1 DEF Stacked
    <3>3. Closed(ring) /\ to_queue = <<>>
      BY <1>1, <3>1, <3>2 DEF Removable
    <3> QED BY <1>4, <3>1, <3>3
  <2> QED BY <2>2, <2>4, <2>5, <2>6, <2>7, <2>8 DEF SchedInv
<1> QED BY <1>7, <1>10, <1>11

(* The loop of the scheduler, and the new shell when the ring is empty. *)
LEMMA LoopStep ==
  ASSUME SchedInv, Loop
  PROVE  SchedInv'
<1>1. Good(ring) /\ TypeOK /\ Stacked /\ AllThere /\ Removable
  BY DEF SchedInv
<1>2. phase = "loop"
  BY DEF Loop, Skip, Discard, Dispatch, Restart
<1>3. to_queue = <<>> /\ ring.nodes \in Nat
  BY <1>1, <1>2, Readable DEF Stacked
<1>4. Current # NoPid =>
        ring.nodes > 0 /\ Current = CurrentOf(ring) /\ CurrentOf(ring) \in Pid
  BY Readable
<1>5. CASE Skip
  <2>1. /\ ring.nodes > 0 /\ state[CurrentOf(ring)] = "BLOCKED"
        /\ ring' = next_round_robin(ring) /\ UNCHANGED <<to_queue, state, priority, phase>>
    BY <1>4, <1>5 DEF Skip
  <2>2. /\ Good(ring') /\ Processes(ring') = Processes(ring)
        /\ Closed(ring') \/ CurrentOf(ring') = CurrentOf(ring)
    BY <1>1, <2>1, NextGood
  <2>3. TypeOK'
    BY <1>1, <2>1, <2>2 DEF TypeOK, Good
  <2>4. Stacked' /\ Runner'
    BY <1>2, <1>3, <2>1 DEF Stacked, Runner
  <2>5. AllThere'
    BY <1>1, <2>1, <2>2 DEF AllThere
  <2>6. Removable'
    BY <1>3, <2>1, <2>2 DEF Removable
  <2> QED BY <2>2, <2>3, <2>4, <2>5, <2>6 DEF SchedInv
<1>6. CASE Discard
  <2>1. /\ ring.nodes > 0 /\ state[CurrentOf(ring)] = "FINISHED"
        /\ ring' = dequeue_round_robin(ring) /\ UNCHANGED <<to_queue, state, priority, phase>>
    BY <1>4, <1>6 DEF Discard
  <2>2. Closed(ring)
    BY <1>1, <1>2, <2>1 DEF Removable
  <2>3. /\ Good(ring') /\ Closed(ring')
        /\ Processes(ring') = Processes(ring) \ {CurrentOf(ring)}
    BY <1>1, <2>1, <2>2, DequeueGood
  <2>4. TypeOK'
    BY <1>1, <2>1, <2>3 DEF TypeOK, Good
  <2>5. Stacked' /\ Runner'
    BY <1>2, <1>3, <2>1 DEF Stacked, Runner
  <2>6. AllThere'
    BY <1>1, <2>1, <2>3 DEF AllThere
  <2>7. Removable'
    BY <1>3, <2>1, <2>3 DEF Removable
  <2> QED BY <2>3, <2>4, <2>5, <2>6, <2>7 DEF SchedInv
<1>7. CASE Dispatch
  <2>1. /\ ring.nodes > 0 /\ state[CurrentOf(ring)] = "READY"
        /\ phase' = "run" /\ UNCHANGED <<ring, to_queue, state, priority>>
    BY <1>4, <1>7 DEF Dispatch
  <2>2. Good(ring)' /\ TypeOK'
    BY <1>1, <2>1 DEF TypeOK
  <2>3. Stacked' /\ Runner'
    BY <1>3, <2>1 DEF Stacked, Runner
  <2>4. AllThere' /\ Removable'
    BY <1>1, <2>1 DEF AllThere, Removable
  <2> QED BY <2>2, <2>3, <2>4 DEF SchedInv
<1>8. CASE Restart
  <2>1. PICK q \in Pid : Ghost(ring, q)
    BY <1>8 DEF Restart
  <2>2. ring.nodes = 0
    BY <1>3, <2>1, Readable DEF Ghost
  <2> QED BY <1>3, <1>8, <2>1, <2>2, GhostStep DEF Restart
<1> QED BY <1>5, <1>6, <1>7, <1>8 DEF Loop

(* The processes of the kernel before the first tick. *)
LEMMA SchedStart ==
  Init => SchedInv
<1> SUFFICES ASSUME Init PROVE SchedInv
  OBVIOUS
<1>1. MAX_NODES \in Nat \ {0} /\ NoNode \notin Nodes /\ NoNode = -1
  BY RingAssumption DEF Nodes, NoNode
<1>2. /\ ring = EmptyRing /\ to_queue = <<>> /\ phase = "irq"
      /\ state = [p \in Pid |-> "FINISHED"] /\ priority = [p \in Pid |-> 0]
  BY DEF Init
<1>3. EmptyRing \in Ring
  <2> DEFINE b == [n \in Nodes |-> [element |-> NoPid, quantum |-> IF n = 0 THEN 1 ELSE 0,
                                    next |-> NoNode]]
  <2>1. b \in [Nodes -> Node]
    BY DEF Node
  <2> HIDE DEF b
  <2>2. EmptyRing = [buffer |-> b, ptr |-> -1, current |-> NoNode, last |-> NoNode,
                     current_quantum |-> -1, nodes |-> 0]
    BY DEF EmptyRing, b
  <2> QED BY <1>1, <2>1, <2>2 DEF Ring
<1>4. Used(EmptyRing) = {} /\ EmptyRing.nodes = 0 /\ EmptyRing.current = NoNode
  BY DEF EmptyRing, Used
<1>5. Good(ring)
  <2> DEFINE f == [i \in 0 .. -1 |-> 0]
  <2>1. 0 .. -1 = {} /\ 0 - 1 = -1 /\ 0 .. (0 - 2) = {}
    OBVIOUS
  <2>2. f \in [0 .. -1 -> Nodes]
    BY <2>1
  <2> HIDE DEF f
  <2>3. Laid(EmptyRing, f)
    BY <1>4, <2>1, <2>2 DEF Laid
  <2> QED BY <1>2, <1>3, <1>4, <2>3 DEF Good
<1>6. TypeOK
  <2>1. <<>> \in BoundedSeq(Pid, SIZE)
    <3>1. <<>> \in [1 .. 0 -> Pid] /\ 0 \in 0 .. SIZE
      BY RingAssumption
    <3> QED BY <3>1 DEF BoundedSeq, SeqOf
  <2> QED BY <1>2, <1>3, <2>1 DEF TypeOK
<1>7. Stacked /\ Runner
  BY <1>2 DEF Stacked, Runner
<1>8. AllThere
  BY <1>2 DEF AllThere
<1>9. Removable
  BY <1>2, <1>4 DEF Removable
<1> QED BY <1>5, <1>6, <1>7, <1>8, <1>9 DEF SchedInv

LEMMA SchedInductive ==
  ASSUME "Hasty" \notin Workload, SchedInv, [Next]_vars
  PROVE  SchedInv'
<1>1. CASE Next
  BY <1>1, ProgramStep, InterruptStep, LoopStep DEF Next
<1>2. CASE UNCHANGED vars
  <2>1. UNCHANGED <<ring, to_queue, state, priority, phase>>
    BY <1>2 DEF vars
  <2>2. Good(ring)' /\ TypeOK' /\ Stacked' /\ AllThere' /\ Runner' /\ Removable'
    BY <2>1 DEF SchedInv, TypeOK, Stacked, AllThere, Runner, Removable
  <2> QED BY <2>2 DEF SchedInv
<1> QED BY <1>1, <1>2

(* The scheduler comes to every used node of the ring and to no other, there  *)
(* are as many of them as nodes says, and last is where the next process can  *)
(* be linked in or the current one out (priority_round_robin.c).              *)
THEOREM RingSoundHolds ==
  ASSUME "Hasty" \notin Workload
  PROVE  Spec => []RingSound
<1>1. SchedInv => RingSound
  <2> SUFFICES ASSUME SchedInv PROVE RingSound
    OBVIOUS
  <2>1. Good(ring) /\ TypeOK
    BY DEF SchedInv
  <2>2. ring \in Ring /\ ring.nodes \in Nat
    BY <2>1, GoodFacts DEF Good
  <2>3. PICK f : Laid(ring, f)
    BY <2>1 DEF Good
  <2>4. /\ Cardinality(Used(ring)) = ring.nodes /\ ring.nodes <= MAX_NODES
        /\ Linked(ring) = Used(ring)
    BY <2>2, <2>3, LaidCount, Reaches
  <2>5. ASSUME ring.current # NoNode
        PROVE  /\ ring.last \in Used(ring)
               /\ LET n == ring.buffer[ring.last].next
                  IN  n = ring.current \/ ring.buffer[n].next = ring.current
    <3>1. ring.nodes > 0
      BY <2>1, <2>2, <2>5, GoodFacts
    <3>2. /\ ring.current = f[0] /\ ring.buffer[f[ring.nodes - 1]].next = f[0]
          /\ ring.last = f[ring.nodes - 1] \/ (ring.nodes > 1 /\ ring.last = f[ring.nodes - 2])
      BY <2>3, <3>1 DEF Laid
    <3>3. CASE ring.last = f[ring.nodes - 1]
      <4>1. ring.nodes - 1 \in 0 .. ring.nodes - 1
        BY <2>2, <3>1
      <4> QED BY <2>3, <3>2, <3>3, <4>1 DEF Laid
    <3>4. CASE ring.nodes > 1 /\ ring.last = f[ring.nodes - 2]
      <4>1. /\ ring.nodes - 2 \in 0 .. ring.nodes - 1 /\ ring.nodes - 2 \in 0 .. ring.nodes - 2
            /\ ring.nodes - 2 + 1 = ring.nodes - 1
        BY <2>2, <3>4
      <4>2. ring.buffer[f[ring.nodes - 2]].next = f[ring.nodes - 1]
        BY <2>3, <4>1 DEF Laid
      <4>3. ring.last \in Used(ring)
        BY <2>3, <3>4, <4>1 DEF Laid
      <4> QED BY <3>2, <3>4, <4>2, <4>3
    <3> QED BY <3>2, <3>3, <3>4
  <2> QED BY <2>1, <2>4, <2>5 DEF RingSound, Used
<1> QED BY <1>1, SchedStart, SchedInductive, PTL DEF Spec

(* A process that has not finished waits on the stack or has exactly one node *)
(* that the scheduler comes to: none is lost, and none gets two turns a round *)
(* (scheduler.c, true_enqueue_process and short_term_scheduling).             *)
THEOREM NoProcessLostHolds ==
  ASSUME "Hasty" \notin Workload
  PROVE  Spec => []NoProcessLost
<1>1. SchedInv => NoProcessLost
  <2> SUFFICES ASSUME SchedInv, NEW p \in Pid, state[p] # "FINISHED", p \notin ToSet(to_queue)
               PROVE  Cardinality({n \in Linked(ring) : ring.buffer[n].element = p}) = 1
    BY DEF NoProcessLost
  <2>1. Good(ring) /\ AllThere
    BY DEF SchedInv
  <2>2. PICK f : Laid(ring, f)
    BY <2>1 DEF Good
  <2>3. Linked(ring) = Used(ring)
    BY <2>1, <2>2, LaidCount, Reaches DEF Good
  <2>4. p \in Processes(ring)
    BY <2>1 DEF AllThere
  <2>5. PICK m \in Used(ring) : ring.buffer[m].element = p
    BY <2>4 DEF Processes
  <2>6. {n \in Linked(ring) : ring.buffer[n].element = p} = {m}
    BY <2>1, <2>3, <2>5 DEF Good
  <2> QED BY <2>6, FS_Singleton
<1> QED BY <1>1, SchedStart, SchedInductive, PTL DEF Spec

=============================================================================
