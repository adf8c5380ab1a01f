-------------------------- MODULE WaitQueueProofs --------------------------
(***************************************************************************)
(* What the waiting list of WaitQueue is good for, for every number of     *)
(* slots: as long as no push finds it full it holds its processes in the   *)
(* slots from queue_start_index on, wrapping at the end of the array, and  *)
(* a push and a drop are Append and Tail of the line that it stands for.   *)
(***************************************************************************)
EXTENDS MutexRecord, SequenceTheorems, FiniteSetTheorems, TLAPS

-----------------------------------------------------------------------------
(* One slot *)

(* queue_start_index and queue_free_index stay inside the array. *)
LEMMA AdvanceType ==
  ASSUME NEW i \in Slots
  PROVE  Advance(i) \in Slots
BY QueueAssumption DEF Slots, Advance

(* What a push changes: the slot at the free index, no other. *)
LEMMA PushSlots ==
  ASSUME NEW q \in Queue, NEW p \in Pid
  PROVE  /\ Push(q, p) \in Queue
         /\ \A i \in Slots :
              Push(q, p).slot[i] = IF i = q.free THEN p ELSE q.slot[i]
<1>1. q.free \in Slots /\ q.start \in Slots /\ q.slot \in [Slots -> PidOrNone]
  BY DEF Queue
<1>2. Advance(q.free) \in Slots
  BY <1>1, AdvanceType
<1>3. p \in PidOrNone
  BY DEF PidOrNone
<1> QED BY <1>1, <1>2, <1>3 DEF Queue, Push

(* What a drop changes: the first slot is freed, no other. *)
LEMMA DropSlots ==
  ASSUME NEW q \in Queue
  PROVE  /\ Drop(q) \in Queue
         /\ \A i \in Slots :
              Drop(q).slot[i] = IF i = q.start THEN NoPid ELSE q.slot[i]
<1>1. q.free \in Slots /\ q.start \in Slots /\ q.slot \in [Slots -> PidOrNone]
  BY DEF Queue
<1>2. Advance(q.start) \in Slots
  BY <1>1, AdvanceType
<1>3. NoPid \in PidOrNone
  BY DEF PidOrNone
<1> QED BY <1>1, <1>2, <1>3 DEF Queue, Drop

-----------------------------------------------------------------------------
(* The hand-off of a mutex *)

(* The fields of a mutex after it was handed on. *)
LEMMA HandOffFields ==
  ASSUME NEW x \in MutexStruct
  PROVE  /\ HandOff(x) \in MutexStruct
         /\ Front(x.queue) \in PidOrNone
         /\ HandOff(x).owner = Front(x.queue)
         /\ HandOff(x).value = IF Front(x.queue) # NoPid THEN x.value ELSE 0
         /\ HandOff(x).queue =
              IF Front(x.queue) # NoPid THEN Drop(x.queue) ELSE x.queue
<1>1. x.queue \in Queue /\ x.owner \in PidOrNone /\ x.value \in {0, 1}
  BY DEF MutexStruct
<1>2. Front(x.queue) \in PidOrNone /\ Drop(x.queue) \in Queue
  BY <1>1, DropSlots DEF Front, Queue
<1>3. x = [value |-> x.value, owner |-> x.owner, queue |-> x.queue]
  BY DEF MutexStruct
<1>4. NoPid \in PidOrNone
  BY DEF PidOrNone
<1>5. CASE Front(x.queue) # NoPid
  <2>1. HandOff(x) = [value |-> x.value, owner |-> Front(x.queue),
                      queue |-> Drop(x.queue)]
    BY <1>3, <1>5 DEF HandOff, HasWaiter, MutexStruct
  <2> QED BY <2>1, <1>1, <1>2, <1>5 DEF MutexStruct
<1>6. CASE Front(x.queue) = NoPid
  <2>1. HandOff(x) = [value |-> 0, owner |-> NoPid, queue |-> x.queue]
    BY <1>3, <1>6 DEF HandOff, HasWaiter, MutexStruct
  <2> QED BY <2>1, <1>1, <1>2, <1>4, <1>6 DEF MutexStruct
<1> QED BY <1>5, <1>6

-----------------------------------------------------------------------------
(* The members *)

\* No process is in two slots.
NoneTwice(q) ==
  \A i, j \in Slots : q.slot[i] = q.slot[j] /\ q.slot[i] # NoPid => i = j

(* A push adds nobody but the process pushed, also when it overwrites the *)
(* entry of another, and none is in two slots if it was in none.          *)
LEMMA PushMembers ==
  ASSUME NEW q \in Queue, NoneTwice(q), NEW p \in Pid, p \notin Members(q)
  PROVE  /\ NoneTwice(Push(q, p))
         /\ Members(Push(q, p)) \subseteq Members(q) \cup {p}
<1> DEFINE r == Push(q, p)
<1>1. \A i \in Slots : r.slot[i] = IF i = q.free THEN p ELSE q.slot[i]
  BY PushSlots
<1>2. \A i \in Slots : q.slot[i] # p
  BY QueueAssumption DEF Members
<1> HIDE DEF r
<1>3. NoneTwice(r)
  BY <1>1, <1>2 DEF NoneTwice
<1>4. Members(r) \subseteq Members(q) \cup {p}
  BY <1>1 DEF Members
<1> QED BY <1>3, <1>4 DEF r

(* A drop takes the first one out, and nobody else. *)
LEMMA DropMembers ==
  ASSUME NEW q \in Queue, NoneTwice(q)
  PROVE  /\ NoneTwice(Drop(q))
         /\ Members(Drop(q)) = Members(q) \ {Front(q)}
         /\ Front(q) \in PidOrNone
         /\ Front(q) # NoPid => Front(q) \in Members(q)
<1> DEFINE r == Drop(q)
<1>1. \A i \in Slots : r.slot[i] = IF i = q.start THEN NoPid ELSE q.slot[i]
  BY DropSlots
<1>2. q.start \in Slots /\ Front(q) = q.slot[q.start]
  BY DEF Queue, Front
<1> HIDE DEF r
<1>3. NoneTwice(r)
  BY <1>1 DEF NoneTwice
<1>4. Members(r) = Members(q) \ {Front(q)}
  BY <1>1, <1>2 DEF Members, NoneTwice
<1>5. Front(q) \in PidOrNone
  BY <1>2 DEF Queue
<1>6. Front(q) # NoPid => Front(q) \in Members(q)
  BY <1>2 DEF Members
<1> QED BY <1>3, <1>4, <1>5, <1>6 DEF r

-----------------------------------------------------------------------------
(* The slots in the order of their use *)

\* The slot k places after the first.
At(q, k) == (q.start + k) % PROCESS_QUEUE_SIZE

\* The list holds n processes, one after the other from the first slot on.
Holds(q, n) ==
  /\ n \in 0 .. PROCESS_QUEUE_SIZE
  /\ q.free = At(q, n)
  /\ \A k \in Slots : q.slot[At(q, k)] # NoPid <=> k < n

(* The remainder of an index that went past the end of the array once. *)
LEMMA Wrap ==
  ASSUME NEW b \in Nat \ {0}, NEW a \in 0 .. 2 * b - 1
  PROVE  a % b = IF a < b THEN a ELSE a - b
<1> DEFINE x == a \div b  y == a % b
<1>1. x \in Int /\ y \in 0 .. b - 1
  OBVIOUS
<1>2. y = a - b * x
  BY Z3
<1> HIDE DEF x, y
<1>3. ASSUME x < 0 PROVE FALSE
  <2>1. b * (x + 1) <= 0
    BY <1>1, <1>3
  <2> QED BY <2>1, <1>1, <1>2
<1>4. ASSUME x > 1 PROVE FALSE
  <2>1. b * (x - 2) >= 0
    BY <1>1, <1>4
  <2> QED BY <2>1, <1>1, <1>2
<1>5. x = 0 \/ x = 1
  BY <1>1, <1>3, <1>4
<1>6. y = IF a < b THEN a ELSE a - b
  BY <1>1, <1>2, <1>5
<1> QED BY <1>6 DEF y

(* Going k places round a ring of b places from place i. *)
LEMMA Ring ==
  ASSUME NEW b \in Nat \ {0}, NEW i \in 0 .. b - 1, NEW k \in 0 .. b
  PROVE  /\ (i + k) % b \in 0 .. b - 1
         /\ (i + k) % b = IF i + k < b THEN i + k ELSE i + k - b
<1> DEFINE a == i + k
<1>1. a \in 0 .. 2 * b - 1
  OBVIOUS
<1> HIDE DEF a
<1>2. a % b = IF a < b THEN a ELSE a - b
  BY <1>1, Wrap
<1>3. a % b \in 0 .. b - 1
  BY <1>1, <1>2
<1> QED BY <1>2, <1>3 DEF a

(* Where the k-th slot is, without the remainder. *)
LEMMA AtIs ==
  ASSUME NEW q \in Queue, NEW k \in 0 .. PROCESS_QUEUE_SIZE
  PROVE  /\ At(q, k) \in Slots
         /\ At(q, k) = IF q.start + k < PROCESS_QUEUE_SIZE THEN q.start + k
                       ELSE q.start + k - PROCESS_QUEUE_SIZE
<1>1. PROCESS_QUEUE_SIZE \in Nat \ {0} /\ q.start \in 0 .. PROCESS_QUEUE_SIZE - 1
  BY QueueAssumption DEF Queue, Slots
<1> QED BY <1>1, Ring DEF At, Slots

(* Every slot has one place in the order. *)
LEMMA Places ==
  ASSUME NEW q \in Queue
  PROVE  /\ \A i \in Slots : \E k \in Slots : At(q, k) = i
         /\ \A k, l \in Slots : At(q, k) = At(q, l) => k = l
         /\ At(q, 0) = q.start
<1> DEFINE N == PROCESS_QUEUE_SIZE
<1>1. N \in Nat \ {0} /\ q.start \in 0 .. N - 1
  BY QueueAssumption DEF Queue, Slots
<1>2. ASSUME NEW i \in Slots PROVE \E k \in Slots : At(q, k) = i
  <2>1. CASE q.start <= i
    <3>1. i - q.start \in Slots /\ i - q.start \in 0 .. N /\ i \in 0 .. N - 1
      BY <1>1, <2>1 DEF Slots
    <3>2. At(q, i - q.start) = i
      BY <3>1, <1>1, AtIs
    <3> QED BY <3>1, <3>2
  <2>2. CASE i < q.start
    <3>1. /\ i - q.start + N \in Slots /\ i - q.start + N \in 0 .. N
          /\ i \in 0 .. N - 1
      BY <1>1, <2>2 DEF Slots
    <3>2. At(q, i - q.start + N) = i
      BY <3>1, <1>1, AtIs
    <3> QED BY <3>1, <3>2
  <2> QED BY <1>1, <2>1, <2>2 DEF Slots
<1>3. ASSUME NEW k \in Slots, NEW l \in Slots, At(q, k) = At(q, l) PROVE k = l
  <2>1. k \in 0 .. N /\ l \in 0 .. N /\ k < N /\ l < N
    BY <1>1 DEF Slots
  <2> QED BY <1>1, <1>3, <2>1, AtIs
<1>4. 0 \in 0 .. N
  BY <1>1
<1>5. At(q, 0) = q.start
  BY <1>1, <1>4, AtIs
<1> QED BY <1>2, <1>3, <1>5

(* mutex_create and sem_create start with an empty list. *)
LEMMA EmptyHolds == EmptyQueue \in Queue /\ Holds(EmptyQueue, 0)
<1>1. EmptyQueue \in Queue
  BY QueueAssumption DEF EmptyQueue, Queue, PidOrNone, Slots
<1>2. 0 \in 0 .. PROCESS_QUEUE_SIZE
  BY QueueAssumption
<1>3. At(EmptyQueue, 0) = 0
  BY <1>1, Places DEF EmptyQueue
<1>4. \A k \in Slots : At(EmptyQueue, k) \in Slots /\ k \in 0 .. PROCESS_QUEUE_SIZE
  BY <1>1, AtIs, QueueAssumption DEF Slots
<1>5. \A k \in Slots : ~ (k < 0)
  BY DEF Slots
<1>6. \A k \in Slots : EmptyQueue.slot[At(EmptyQueue, k)] = NoPid
  BY <1>4 DEF EmptyQueue
<1>7. EmptyQueue.free = 0
  BY DEF EmptyQueue
<1> QED BY <1>1, <1>2, <1>3, <1>5, <1>6, <1>7 DEF Holds

(* There is a first waiter exactly when the list holds somebody. *)
LEMMA FrontHolds ==
  ASSUME NEW q \in Queue, NEW n, Holds(q, n)
  PROVE  HasWaiter(q) <=> n > 0
<1>1. 0 \in Slots
  BY QueueAssumption DEF Slots
<1>2. At(q, 0) = q.start
  BY Places
<1> QED BY <1>1, <1>2 DEF Holds, HasWaiter, Front

(* A push into a list that is not full appends. *)
LEMMA PushHolds ==
  ASSUME NEW q \in Queue, NEW n, Holds(q, n), n < PROCESS_QUEUE_SIZE,
         NEW p \in Pid
  PROVE  /\ Holds(Push(q, p), n + 1)
         /\ q.slot[q.free] = NoPid
         /\ \A k \in Slots : At(Push(q, p), k) = At(q, k)
         /\ \A k \in Slots : k < n =>
              Push(q, p).slot[At(q, k)] = q.slot[At(q, k)]
         /\ Push(q, p).slot[At(q, n)] = p
<1> DEFINE N == PROCESS_QUEUE_SIZE
<1> DEFINE r == Push(q, p)
<1>1. /\ N \in Nat \ {0} /\ q.start \in 0 .. N - 1 /\ q.free \in Slots
      /\ n \in 0 .. N - 1 /\ n \in Slots /\ n \in 0 .. N /\ n + 1 \in 0 .. N
      /\ q.free \in 0 .. N - 1
  BY QueueAssumption DEF Queue, Slots, Holds
<1>2. r.start = q.start /\ r.free = Advance(q.free) /\ r \in Queue
  BY PushSlots DEF Push
<1>3. \A k : At(r, k) = At(q, k)
  BY <1>2 DEF At
<1>4. q.free = At(q, n) /\ \A k \in Slots : q.slot[At(q, k)] # NoPid <=> k < n
  BY DEF Holds
<1>5. \A i \in Slots : r.slot[i] = IF i = q.free THEN p ELSE q.slot[i]
  BY PushSlots
<1> HIDE DEF r
<1>6. q.slot[q.free] = NoPid
  BY <1>1, <1>4
<1>7. \A k \in Slots : At(q, k) \in Slots
  BY AtIs, <1>1 DEF Slots
<1>8. \A k \in Slots : k # n => r.slot[At(q, k)] = q.slot[At(q, k)]
  <2>1. \A k \in Slots : k # n => At(q, k) # q.free
    BY <1>1, <1>4, Places
  <2> QED BY <1>5, <1>7, <2>1
<1>9. r.slot[At(q, n)] = p
  BY <1>1, <1>4, <1>5, <1>7
<1>10. r.free = At(r, n + 1)
  <2>1. /\ At(q, n) = IF q.start + n < N THEN q.start + n ELSE q.start + n - N
        /\ At(q, n + 1) = IF q.start + (n + 1) < N THEN q.start + (n + 1)
                          ELSE q.start + (n + 1) - N
    BY <1>1, AtIs
  <2>2. r.free = IF q.free + 1 = N THEN 0 ELSE q.free + 1
    BY <1>2 DEF Advance
  <2> QED BY <1>1, <1>3, <1>4, <2>1, <2>2
<1>11. \A k \in Slots : r.slot[At(r, k)] # NoPid <=> k < n + 1
  <2> SUFFICES ASSUME NEW k \in Slots
               PROVE  r.slot[At(q, k)] # NoPid <=> k < n + 1
    BY <1>3
  <2>1. CASE k = n
    BY <2>1, <1>1, <1>9, QueueAssumption
  <2>2. CASE k # n
    <3>1. k < n + 1 <=> k < n
      BY <2>2, <1>1 DEF Slots
    <3> QED BY <2>2, <3>1, <1>4, <1>8
  <2> QED BY <2>1, <2>2
<1>12. Holds(r, n + 1)
  BY <1>1, <1>10, <1>11 DEF Holds
<1>13. \A k \in Slots : k < n => r.slot[At(q, k)] = q.slot[At(q, k)]
  BY <1>1, <1>8
<1> QED BY <1>3, <1>6, <1>9, <1>12, <1>13 DEF r

(* Taking the first of the list moves every other one place forward. *)
LEMMA DropHolds ==
  ASSUME NEW q \in Queue, NEW n, Holds(q, n), n > 0
  PROVE  /\ Holds(Drop(q), n - 1)
         /\ \A k \in 0 .. n - 2 :
              Drop(q).slot[At(Drop(q), k)] = q.slot[At(q, k + 1)]
<1> DEFINE N == PROCESS_QUEUE_SIZE
<1> DEFINE r == Drop(q)
<1>1. /\ N \in Nat \ {0} /\ q.start \in 0 .. N - 1 /\ q.start \in Slots
      /\ n \in 0 .. N /\ n - 1 \in 0 .. N
  BY QueueAssumption DEF Queue, Slots, Holds
<1>2. r.start = Advance(q.start) /\ r.free = q.free /\ r \in Queue
  BY DropSlots DEF Drop
<1>3. \A i \in Slots : r.slot[i] = IF i = q.start THEN NoPid ELSE q.slot[i]
  BY DropSlots
<1>4. q.free = At(q, n) /\ \A k \in Slots : q.slot[At(q, k)] # NoPid <=> k < n
  BY DEF Holds
<1> HIDE DEF r
<1>5. r.start = (IF q.start + 1 = N THEN 0 ELSE q.start + 1) /\ r.start \in 0 .. N - 1
  BY <1>1, <1>2 DEF Advance
<1>6. ASSUME NEW k \in 0 .. N - 1 PROVE At(r, k) = At(q, k + 1)
  <2>1. k \in 0 .. N /\ k + 1 \in 0 .. N
    BY <1>1
  <2>2. At(r, k) = IF r.start + k < N THEN r.start + k ELSE r.start + k - N
    BY <1>2, <2>1, AtIs
  <2>3. At(q, k + 1) = IF q.start + (k + 1) < N THEN q.start + (k + 1)
                       ELSE q.start + (k + 1) - N
    BY <2>1, AtIs
  <2>4. CASE q.start + 1 = N
    <3>1. At(r, k) = k
      BY <1>1, <1>5, <2>2, <2>4
    <3>2. At(q, k + 1) = k
      BY <1>1, <2>3, <2>4
    <3> QED BY <3>1, <3>2
  <2>5. CASE q.start + 1 # N
    BY <1>1, <1>5, <2>2, <2>3, <2>5
  <2> QED BY <2>4, <2>5
<1>7. At(q, N) = q.start
  BY <1>1, AtIs
<1>8. \A k \in Slots : At(q, k) \in Slots
  BY AtIs, <1>1 DEF Slots
<1>9. \A k \in Slots : k # 0 => r.slot[At(q, k)] = q.slot[At(q, k)]
  <2>1. 0 \in Slots /\ At(q, 0) = q.start
    BY <1>1, Places DEF Slots
  <2> QED BY <2>1, <1>3, <1>8, Places
<1>10. r.free = At(r, n - 1)
  <2>1. n - 1 \in 0 .. N - 1 /\ n - 1 + 1 = n
    BY <1>1
  <2> QED BY <1>2, <1>4, <1>6, <2>1
<1>11. ASSUME NEW k \in Slots
       PROVE  r.slot[At(r, k)] # NoPid <=> k < n - 1
  <2>1. k \in 0 .. N - 1
    BY DEF Slots
  <2>2. At(r, k) = At(q, k + 1)
    BY <1>6, <2>1
  <2>3. CASE k = N - 1
    <3>1. At(r, k) = q.start
      BY <1>1, <1>7, <2>2, <2>3
    <3>2. r.slot[At(r, k)] = NoPid
      BY <1>1, <1>3, <3>1
    <3> QED BY <3>2, <2>3, <1>1
  <2>4. CASE k # N - 1
    <3>1. k + 1 \in Slots /\ k + 1 # 0 /\ (k + 1 < n <=> k < n - 1)
      BY <1>1, <2>1, <2>4 DEF Slots
    <3> QED BY <1>4, <1>9, <2>2, <3>1
  <2> QED BY <2>3, <2>4
<1>12. Holds(r, n - 1)
  BY <1>1, <1>10, <1>11 DEF Holds
<1>13. ASSUME NEW k \in 0 .. n - 2
       PROVE  r.slot[At(r, k)] = q.slot[At(q, k + 1)]
  <2>1. k \in 0 .. N - 1 /\ k + 1 \in Slots /\ k + 1 # 0
    BY <1>1 DEF Slots
  <2> QED BY <1>6, <1>9, <2>1
<1> QED BY <1>12, <1>13 DEF r

-----------------------------------------------------------------------------
(* The line *)

(* A list that holds n processes, none twice, has n members. *)
LEMMA MembersHolds ==
  ASSUME NEW q \in Queue, NEW n, Holds(q, n), NoneTwice(q)
  PROVE  /\ Members(q) = {q.slot[At(q, k)] : k \in 0 .. n - 1}
         /\ IsFiniteSet(Members(q))
         /\ Cardinality(Members(q)) = n
<1> DEFINE N == PROCESS_QUEUE_SIZE
<1>1. /\ N \in Nat \ {0} /\ n \in 0 .. N /\ 0 .. n - 1 \subseteq Slots
      /\ Slots \subseteq 0 .. N
  BY QueueAssumption DEF Slots, Holds
<1>2. \A k \in Slots : q.slot[At(q, k)] # NoPid <=> k < n
  BY DEF Holds
<1>3. \A k \in Slots : At(q, k) \in Slots
  BY <1>1, AtIs
<1>4. \A k \in Slots : k \in 0 .. n - 1 <=> k < n
  BY <1>1 DEF Slots
<1>5. Members(q) = {q.slot[At(q, k)] : k \in 0 .. n - 1}
  <2>1. ASSUME NEW x \in Members(q)
        PROVE  x \in {q.slot[At(q, k)] : k \in 0 .. n - 1}
    <3>1. PICK i \in Slots : x = q.slot[i] /\ x # NoPid
      BY DEF Members
    <3>2. PICK k \in Slots : At(q, k) = i
      BY Places
    <3> QED BY <3>1, <3>2, <1>2, <1>4
  <2>2. ASSUME NEW k \in 0 .. n - 1 PROVE q.slot[At(q, k)] \in Members(q)
    BY <1>1, <1>2, <1>3, <1>4 DEF Members
  <2> QED BY <2>1, <2>2
<1> DEFINE f == [k \in 0 .. n - 1 |-> q.slot[At(q, k)]]
<1>6. f \in Bijection(0 .. n - 1, Members(q))
  <2>1. f \in [0 .. n - 1 -> Members(q)]
    BY <1>5
  <2>2. ASSUME NEW k \in 0 .. n - 1, NEW l \in 0 .. n - 1, f[k] = f[l] PROVE k = l
    <3>1. k \in Slots /\ l \in Slots /\ At(q, k) \in Slots /\ At(q, l) \in Slots
      BY <1>1, <1>3
    <3>2. At(q, k) = At(q, l)
      BY <2>2, <3>1, <1>2, <1>4 DEF NoneTwice
    <3> QED BY <3>1, <3>2, Places
  <2>3. \A x \in Members(q) : \E k \in 0 .. n - 1 : f[k] = x
    BY <1>5
  <2> HIDE DEF f
  <2> QED BY <2>1, <2>2, <2>3 DEF Bijection, Injection, Surjection, IsInjective
<1>7. IsFiniteSet(0 .. n - 1) /\ Cardinality(0 .. n - 1) = n
  <2>1. 0 \in Int /\ n - 1 \in Int
    BY <1>1
  <2>2. /\ IsFiniteSet(0 .. n - 1)
        /\ Cardinality(0 .. n - 1) = IF 0 > n - 1 THEN 0 ELSE n - 1 - 0 + 1
    BY <2>1, FS_Interval
  <2> QED BY <1>1, <2>2
<1>8. IsFiniteSet(Members(q)) /\ Cardinality(Members(q)) = n
  BY <1>6, <1>7, FS_Bijection DEF ExistsBijection
<1> QED BY <1>5, <1>8

(* The line is as long as the list, and in the order of the slots. *)
LEMMA LineHolds ==
  ASSUME NEW q \in Queue, NEW n, Holds(q, n), NoneTwice(q)
  PROVE  /\ LineOf(q) \in Seq(Pid)
         /\ Len(LineOf(q)) = n
         /\ \A k \in 1 .. n : LineOf(q)[k] = q.slot[At(q, k - 1)]
<1>1. /\ PROCESS_QUEUE_SIZE \in Nat \ {0} /\ n \in 0 .. PROCESS_QUEUE_SIZE
      /\ q.start \in Nat
  BY QueueAssumption DEF Slots, Holds, Queue
<1>2. Cardinality(Members(q)) = n
  BY MembersHolds
<1>3. LineOf(q) = [k \in 1 .. n |-> q.slot[(q.start + k - 1) % PROCESS_QUEUE_SIZE]]
  BY <1>2 DEF LineOf
<1>4. ASSUME NEW k \in 1 .. n PROVE q.start + k - 1 = q.start + (k - 1)
  BY <1>1
<1>5. LineOf(q) = [k \in 1 .. n |-> q.slot[At(q, k - 1)]]
  BY <1>3, <1>4 DEF At
<1>6. ASSUME NEW k \in 1 .. n PROVE q.slot[At(q, k - 1)] \in Pid
  <2>1. k - 1 \in 0 .. PROCESS_QUEUE_SIZE /\ k - 1 \in Slots /\ k - 1 < n
    BY <1>1 DEF Slots
  <2>2. At(q, k - 1) \in Slots
    BY <2>1, AtIs
  <2> QED BY <2>1, <2>2 DEF Holds, Queue, PidOrNone
<1>7. LineOf(q) \in [1 .. n -> Pid] /\ n \in Nat
  BY <1>1, <1>5, <1>6
<1> QED BY <1>5, <1>7

(* mutex_create and sem_create start with an empty line. *)
LEMMA EmptyLine == LineOf(EmptyQueue) = <<>>
<1>1. NoneTwice(EmptyQueue)
  BY DEF NoneTwice, EmptyQueue
<1> QED BY <1>1, EmptyHolds, LineHolds

(* A list without a first waiter stands for an empty line, and the first *)
(* waiter is the head of the line.                                       *)
LEMMA FrontLine ==
  ASSUME NEW q \in Queue, NEW n, Holds(q, n), NoneTwice(q)
  PROVE  /\ Front(q) = NoPid <=> LineOf(q) = <<>>
         /\ Front(q) # NoPid => Front(q) = Head(LineOf(q))
<1>1. n \in Nat
  BY QueueAssumption DEF Holds
<1>2. Front(q) # NoPid <=> n > 0
  BY FrontHolds DEF HasWaiter
<1>3. /\ LineOf(q) \in Seq(Pid) /\ Len(LineOf(q)) = n
      /\ \A k \in 1 .. n : LineOf(q)[k] = q.slot[At(q, k - 1)]
  BY LineHolds
<1>4. LineOf(q) = <<>> <=> n = 0
  BY <1>1, <1>3
<1>5. ASSUME n > 0 PROVE Front(q) = Head(LineOf(q))
  <2>1. LineOf(q)[1] = q.slot[At(q, 0)]
    BY <1>1, <1>3, <1>5
  <2>2. LineOf(q)[1] = Front(q)
    BY <2>1, Places DEF Front
  <2> QED BY <1>1, <1>3, <1>5, <2>2
<1> QED BY <1>1, <1>2, <1>4, <1>5

(* A push of somebody new, while there is room, is Append. *)
LEMMA PushLine ==
  ASSUME NEW q \in Queue, NEW n, Holds(q, n), NoneTwice(q),
         n < PROCESS_QUEUE_SIZE, NEW p \in Pid, p \notin Members(q)
  PROVE  /\ NoneTwice(Push(q, p))
         /\ LineOf(Push(q, p)) = Append(LineOf(q), p)
<1> DEFINE r == Push(q, p)
<1>1. r \in Queue /\ \A i \in Slots : r.slot[i] = IF i = q.free THEN p ELSE q.slot[i]
  BY PushSlots
<1>2. /\ Holds(r, n + 1)
      /\ \A k \in Slots : At(r, k) = At(q, k)
      /\ \A k \in Slots : k < n => r.slot[At(q, k)] = q.slot[At(q, k)]
      /\ r.slot[At(q, n)] = p
  BY PushHolds
<1>3. \A i \in Slots : q.slot[i] # p
  BY QueueAssumption DEF Members
<1> HIDE DEF r
<1>4. NoneTwice(r)
  BY <1>1, <1>3 DEF NoneTwice
<1>5. /\ LineOf(q) \in Seq(Pid) /\ Len(LineOf(q)) = n
      /\ \A k \in 1 .. n : LineOf(q)[k] = q.slot[At(q, k - 1)]
  BY LineHolds
<1>6. /\ LineOf(r) \in Seq(Pid) /\ Len(LineOf(r)) = n + 1
      /\ \A k \in 1 .. n + 1 : LineOf(r)[k] = r.slot[At(r, k - 1)]
  BY <1>1, <1>2, <1>4, LineHolds
<1>7. /\ n \in 0 .. PROCESS_QUEUE_SIZE - 1 /\ n \in Nat /\ n \in Slots
      /\ PROCESS_QUEUE_SIZE \in Nat
  BY QueueAssumption DEF Holds, Slots
<1>8. ASSUME NEW k \in 1 .. n PROVE LineOf(r)[k] = LineOf(q)[k]
  <2>1. k - 1 \in Slots /\ k - 1 < n /\ k \in 1 .. n + 1
    BY <1>7 DEF Slots
  <2> QED BY <2>1, <1>2, <1>5, <1>6
<1>9. LineOf(r)[n + 1] = p
  <2> DEFINE k == n + 1
  <2>1. k \in 1 .. n + 1 /\ k - 1 = n
    BY <1>7
  <2> HIDE DEF k
  <2>2. LineOf(r)[k] = r.slot[At(r, n)]
    BY <2>1, <1>6
  <2>3. LineOf(r)[k] = p
    BY <2>2, <1>2, <1>7
  <2> QED BY <2>3 DEF k
<1> DEFINE s == LineOf(q)  t == LineOf(r)
<1>10. s \in Seq(Pid) /\ t \in Seq(Pid) /\ Len(s) = n /\ Len(t) = n + 1
  BY <1>5, <1>6
<1>11. (\A k \in 1 .. n : t[k] = s[k]) /\ t[n + 1] = p
  BY <1>8, <1>9
<1> HIDE DEF s, t
<1>12. /\ Append(s, p) \in Seq(Pid) /\ Len(Append(s, p)) = n + 1
       /\ \A k \in 1 .. n : Append(s, p)[k] = s[k]
       /\ Append(s, p)[n + 1] = p
  BY <1>10, AppendProperties
<1>13. t = Append(s, p)
  <2>1. \A k \in 1 .. n + 1 : k \in 1 .. n \/ k = n + 1
    BY <1>7
  <2>2. \A k \in 1 .. n + 1 : t[k] = Append(s, p)[k]
    BY <2>1, <1>11, <1>12
  <2> QED BY <2>2, <1>10, <1>12, SeqEqual
<1> QED BY <1>4, <1>13 DEF s, t, r

(* Taking the first of a list that is not empty is Tail. *)
LEMMA DropLine ==
  ASSUME NEW q \in Queue, NEW n, Holds(q, n), NoneTwice(q), n > 0
  PROVE  /\ NoneTwice(Drop(q))
         /\ LineOf(Drop(q)) = Tail(LineOf(q))
<1> DEFINE r == Drop(q)
<1>1. r \in Queue /\ \A i \in Slots : r.slot[i] = IF i = q.start THEN NoPid ELSE q.slot[i]
  BY DropSlots
<1>2. /\ Holds(r, n - 1)
      /\ \A k \in 0 .. n - 2 : r.slot[At(r, k)] = q.slot[At(q, k + 1)]
  BY DropHolds
<1> HIDE DEF r
<1>3. NoneTwice(r)
  BY <1>1 DEF NoneTwice
<1> DEFINE s == LineOf(q)  t == LineOf(r)
<1>4. /\ s \in Seq(Pid) /\ Len(s) = n
      /\ \A k \in 1 .. n : s[k] = q.slot[At(q, k - 1)]
  BY LineHolds
<1>5. /\ t \in Seq(Pid) /\ Len(t) = n - 1
      /\ \A k \in 1 .. n - 1 : t[k] = r.slot[At(r, k - 1)]
  BY <1>1, <1>2, <1>3, LineHolds
<1> HIDE DEF s, t
<1>6. n \in Nat
  BY QueueAssumption DEF Holds
<1>7. ASSUME NEW k \in 1 .. n - 1 PROVE t[k] = s[k + 1]
  <2>1. k - 1 \in 0 .. n - 2 /\ k + 1 \in 1 .. n /\ k - 1 + 1 = k /\ k + 1 - 1 = k
    BY <1>6
  <2>2. r.slot[At(r, k - 1)] = q.slot[At(q, k)]
    BY <2>1, <1>2
  <2>3. s[k + 1] = q.slot[At(q, k)]
    BY <2>1, <1>4
  <2> QED BY <2>2, <2>3, <1>5
<1>8. s # <<>>
  BY <1>4, <1>6
<1>9. /\ Tail(s) \in Seq(Pid) /\ Len(Tail(s)) = n - 1
      /\ \A k \in 1 .. Len(Tail(s)) : Tail(s)[k] = s[k + 1]
  BY <1>4, <1>8, HeadTailProperties
<1>10. t = Tail(s)
  <2>1. \A k \in 1 .. n - 1 : t[k] = Tail(s)[k]
    BY <1>7, <1>9
  <2> QED BY <2>1, <1>5, <1>9, SeqEqual
<1> QED BY <1>3, <1>10 DEF s, t, r

=============================================================================
