---------------------------- MODULE MutexProofs ----------------------------
(***************************************************************************)
(* Mutual exclusion, and no mutex left to nobody, for any number of        *)
(* processes and mutexes and any size of the queues, when no child returns *)
(* and nobody is killed while the process concerned waits in mutex_lock.   *)
(* While no waiting list overflows, besides, nobody waits outside a list,  *)
(* and the mutexes serve in the order of arrival: every step of Mutex is   *)
(* one of FifoLock, or none.                                               *)
(***************************************************************************)
EXTENDS MutexFifo, WaitQueueProofs, TLAPS

\* The workload the theorems are about.
Disciplined == Workload = {}

-----------------------------------------------------------------------------
(* Types *)

(* The states after a wake-up. *)
LEMMA ResumeStates ==
  ASSUME NEW st \in [Pid -> {"READY", "BLOCKED", "FINISHED"}], NEW S
  PROVE  /\ Resume(st, S) \in [Pid -> {"READY", "BLOCKED", "FINISHED"}]
         /\ \A p \in Pid : Resume(st, S)[p] =
              IF p \in S /\ st[p] # "FINISHED" THEN "READY" ELSE st[p]
BY DEF Resume

(* After rescheduling, a process that runs is READY. *)
LEMMA RescheduleType ==
  ASSUME NEW st, Reschedule(st)
  PROVE  /\ current' \in PidOrNone
         /\ current' \in Pid => st[current'] = "READY"
BY QueueAssumption DEF Reschedule, PidOrNone

(* release_mutex_by_owner keeps the directory well formed. *)
LEMMA ReleaseType ==
  ASSUME TypeOK, NEW q \in Pid
  PROVE  ReleaseByOwner(q) \in [Mutex -> MutexStruct]
BY HandOffFields DEF TypeOK, ReleaseByOwner

(* No step leaves the types. *)
LEMMA TypeStep == TypeOK /\ [Next]_vars => TypeOK'
<1> SUFFICES ASSUME TypeOK, [Next]_vars PROVE TypeOK'
  OBVIOUS
<1>1. ASSUME UNCHANGED vars PROVE TypeOK'
  BY <1>1 DEF vars, TypeOK
<1>2. ASSUME NEW p \in Pid, GhostShell(p) PROVE TypeOK'
  BY <1>2 DEF GhostShell, TypeOK, PidOrNone
<1>3. ASSUME NEW p \in Pid, Tick(p) PROVE TypeOK'
  BY <1>3 DEF Tick, TypeOK, PidOrNone
<1>4. ASSUME NEW p \in Pid, LockReturn(p) PROVE TypeOK'
  BY <1>4 DEF LockReturn, LockReturns, TypeOK, Running
<1>5. ASSUME NEW p \in Pid, ResumeParent(p) PROVE TypeOK'
  BY <1>5, ResumeStates DEF ResumeParent, Running, TypeOK
<1>6. ASSUME NEW q \in Pid, Finish(q) PROVE TypeOK'
  BY <1>6, ResumeStates, ReleaseType, RescheduleType DEF Finish, TypeOK
<1>7. ASSUME NEW p \in Pid, NEW m \in Mutex, Lock(p, m) PROVE TypeOK'
  <2>1. CASE LockAtOnce(p, m)
    BY <1>7, <2>1
    DEF Lock, LockAtOnce, LockReturns, TypeOK, MutexStruct, PidOrNone
  <2>2. CASE LockWaits(p, m)
    <3>1. Push(mutex[m].queue, p) \in Queue
      BY PushSlots DEF TypeOK, MutexStruct
    <3>2. mutex' \in [Mutex -> MutexStruct]
      BY <3>1, <2>2 DEF LockWaits, TypeOK, MutexStruct
    <3> QED BY <3>2, <1>7, <2>2, RescheduleType, MutexAssumption
      DEF Lock, LockWaits, TypeOK
  <2> QED BY <1>7, <2>1, <2>2 DEF Lock
<1>8. ASSUME NEW p \in Pid, NEW m \in Mutex, Unlock(p, m) PROVE TypeOK'
  BY <1>8, HandOffFields, ResumeStates DEF Unlock, TypeOK
<1>9. ASSUME NEW p \in Pid, NEW q \in Pid, Spawn(p, q) PROVE TypeOK'
  BY <1>9 DEF Spawn, TypeOK, PidOrNone
<1> QED BY <1>1, <1>2, <1>3, <1>4, <1>5, <1>6, <1>7, <1>8, <1>9
  DEF Next, Exit, Kill

(* Type correctness: every field keeps its range, and the indices of every *)
(* queue stay inside its array of PROCESS_QUEUE_SIZE slots.                *)
THEOREM TypeCorrect == Spec => []TypeOK
<1>1. Init => TypeOK
  BY QueueAssumption
  DEF Init, TypeOK, MutexStruct, FreeMutex, EmptyQueue, Queue, PidOrNone, Slots
<1>2. TypeOK /\ [Next]_vars => TypeOK'
  BY TypeStep
<1> QED BY <1>1, <1>2, PTL DEF Spec

-----------------------------------------------------------------------------
(* The inductive invariant.  Mutual exclusion follows from HoldersOwn, which *)
(* LockReturn preserves because of WokenOwn: nobody but the hand-off wakes a *)
(* waiter.  The hand-off must pick a waiter of this very mutex: QueuedWait.  *)

\* A mutex is taken exactly when it has an owner.
ValueOwner ==
  \A m \in Mutex : mutex[m].value = 0 <=> mutex[m].owner = NoPid

\* Who runs is READY, who is BLOCKED is in mutex_lock, who has finished has
\* left nothing behind.
States ==
  /\ \A p \in Pid : current = p => state[p] = "READY"
  /\ \A p \in Pid : state[p] = "BLOCKED" => pc[p] = "lock"
  /\ \A p \in Pid : ~ Live(p) => pc[p] = "user" /\ holds[p] = {}

\* The entries of a queue are processes that wait for its mutex...
QueuedWait ==
  \A m \in Mutex : \A i \in Slots :
    LET p == mutex[m].queue.slot[i]
    IN  p # NoPid => Waiting(p) /\ target[p] = m

\* ... each of them once.
QueuedOnce ==
  \A m \in Mutex : \A i, j \in Slots :
    /\ mutex[m].queue.slot[i] = mutex[m].queue.slot[j]
    /\ mutex[m].queue.slot[i] # NoPid
    => i = j

\* Who was told that it has a mutex owns it.
HoldersOwn ==
  \A p \in Pid : \A m \in holds[p] : mutex[m].owner = p

\* Who is READY inside mutex_lock owns the mutex already.
WokenOwn ==
  \A p \in Pid :
    pc[p] = "lock" /\ state[p] = "READY" => mutex[target[p]].owner = p

\* Owners are not waiting, and know or will know what they own.
OwnersKnow ==
  \A m \in Mutex : \A p \in Pid : mutex[m].owner = p =>
    /\ Live(p)
    /\ ~ Waiting(p) \/ target[p] # m
    /\ m \in holds[p] \/ target[p] = m

IInv ==
  /\ TypeOK
  /\ ValueOwner
  /\ States
  /\ QueuedWait
  /\ QueuedOnce
  /\ HoldersOwn
  /\ WokenOwn
  /\ OwnersKnow

-----------------------------------------------------------------------------
(* The initial state and the steps *)

(* The invariant when nobody has asked for a mutex yet. *)
LEMMA InitIInv == Init => IInv
<1> SUFFICES ASSUME Init PROVE IInv
  OBVIOUS
<1>1. TypeOK
  BY QueueAssumption
  DEF Init, TypeOK, MutexStruct, FreeMutex, EmptyQueue, Queue, PidOrNone, Slots
<1>2. \A m \in Mutex : /\ mutex[m].value = 0
                       /\ mutex[m].owner = NoPid
                       /\ \A i \in Slots : mutex[m].queue.slot[i] = NoPid
  BY DEF Init, FreeMutex, EmptyQueue
<1> QED
  BY <1>1, <1>2, QueueAssumption
  DEF IInv, Init, ValueOwner, States, QueuedWait, QueuedOnce, HoldersOwn,
      WokenOwn, OwnersKnow, Live

\* The directory and the states after the mutexes of R were handed on.
Handed(R) ==
  [m \in Mutex |-> IF m \in R THEN HandOff(mutex[m]) ELSE mutex[m]]

Woken(R) == Resume(state, {Front(mutex[m].queue) : m \in R} \ {NoPid})

(* Handing on the mutexes R wakes, for each that has waiters, the first of *)
(* them, which waits for that mutex and no other; it becomes the owner and *)
(* leaves the queue, where nobody else changes place or state.             *)
LEMMA HandOffAll ==
  ASSUME IInv, NEW R \in SUBSET Mutex
  PROVE  /\ \A m \in Mutex : \A i \in Slots : \A p :
              p = Handed(R)[m].queue.slot[i] /\ p # NoPid =>
                /\ p = mutex[m].queue.slot[i]
                /\ p \in Pid
                /\ Woken(R)[p] = state[p]
         /\ \A m \in R :
              /\ Handed(R)[m].owner = Front(mutex[m].queue)
              /\ Handed(R)[m].value = IF Front(mutex[m].queue) = NoPid THEN 0
                                      ELSE mutex[m].value
         /\ \A m \in R : \A p :
              p = Front(mutex[m].queue) /\ p # NoPid =>
                /\ p \in Pid
                /\ Waiting(p)
                /\ target[p] = m
                /\ Woken(R)[p] = "READY"
         /\ \A p \in Pid : Woken(R)[p] # state[p] =>
              \E m \in R : /\ p = Front(mutex[m].queue) /\ Waiting(p)
                           /\ target[p] = m /\ Woken(R)[p] = "READY"
<1> DEFINE mx == Handed(R)
<1> DEFINE st == Woken(R)
<1>a. /\ mx = [m \in Mutex |-> IF m \in R THEN HandOff(mutex[m]) ELSE mutex[m]]
      /\ st = Resume(state, {Front(mutex[m].queue) : m \in R} \ {NoPid})
  BY DEF Handed, Woken
<1> USE <1>a
<1> HIDE DEF mx, st
<1> USE DEF IInv
<1>1. \A m \in Mutex : mutex[m] \in MutexStruct /\ mutex[m].queue \in Queue
  BY DEF TypeOK, MutexStruct
<1>2. \A m \in Mutex : mutex[m].queue.start \in Slots
  BY <1>1 DEF Queue
<1>3. ASSUME NEW m \in Mutex, NEW p, p = Front(mutex[m].queue), p # NoPid
      PROVE  /\ p \in Pid /\ Waiting(p) /\ target[p] = m
             /\ m \in R => st[p] = "READY"
  <2>1. p \in Pid
    BY <1>1, <1>3, HandOffFields DEF PidOrNone
  <2>2. Waiting(p) /\ target[p] = m
    BY <1>2, <1>3 DEF QueuedWait, Front
  <2>3. m \in R => st[p] = "READY"
    BY <1>3, <2>1, <2>2, ResumeStates DEF TypeOK, Waiting
  <2> QED BY <2>1, <2>2, <2>3
<1>4. ASSUME NEW m \in Mutex, NEW i \in Slots, NEW p,
             p = mx[m].queue.slot[i], p # NoPid
      PROVE  p = mutex[m].queue.slot[i] /\ p \in Pid /\ st[p] = state[p]
  <2>1. p = mutex[m].queue.slot[i]
    BY <1>1, <1>4, HandOffFields, DropSlots
  <2>2. p \in Pid /\ target[p] = m
    BY <1>1, <1>4, <2>1 DEF QueuedWait, Queue, PidOrNone
  <2>3. ASSUME NEW n \in R, p = Front(mutex[n].queue) PROVE FALSE
    <3>1. n = m
      BY <1>3, <2>2, <2>3, <1>4
    <3>2. i = mutex[m].queue.start
      BY <1>2, <1>4, <2>1, <2>3, <3>1 DEF QueuedOnce, Front
    <3> QED BY <1>1, <1>4, <2>3, <3>1, <3>2, HandOffFields, DropSlots
  <2> QED BY <2>1, <2>2, <2>3, ResumeStates DEF TypeOK
<1>5. ASSUME NEW p \in Pid, st[p] # state[p]
      PROVE  \E m \in R : /\ p = Front(mutex[m].queue) /\ Waiting(p)
                          /\ target[p] = m /\ st[p] = "READY"
  <2>1. PICK m \in R : p = Front(mutex[m].queue)
    BY <1>5, ResumeStates DEF TypeOK
  <2> QED BY <2>1, <1>3, QueueAssumption
<1>6. ASSUME NEW m \in R
      PROVE  /\ mx[m].owner = Front(mutex[m].queue)
             /\ mx[m].value = IF Front(mutex[m].queue) = NoPid THEN 0
                              ELSE mutex[m].value
  BY <1>1, HandOffFields
<1>7. \A m \in Mutex : \A i \in Slots : \A p :
        p = mx[m].queue.slot[i] /\ p # NoPid =>
          p = mutex[m].queue.slot[i] /\ p \in Pid /\ st[p] = state[p]
  BY <1>4
<1>8. \A m \in R : \A p :
        p = Front(mutex[m].queue) /\ p # NoPid =>
          p \in Pid /\ Waiting(p) /\ target[p] = m /\ st[p] = "READY"
  BY <1>3
<1> HIDE DEF IInv
<1>9. \A p \in Pid : st[p] # state[p] =>
        \E m \in R : /\ p = Front(mutex[m].queue) /\ Waiting(p)
                     /\ target[p] = m /\ st[p] = "READY"
  BY <1>5
<1>10. \A m \in R :
        /\ mx[m].owner = Front(mutex[m].queue)
        /\ mx[m].value = IF Front(mutex[m].queue) = NoPid THEN 0
                         ELSE mutex[m].value
  BY <1>6
<1> QED BY ONLY <1>7, <1>8, <1>9, <1>10 DEF mx, st

(* Steps that touch no mutex and block nobody. *)
LEMMA QuietStep ==
  ASSUME IInv, TypeOK', NEW p \in Pid,
         GhostShell(p) \/ Tick(p) \/ \E q \in Pid : Spawn(p, q)
  PROVE  IInv'
<1>0. /\ TypeOK /\ ValueOwner /\ States /\ QueuedWait
      /\ QueuedOnce /\ HoldersOwn /\ WokenOwn /\ OwnersKnow
  BY DEF IInv
<1> USE <1>0
<1>1. UNCHANGED <<mutex, pc, target, holds>>
  BY DEF GhostShell, Tick, Spawn
<1>2. \A q \in Pid : state'[q] # state[q] =>
        state[q] = "FINISHED" /\ state'[q] = "READY"
  BY DEF GhostShell, Tick, Spawn, TypeOK, Live
<1>3. States'
  BY <1>1, <1>2 DEF States, Live, GhostShell, Tick, Spawn, Running, TypeOK
<1>4. QueuedWait' /\ QueuedOnce'
  <2>1. \A m \in Mutex : \A i \in Slots :
          mutex[m].queue.slot[i] \in PidOrNone
    BY DEF TypeOK, MutexStruct, Queue
  <2> QED BY <1>1, <1>2, <2>1 DEF QueuedWait, QueuedOnce, Waiting, PidOrNone
<1>5. HoldersOwn' /\ WokenOwn' /\ ValueOwner'
  BY <1>1, <1>2 DEF HoldersOwn, WokenOwn, ValueOwner, States, Live
<1>6. OwnersKnow'
  BY <1>1, <1>2 DEF OwnersKnow, Live, Waiting
<1> QED BY <1>3, <1>4, <1>5, <1>6 DEF IInv

(* Return from mutex_lock: WokenOwn says that the mutex is the caller's. *)
LEMMA LockReturnStep ==
  ASSUME IInv, TypeOK', NEW p \in Pid, LockReturn(p)
  PROVE  IInv'
<1>0. /\ TypeOK /\ ValueOwner /\ States /\ QueuedWait
      /\ QueuedOnce /\ HoldersOwn /\ WokenOwn /\ OwnersKnow
  BY DEF IInv
<1> USE <1>0
<1> USE DEF LockReturn, LockReturns, Running, TypeOK
<1>1. state[p] = "READY" /\ mutex[target[p]].owner = p /\ target[p] \in Mutex
  BY DEF States, WokenOwn
<1>2. \A m \in Mutex : \A i \in Slots : mutex[m].queue.slot[i] # p
  BY <1>1, QueueAssumption DEF QueuedWait, Waiting
<1>3. \A m \in Mutex : \A i \in Slots : mutex[m].queue.slot[i] \in PidOrNone
  BY DEF MutexStruct, Queue
<1>4. States'
  BY <1>1 DEF States, Live
<1>5. QueuedWait' /\ QueuedOnce' /\ ValueOwner'
  BY <1>2, <1>3 DEF QueuedWait, QueuedOnce, ValueOwner, Waiting, PidOrNone
<1>6. HoldersOwn' /\ WokenOwn'
  BY <1>1 DEF HoldersOwn, WokenOwn
<1>7. OwnersKnow'
  BY <1>1 DEF OwnersKnow, Live, Waiting
<1> QED BY <1>4, <1>5, <1>6, <1>7 DEF IInv

(* mutex_lock by a process that runs: nobody else holds a free mutex, and  *)
(* a busy one gets an entry that was in no queue before.                   *)
LEMMA LockStep ==
  ASSUME IInv, TypeOK', NEW p \in Pid, NEW m \in Mutex, Lock(p, m)
  PROVE  IInv'
<1>0. /\ TypeOK /\ ValueOwner /\ States /\ QueuedWait
      /\ QueuedOnce /\ HoldersOwn /\ WokenOwn /\ OwnersKnow
  BY DEF IInv
<1> USE <1>0
<1>1. pc[p] = "user" /\ state[p] = "READY" /\ current = p
  BY DEF Lock, Running, States
<1>2. \A n \in Mutex : \A i \in Slots : mutex[n].queue.slot[i] # p
  BY <1>1, QueueAssumption DEF QueuedWait, Waiting
<1>3. \A n \in Mutex : \A i \in Slots : mutex[n].queue.slot[i] \in PidOrNone
  BY DEF TypeOK, MutexStruct, Queue
<1>4. mutex \in [Mutex -> MutexStruct] /\ mutex[m].queue \in Queue
  BY DEF TypeOK, MutexStruct
<1>5. CASE LockAtOnce(p, m)
  <2>1. /\ UNCHANGED <<state, current, pc, target>>
        /\ holds' = [holds EXCEPT ![p] = @ \cup {m}]
    BY <1>5 DEF LockAtOnce, LockReturns
  <2>2. \A n \in Mutex :
          /\ mutex'[n].queue = mutex[n].queue
          /\ n # m => mutex'[n] = mutex[n]
    BY <1>4, <1>5 DEF LockAtOnce, MutexStruct
  <2>3. mutex'[m].owner = p /\ mutex'[m].value = 1
    BY <1>4, <1>5, QueueAssumption DEF LockAtOnce, MutexStruct, ValueOwner
  <2>4. mutex[m].owner = p \/ mutex[m].owner = NoPid
    BY <1>5 DEF LockAtOnce, ValueOwner
  <2>5. States' /\ QueuedWait' /\ QueuedOnce'
    BY <1>1, <1>3, <2>1, <2>2
    DEF States, QueuedWait, QueuedOnce, Waiting, Live, TypeOK
  <2>6. ValueOwner'
    BY <2>2, <2>3, QueueAssumption DEF ValueOwner
  <2>7. HoldersOwn' /\ WokenOwn'
    BY <1>1, <2>1, <2>2, <2>3, <2>4, QueueAssumption
    DEF HoldersOwn, WokenOwn, TypeOK
  <2>8. OwnersKnow'
    BY <1>1, <2>1, <2>2, <2>3, <2>4 DEF OwnersKnow, Live, Waiting, TypeOK
  <2> QED BY <2>5, <2>6, <2>7, <2>8 DEF IInv
<1>6. CASE LockWaits(p, m)
  <2>1. /\ state' = [state EXCEPT ![p] = "BLOCKED"]
        /\ pc' = [pc EXCEPT ![p] = "lock"]
        /\ target' = [target EXCEPT ![p] = m]
        /\ holds' = holds
        /\ mutex[m].owner # p /\ mutex[m].value = 1
    BY <1>6 DEF LockWaits
  <2>2. \A n \in Mutex :
          /\ mutex'[n].owner = mutex[n].owner
          /\ mutex'[n].value = mutex[n].value
          /\ n # m => mutex'[n] = mutex[n]
    BY <1>4, <1>6 DEF LockWaits, MutexStruct
  <2>3. \A i \in Slots : mutex'[m].queue.slot[i] =
          IF i = mutex[m].queue.free THEN p ELSE mutex[m].queue.slot[i]
    BY <1>4, <1>6, PushSlots DEF LockWaits, MutexStruct
  <2>f. /\ state'[p] = "BLOCKED" /\ pc'[p] = "lock" /\ target'[p] = m
        /\ \A q \in Pid \ {p} : /\ state'[q] = state[q]
                                /\ pc'[q] = pc[q]
                                /\ target'[q] = target[q]
    BY <2>1 DEF TypeOK
  <2>4. States'
    <3>1. \A q \in Pid : current' = q => state'[q] = "READY"
      BY <1>6, RescheduleType DEF LockWaits
    <3> QED BY <2>1, <2>f, <3>1 DEF States, Live
  <2>5. QueuedWait'
    <3> SUFFICES ASSUME NEW n \in Mutex, NEW i \in Slots, NEW q,
                        q = mutex'[n].queue.slot[i], q # NoPid
                 PROVE  Waiting(q)' /\ target'[q] = n
      BY DEF QueuedWait
    <3>1. CASE q = mutex[n].queue.slot[i]
      <4>1. q \in Pid /\ q # p /\ Waiting(q) /\ target[q] = n
        BY <3>1, <1>2, <1>3 DEF QueuedWait, PidOrNone
      <4> QED BY <4>1, <2>1 DEF Waiting, TypeOK
    <3>2. CASE n = m /\ q = p
      BY <3>2, <2>1 DEF Waiting, TypeOK
    <3> QED BY <3>1, <3>2, <2>2, <2>3
  <2>6. QueuedOnce'
    <3> SUFFICES ASSUME NEW n \in Mutex, NEW i \in Slots, NEW j \in Slots,
                        mutex'[n].queue.slot[i] = mutex'[n].queue.slot[j],
                        mutex'[n].queue.slot[i] # NoPid
                 PROVE  i = j
      BY DEF QueuedOnce
    <3>1. CASE n # m
      BY <3>1, <2>2 DEF QueuedOnce
    <3>2. CASE n = m
      BY <3>2, <2>3, <1>2 DEF QueuedOnce
    <3> QED BY <3>1, <3>2
  <2>7. ValueOwner' /\ HoldersOwn' /\ WokenOwn'
    BY <2>1, <2>2 DEF ValueOwner, HoldersOwn, WokenOwn, TypeOK
  <2>8. OwnersKnow'
    <3> SUFFICES ASSUME NEW n \in Mutex, NEW q \in Pid, mutex'[n].owner = q
                 PROVE  /\ Live(q)'
                        /\ ~ Waiting(q)' \/ target'[q] # n
                        /\ n \in holds'[q] \/ target'[q] = n
      BY DEF OwnersKnow
    <3>1. /\ Live(q)
          /\ ~ Waiting(q) \/ target[q] # n
          /\ n \in holds[q] \/ target[q] = n
      BY <2>2 DEF OwnersKnow
    <3>2. CASE q = p
      <4>1. target[p] = NoMutex /\ n # m
        BY <1>1, <2>1, <2>2, <3>2 DEF TypeOK
      <4> QED BY <4>1, <2>1, <2>f, <3>1, <3>2, MutexAssumption DEF Live, Waiting
    <3>3. CASE q # p
      BY <3>1, <3>3, <2>1, <2>f DEF Live, Waiting
    <3> QED BY <3>2, <3>3
  <2> QED BY <2>4, <2>5, <2>6, <2>7, <2>8 DEF IInv
<1> QED BY <1>5, <1>6 DEF Lock

(* mutex_unlock by a holder, who is the owner: the first waiter was waiting *)
(* for this mutex, so what it is woken with is what it asked for.           *)
LEMMA UnlockStep ==
  ASSUME IInv, TypeOK', NEW p \in Pid, NEW m \in Mutex, Unlock(p, m)
  PROVE  IInv'
<1> DEFINE w == Front(mutex[m].queue)
<1>0. /\ TypeOK /\ ValueOwner /\ States /\ QueuedWait
      /\ QueuedOnce /\ HoldersOwn /\ WokenOwn /\ OwnersKnow
  BY DEF IInv
<1> USE <1>0
<1>1. /\ pc[p] = "user" /\ state[p] = "READY" /\ current = p
      /\ mutex[m].owner = p /\ mutex[m].value = 1
  <2>1. mutex[m].owner = p /\ mutex[m].value \in {0, 1}
    BY DEF Unlock, HoldersOwn, TypeOK, MutexStruct
  <2> QED BY <2>1, QueueAssumption DEF Unlock, Running, States, ValueOwner
<1>2. /\ mutex' = Handed({m})
      /\ state' = Woken({m})
      /\ holds' = [holds EXCEPT ![p] = @ \ {m}]
      /\ UNCHANGED <<current, pc, target>>
  <2>1. mutex' = [mutex EXCEPT ![m] = HandOff(@)]
    BY <1>1 DEF Unlock
  <2>2. state' = Resume(state, {w} \ {NoPid})
    BY <1>1 DEF Unlock
  <2>3. {Front(mutex[n].queue) : n \in {m}} = {w}
    OBVIOUS
  <2>4. mutex' = Handed({m})
    BY <2>1 DEF Handed, TypeOK
  <2> QED BY <2>2, <2>3, <2>4 DEF Unlock, Woken
<1>3. /\ \A n \in Mutex : \A i \in Slots : \A q :
           q = mutex'[n].queue.slot[i] /\ q # NoPid =>
             q = mutex[n].queue.slot[i] /\ q \in Pid /\ state'[q] = state[q]
      /\ /\ mutex'[m].owner = w
         /\ mutex'[m].value = IF w = NoPid THEN 0 ELSE 1
         /\ w # NoPid => /\ w \in Pid /\ Waiting(w) /\ target[w] = m
                         /\ state'[w] = "READY"
      /\ \A q \in Pid : state'[q] # state[q] => q = w /\ w # NoPid
  <2>1. {m} \in SUBSET Mutex /\ m \in {m}
    OBVIOUS
  <2> HIDE <1>0
  <2> QED BY <1>1, <1>2, <2>1, HandOffAll, QueueAssumption
<1>4. \A n \in Mutex : n # m => mutex'[n] = mutex[n]
  BY <1>2 DEF Handed
<1>5. States'
  <2>1. ASSUME NEW q \in Pid
        PROVE  state'[q] = state[q] \/ (q # p /\ state'[q] = "READY" /\ Waiting(q))
    BY <1>1, <1>3 DEF Waiting
  <2>2. \A q \in Pid \ {p} : holds'[q] = holds[q]
    BY <1>2 DEF TypeOK
  <2>3. \A q \in Pid : current' = q => state'[q] = "READY"
    BY <1>1, <1>2, <2>1 DEF States
  <2>4. \A q \in Pid : state'[q] = "BLOCKED" => pc'[q] = "lock"
    BY <1>2, <2>1 DEF States
  <2>5. \A q \in Pid : state'[q] = "FINISHED" => pc'[q] = "user" /\ holds'[q] = {}
    BY <1>1, <1>2, <2>1, <2>2 DEF States, Live
  <2> QED BY <2>3, <2>4, <2>5 DEF States, Live
<1>6. QueuedWait'
  <2> SUFFICES ASSUME NEW n \in Mutex, NEW i \in Slots, NEW q,
                      q = mutex'[n].queue.slot[i], q # NoPid
               PROVE  Waiting(q)' /\ target'[q] = n
    BY DEF QueuedWait
  <2>1. q = mutex[n].queue.slot[i] /\ q \in Pid /\ state'[q] = state[q]
    BY <1>3
  <2>2. Waiting(q) /\ target[q] = n
    BY <2>1 DEF QueuedWait
  <2> QED BY <1>2, <2>1, <2>2 DEF Waiting
<1>7. QueuedOnce'
  BY <1>3 DEF QueuedOnce
<1>8. ValueOwner'
  BY <1>3, <1>4 DEF ValueOwner
<1>9. HoldersOwn'
  <2> SUFFICES ASSUME NEW q \in Pid, NEW n \in holds'[q]
               PROVE  mutex'[n].owner = q
    BY DEF HoldersOwn
  <2>1. n \in holds[q] /\ n \in Mutex /\ (q = p => n # m)
    BY <1>2 DEF TypeOK
  <2>2. mutex[n].owner = q
    BY <2>1 DEF HoldersOwn
  <2>3. n # m
    BY <1>1, <2>1, <2>2
  <2> QED BY <1>4, <2>1, <2>2, <2>3
<1>10. WokenOwn'
  <2> SUFFICES ASSUME NEW q \in Pid, pc[q] = "lock", state'[q] = "READY"
               PROVE  mutex'[target[q]].owner = q
    BY <1>2 DEF WokenOwn
  <2>1. CASE state'[q] # state[q]
    BY <2>1, <1>3
  <2>2. CASE state'[q] = state[q]
    <3>1. mutex[target[q]].owner = q /\ q # p /\ target[q] \in Mutex
      BY <2>2, <1>1 DEF WokenOwn, TypeOK
    <3> QED BY <3>1, <1>1, <1>4
  <2> QED BY <2>1, <2>2
<1>11. OwnersKnow'
  <2> SUFFICES ASSUME NEW n \in Mutex, NEW q \in Pid, mutex'[n].owner = q
               PROVE  /\ Live(q)'
                      /\ ~ Waiting(q)' \/ target'[q] # n
                      /\ n \in holds'[q] \/ target'[q] = n
    BY DEF OwnersKnow
  <2>1. CASE n = m
    BY <2>1, <1>2, <1>3, QueueAssumption DEF Live, Waiting
  <2>2. CASE n # m
    <3>1. /\ Live(q)
          /\ ~ Waiting(q) \/ target[q] # n
          /\ n \in holds[q] \/ target[q] = n
      BY <2>2, <1>4 DEF OwnersKnow
    <3> QED BY <3>1, <2>2, <1>2, <1>3 DEF Live, Waiting, TypeOK
  <2> QED BY <2>1, <2>2
<1> QED BY <1>5, <1>6, <1>7, <1>8, <1>9, <1>10, <1>11 DEF IInv

(* The end of a process that does not wait: each of its mutexes goes to a  *)
(* waiter of its own, and no queue remembers the process.                  *)
LEMMA FinishStep ==
  ASSUME IInv, TypeOK', NEW p \in Pid, ~ Waiting(p), Live(p), Finish(p)
  PROVE  IInv'
<1> DEFINE R == {m \in Mutex : mutex[m].owner = p}
<1> DEFINE st == Woken(R)
<1>0. /\ TypeOK /\ ValueOwner /\ States /\ QueuedWait
      /\ QueuedOnce /\ HoldersOwn /\ WokenOwn /\ OwnersKnow
  BY DEF IInv
<1> USE <1>0
<1>1. /\ mutex' = Handed(R)
      /\ state' = [st EXCEPT ![p] = "FINISHED"]
      /\ pc' = [pc EXCEPT ![p] = "user"]
      /\ target' = [target EXCEPT ![p] = NoMutex]
      /\ holds' = [holds EXCEPT ![p] = {}]
  <2>1. mutex' = Handed(R)
    BY DEF Finish, ReleaseByOwner, Handed
  <2>2. st = Resume(state, ResumedByRelease(p))
    BY DEF ResumedByRelease, Woken
  <2> QED BY <2>1, <2>2 DEF Finish
<1>t. st \in [Pid -> {"READY", "BLOCKED", "FINISHED"}]
  BY ResumeStates DEF Woken, TypeOK
<1>2. /\ \A n \in Mutex : \A i \in Slots : \A q :
           q = mutex'[n].queue.slot[i] /\ q # NoPid =>
             q = mutex[n].queue.slot[i] /\ q \in Pid /\ st[q] = state[q]
      /\ \A n \in R :
           /\ mutex'[n].owner = Front(mutex[n].queue)
           /\ mutex'[n].value = IF Front(mutex[n].queue) = NoPid THEN 0
                                ELSE mutex[n].value
      /\ \A n \in R : \A w :
           w = Front(mutex[n].queue) /\ w # NoPid =>
             w \in Pid /\ Waiting(w) /\ target[w] = n /\ st[w] = "READY"
      /\ \A q \in Pid : st[q] # state[q] =>
           \E n \in R : /\ q = Front(mutex[n].queue) /\ Waiting(q)
                        /\ target[q] = n /\ st[q] = "READY"
  <2>1. R \in SUBSET Mutex
    OBVIOUS
  <2> HIDE DEF R, st
  <2>2. st = Woken(R)
    BY DEF st
  <2> QED BY ONLY IInv, <1>1, <2>1, <2>2, HandOffAll
<1> HIDE DEF st
<1>3. \A n \in Mutex \ R : mutex'[n] = mutex[n]
  BY <1>1 DEF Handed
<1>4. /\ state'[p] = "FINISHED"
      /\ \A q \in Pid \ {p} : state'[q] = st[q]
      /\ st \in [Pid -> {"READY", "BLOCKED", "FINISHED"}]
  BY <1>1, <1>t
<1>5. States'
  <2>1. \A q \in Pid : current' = q => state'[q] = "READY"
    <3>1. CASE current = p
      BY <3>1, RescheduleType DEF Finish
    <3>2. CASE current # p
      BY <3>2, <1>2, <1>4 DEF Finish, States
    <3> QED BY <3>1, <3>2
  <2> QED BY <2>1, <1>1, <1>2, <1>4 DEF States, Live, Waiting, TypeOK
<1>6. QueuedWait'
  <2> SUFFICES ASSUME NEW n \in Mutex, NEW i \in Slots, NEW q,
                      q = mutex'[n].queue.slot[i], q # NoPid
               PROVE  Waiting(q)' /\ target'[q] = n
    BY DEF QueuedWait
  <2>1. /\ q = mutex[n].queue.slot[i] /\ q \in Pid /\ st[q] = state[q]
        /\ Waiting(q) /\ target[q] = n /\ q # p
    BY <1>2 DEF QueuedWait
  <2> QED BY <2>1, <1>1, <1>4 DEF Waiting, TypeOK
<1>7. QueuedOnce'
  BY <1>2 DEF QueuedOnce
<1>8. ValueOwner'
  BY <1>2, <1>3, QueueAssumption DEF ValueOwner
<1>9. HoldersOwn'
  BY <1>1, <1>3 DEF HoldersOwn, TypeOK
<1>10. WokenOwn'
  <2> SUFFICES ASSUME NEW q \in Pid, pc'[q] = "lock", state'[q] = "READY"
               PROVE  mutex'[target'[q]].owner = q
    BY DEF WokenOwn
  <2>1. q # p /\ pc[q] = "lock" /\ st[q] = "READY" /\ target'[q] = target[q]
    BY <1>1, <1>4 DEF TypeOK
  <2>2. CASE st[q] # state[q]
    BY <2>1, <2>2, <1>2
  <2>3. CASE st[q] = state[q]
    BY <2>1, <2>3, <1>3 DEF WokenOwn, TypeOK
  <2> QED BY <2>2, <2>3
<1>11. OwnersKnow'
  <2> SUFFICES ASSUME NEW n \in Mutex, NEW q \in Pid, mutex'[n].owner = q
               PROVE  /\ Live(q)'
                      /\ ~ Waiting(q)' \/ target'[q] # n
                      /\ n \in holds'[q] \/ target'[q] = n
    BY DEF OwnersKnow
  <2>1. CASE n \in R
    <3>1. /\ Waiting(q) /\ target[q] = n /\ st[q] = "READY" /\ q # p
      BY <2>1, <1>2, QueueAssumption
    <3> QED BY <3>1, <1>1, <1>4 DEF Live, Waiting, TypeOK
  <2>2. CASE n \notin R
    <3>1. /\ Live(q)
          /\ ~ Waiting(q) \/ target[q] # n
          /\ n \in holds[q] \/ target[q] = n
          /\ q # p
      BY <2>2, <1>3 DEF OwnersKnow
    <3> QED BY <3>1, <1>1, <1>2, <1>4 DEF Live, Waiting, TypeOK
  <2> QED BY <2>1, <2>2
<1> QED BY <1>5, <1>6, <1>7, <1>8, <1>9, <1>10, <1>11 DEF IInv

(* wrapper_process wakes a parent that does not wait in mutex_lock: under *)
(* this workload that parent was not asleep, and nothing changes.         *)
LEMMA ResumeParentStep ==
  ASSUME Disciplined, IInv, TypeOK', NEW p \in Pid, ResumeParent(p)
  PROVE  IInv'
<1>0. /\ TypeOK /\ ValueOwner /\ States /\ QueuedWait
      /\ QueuedOnce /\ HoldersOwn /\ WokenOwn /\ OwnersKnow
  BY DEF IInv
<1> USE <1>0
<1>1. pc[p] = "user" /\ state[p] = "READY"
  BY DEF ResumeParent, Running, States
<1>2. /\ UNCHANGED <<mutex, current, target, holds>>
      /\ pc'[p] = "finish"
      /\ \A q \in Pid \ {p} : pc'[q] = pc[q]
  BY DEF ResumeParent, TypeOK
<1>3. ASSUME NEW q \in Pid PROVE state'[q] = state[q]
  <2>1. state[q] \in {"READY", "BLOCKED", "FINISHED"}
    BY DEF TypeOK
  <2>2. /\ ~ (parent[p] # NoPid /\ Waiting(parent[p]))
        /\ state' = Resume(state, {parent[p]} \ {NoPid})
    BY DEF ResumeParent, Disciplined
  <2>3. CASE q = parent[p]
    <3>1. ~ Waiting(q)
      BY <2>2, <2>3, QueueAssumption
    <3>2. state[q] # "BLOCKED"
      BY <3>1 DEF States, Waiting
    <3> QED BY <2>1, <2>2, <3>2, ResumeStates DEF TypeOK
  <2>4. CASE q # parent[p]
    BY <2>2, <2>4, ResumeStates DEF TypeOK
  <2> QED BY <2>3, <2>4
<1>4. States'
  BY <1>1, <1>2, <1>3 DEF States, Live
<1>5. QueuedWait'
  <2> SUFFICES ASSUME NEW n \in Mutex, NEW i \in Slots, NEW q,
                      q = mutex[n].queue.slot[i], q # NoPid
               PROVE  Waiting(q)' /\ target[q] = n
    BY <1>2 DEF QueuedWait
  <2>1. q \in Pid
    BY DEF TypeOK, MutexStruct, Queue, PidOrNone
  <2> QED BY <1>1, <1>2, <1>3, <2>1 DEF QueuedWait, Waiting
<1>6. QueuedOnce' /\ ValueOwner' /\ HoldersOwn'
  BY <1>2 DEF QueuedOnce, ValueOwner, HoldersOwn
<1>7. WokenOwn'
  BY <1>1, <1>2, <1>3 DEF WokenOwn
<1>8. OwnersKnow'
  BY <1>1, <1>2, <1>3 DEF OwnersKnow, Live, Waiting
<1> QED BY <1>4, <1>5, <1>6, <1>7, <1>8 DEF IInv

-----------------------------------------------------------------------------
(* The theorems *)

(* IInv is inductive: one case for each action. *)
LEMMA IInvStep ==
  ASSUME Disciplined, IInv, [Next]_vars
  PROVE  IInv'
<1>0. TypeOK'
  BY TypeStep DEF IInv
<1>1. CASE UNCHANGED vars
  BY <1>1 DEF vars, IInv, TypeOK, ValueOwner, States, QueuedWait, QueuedOnce,
              HoldersOwn, WokenOwn, OwnersKnow, Live, Waiting
<1>2. ASSUME NEW p \in Pid,
             GhostShell(p) \/ Tick(p) \/ \E q \in Pid : Spawn(p, q)
      PROVE  IInv'
  BY <1>0, <1>2, QuietStep
<1>3. ASSUME NEW p \in Pid, LockReturn(p) PROVE IInv'
  BY <1>0, <1>3, LockReturnStep
<1>4. ASSUME NEW p \in Pid, ResumeParent(p) PROVE IInv'
  BY <1>0, <1>4, ResumeParentStep
<1>5. ASSUME NEW p \in Pid, Exit(p) PROVE IInv'
  <2>1. ~ Waiting(p) /\ Live(p)
    BY <1>5 DEF Exit, Running, Waiting, Live, IInv, States
  <2> QED BY <1>0, <1>5, <2>1, FinishStep DEF Exit
<1>6. ASSUME NEW p \in Pid, NEW m \in Mutex, Lock(p, m) PROVE IInv'
  BY <1>0, <1>6, LockStep
<1>7. ASSUME NEW p \in Pid, NEW m \in Mutex, Unlock(p, m) PROVE IInv'
  BY <1>0, <1>7, UnlockStep
<1>8. ASSUME NEW p \in Pid, NEW q \in Pid, Kill(p, q) PROVE IInv'
  <2>1. ~ Waiting(q) /\ Live(q) /\ Finish(q)
    BY <1>8 DEF Kill, Disciplined
  <2> QED BY <1>0, <2>1, FinishStep
<1> QED BY <1>1, <1>2, <1>3, <1>4, <1>5, <1>6, <1>7, <1>8 DEF Next

(* IInv holds throughout. *)
LEMMA Inductive ==
  ASSUME Disciplined
  PROVE  Spec => []IInv
<1>1. IInv /\ [Next]_vars => IInv'
  BY IInvStep
<1> QED BY InitIInv, <1>1, PTL DEF Spec

(* mutex_lock returns to one process at a time, with any number of         *)
(* processes, mutexes and queue slots, and also when queues overflow.      *)
THEOREM MutualExclusionHolds ==
  ASSUME Disciplined
  PROVE  Spec => []MutualExclusion
<1>1. IInv => MutualExclusion
  BY DEF IInv, HoldersOwn, MutualExclusion, TypeOK
<1> QED BY Inductive, <1>1, PTL

(* A taken mutex always has a live owner that has or will have returned    *)
(* from mutex_lock: release_mutex_by_owner and the hand-off leave no mutex *)
(* to a process that is gone.                                              *)
THEOREM NoOrphanMutexHolds ==
  ASSUME Disciplined
  PROVE  Spec => []NoOrphanMutex
<1>1. IInv => NoOrphanMutex
  BY DEF IInv, TypeOK, MutexStruct, PidOrNone, ValueOwner, OwnersKnow,
         NoOrphanMutex
<1> QED BY Inductive, <1>1, PTL

-----------------------------------------------------------------------------
(* The waiting lists *)

\* No more processes are alive than there are slots in a list, and one that
\* has the mutex.
Few ==
  LET alive == {p \in Pid : Live(p)}
  IN  IsFiniteSet(alive) /\ Cardinality(alive) <= PROCESS_QUEUE_SIZE + 1

-----------------------------------------------------------------------------
(* The inductive invariant, besides IInv *)

QueueOf(m) == mutex[m].queue

\* The waiters of a mutex fill its list from queue_start_index on.
QueuesFilled == \A m \in Mutex : \E n : Holds(QueueOf(m), n)

\* Whoever waits is in the list of what it waits for.
WaitersQueued ==
  \A p \in Pid : Waiting(p) =>
    \E i \in Slots : QueueOf(target[p]).slot[i] = p

\* Nobody is in the list of a mutex that is free.
QueuedTaken ==
  \A m \in Mutex : \A i \in Slots :
    QueueOf(m).slot[i] # NoPid => mutex[m].value = 1

QInv == QueuesFilled /\ WaitersQueued /\ QueuedTaken

(* What IInv says of one list. *)
LEMMA QueueFacts ==
  ASSUME IInv, NEW m \in Mutex
  PROVE  /\ mutex[m] \in MutexStruct /\ QueueOf(m) \in Queue
         /\ NoneTwice(QueueOf(m))
         /\ \A p \in Members(QueueOf(m)) :
              p \in Pid /\ Waiting(p) /\ target[p] = m /\ Live(p)
<1>1. TypeOK /\ QueuedOnce /\ QueuedWait
  BY DEF IInv
<1>2. mutex[m] \in MutexStruct /\ QueueOf(m) \in Queue
  BY <1>1 DEF TypeOK, MutexStruct, QueueOf
<1>3. NoneTwice(QueueOf(m))
  BY <1>1 DEF QueuedOnce, NoneTwice, QueueOf
<1>4. ASSUME NEW p \in Members(QueueOf(m))
      PROVE  p \in Pid /\ Waiting(p) /\ target[p] = m /\ Live(p)
  <2>1. PICK i \in Slots : QueueOf(m).slot[i] = p /\ p # NoPid
    BY <1>4 DEF Members
  <2>2. p \in Pid
    BY <1>2, <2>1 DEF Queue, PidOrNone
  <2>3. Waiting(p) /\ target[p] = m
    BY <1>1, <2>1 DEF QueuedWait, QueueOf
  <2> QED BY <2>2, <2>3 DEF Waiting, Live
<1> QED BY <1>2, <1>3, <1>4

(* The list of a mutex that somebody else has, and that one more process   *)
(* asks for, has a free slot: its members, the owner and the caller are    *)
(* alive, and all different.                                               *)
LEMMA RoomToQueue ==
  ASSUME IInv, Few, NEW p \in Pid, NEW m \in Mutex, Lock(p, m), LockWaits(p, m),
         NEW n, Holds(QueueOf(m), n)
  PROVE  n < PROCESS_QUEUE_SIZE /\ p \notin Members(QueueOf(m)) /\ Running(p, "user")
<1> DEFINE alive == {q \in Pid : Live(q)}  M == Members(QueueOf(m))
           o == mutex[m].owner
<1>1. /\ TypeOK /\ ValueOwner /\ States /\ OwnersKnow
  BY DEF IInv
<1>2. Running(p, "user") /\ state[p] = "READY" /\ pc[p] = "user"
  BY <1>1 DEF Lock, Running, States
<1>3. p \notin M
  BY <1>2, QueueFacts DEF Waiting
<1>4. o \in Pid /\ o # p
  BY <1>1 DEF LockWaits, ValueOwner, TypeOK, MutexStruct, PidOrNone
<1>5. Live(o) /\ o \notin M
  BY <1>1, <1>4, QueueFacts DEF OwnersKnow
<1>6. Live(p)
  BY <1>2 DEF Live
<1>7. IsFiniteSet(M) /\ Cardinality(M) = n /\ n \in Nat
  <2>1. QueueOf(m) \in Queue /\ NoneTwice(QueueOf(m)) /\ n \in Nat
    BY QueueFacts, QueueAssumption DEF Holds
  <2> QED BY <2>1, MembersHolds
<1>8. M \cup {p} \cup {o} \in SUBSET alive
  BY <1>4, <1>5, <1>6, QueueFacts
<1> HIDE DEF M, o
<1>9. IsFiniteSet(M \cup {p}) /\ Cardinality(M \cup {p}) = n + 1
  BY <1>3, <1>7, FS_AddElement
<1>10. Cardinality(M \cup {p} \cup {o}) = n + 2
  <2>1. o \notin M \cup {p}
    BY <1>4, <1>5
  <2>2. Cardinality(M \cup {p} \cup {o}) = n + 1 + 1
    BY <1>9, <2>1, FS_AddElement
  <2> QED BY <1>7, <2>2
<1>11. IsFiniteSet(alive) /\ Cardinality(alive) <= PROCESS_QUEUE_SIZE + 1
  BY DEF Few
<1>12. Cardinality(alive) \in Nat
  BY <1>11, FS_CardinalityType
<1> HIDE DEF alive
<1>13. Cardinality(M \cup {p} \cup {o}) <= Cardinality(alive)
  BY <1>8, <1>11, FS_Subset
<1>14. n < PROCESS_QUEUE_SIZE
  BY <1>7, <1>10, <1>11, <1>12, <1>13, QueueAssumption
<1> QED BY <1>2, <1>3, <1>14 DEF M

(* What the hand-off makes of a list and its line. *)
LEMMA HandOffLine ==
  ASSUME IInv, NEW m \in Mutex, NEW n, Holds(QueueOf(m), n)
  PROVE  LET x == HandOff(mutex[m])
             line == LineOf(QueueOf(m))
         IN  /\ \E k : Holds(x.queue, k)
             /\ x.owner = IF line = <<>> THEN NoPid ELSE Head(line)
             /\ LineOf(x.queue) = IF line = <<>> THEN line ELSE Tail(line)
             /\ Front(QueueOf(m)) = NoPid => Members(x.queue) = {}
<1> DEFINE x == HandOff(mutex[m])  q == QueueOf(m)  line == LineOf(q)
<1>1. mutex[m] \in MutexStruct /\ q \in Queue /\ NoneTwice(q)
  BY QueueFacts
<1>2. /\ x.owner = Front(q)
      /\ x.queue = IF Front(q) # NoPid THEN Drop(q) ELSE q
  BY <1>1, HandOffFields DEF QueueOf
<1> HIDE DEF x, q
<1>3. Holds(q, n) /\ n \in Nat
  BY QueueAssumption DEF q, Holds
<1>4. /\ Front(q) = NoPid <=> line = <<>>
      /\ Front(q) # NoPid => Front(q) = Head(line)
      /\ Front(q) # NoPid <=> n > 0
  BY <1>1, <1>3, FrontLine, FrontHolds DEF HasWaiter
<1>5. CASE Front(q) # NoPid
  <2>1. Holds(Drop(q), n - 1) /\ LineOf(Drop(q)) = Tail(line)
    BY <1>1, <1>3, <1>4, <1>5, DropHolds, DropLine
  <2> QED BY <2>1, <1>2, <1>4, <1>5 DEF x, q
<1>6. CASE Front(q) = NoPid
  <2>1. n = 0
    BY <1>3, <1>4, <1>6
  <2>2. Members(q) = {}
    <3>1. Members(q) = {q.slot[At(q, k)] : k \in 0 .. n - 1}
      BY <1>1, <1>3, MembersHolds
    <3>2. 0 .. n - 1 = {}
      BY <2>1
    <3> QED BY <3>1, <3>2
  <2> QED BY <2>2, <1>2, <1>3, <1>4, <1>6 DEF x, q
<1> QED BY <1>5, <1>6

-----------------------------------------------------------------------------
(* The steps *)

(* A step that changes no mutex, and after which nobody waits who did not. *)
LEMMA QInvKept ==
  ASSUME QInv, UNCHANGED mutex,
         \A p \in Pid : Waiting(p)' => Waiting(p) /\ target'[p] = target[p]
  PROVE  QInv'
<1>1. QueuesFilled' /\ QueuedTaken'
  BY DEF QInv, QueuesFilled, QueuedTaken, QueueOf
<1>2. WaitersQueued'
  BY DEF QInv, WaitersQueued, QueueOf
<1> QED BY <1>1, <1>2 DEF QInv

(* Steps of the scheduler, of process.c and of a caller that returns. *)
LEMMA NobodyNewWaits ==
  ASSUME IInv, NEW p \in Pid,
         \/ GhostShell(p) \/ Tick(p) \/ LockReturn(p) \/ ResumeParent(p)
         \/ \E q \in Pid : Spawn(p, q)
  PROVE  /\ UNCHANGED mutex
         /\ \A q \in Pid : Waiting(q)' => Waiting(q) /\ target'[q] = target[q]
<1>1. TypeOK
  BY DEF IInv
<1>2. CASE GhostShell(p)
  BY <1>1, <1>2 DEF GhostShell, Waiting, TypeOK
<1>3. CASE Tick(p)
  BY <1>3 DEF Tick, Waiting
<1>4. CASE LockReturn(p)
  BY <1>1, <1>4 DEF LockReturn, Waiting, TypeOK
<1>5. CASE ResumeParent(p)
  <2>1. UNCHANGED <<mutex, target>> /\ pc' = [pc EXCEPT ![p] = "finish"]
    BY <1>5 DEF ResumeParent
  <2>2. \A q \in Pid : state'[q] = "BLOCKED" => state[q] = "BLOCKED"
    BY <1>1, <1>5, ResumeStates DEF ResumeParent, TypeOK
  <2> QED BY <2>1, <2>2, <1>1 DEF Waiting, TypeOK
<1>6. CASE \E q \in Pid : Spawn(p, q)
  BY <1>1, <1>6 DEF Spawn, Waiting, TypeOK
<1> QED BY <1>2, <1>3, <1>4, <1>5, <1>6

(* mutex_lock that does not wait: the mutex was free, or the caller's. *)
LEMMA LockAtOnceQueues ==
  ASSUME IInv, QInv, NEW p \in Pid, NEW m \in Mutex, LockAtOnce(p, m)
  PROVE  QInv'
<1>1. TypeOK /\ mutex \in [Mutex -> MutexStruct]
  BY DEF IInv, TypeOK
<1>2. /\ \A n \in Mutex : QueueOf(n)' = QueueOf(n)
      /\ \A n \in Mutex : mutex'[n].value = mutex[n].value \/ mutex'[n].value = 1
  BY <1>1 DEF LockAtOnce, MutexStruct, QueueOf
<1>3. QueuesFilled'
  BY <1>2 DEF QInv, QueuesFilled
<1>4. WaitersQueued'
  <2>1. \A q \in Pid : Waiting(q) => target[q] \in Mutex
    BY <1>1 DEF Waiting, TypeOK
  <2>2. \A q \in Pid : Waiting(q)' = Waiting(q) /\ target'[q] = target[q]
    BY DEF LockAtOnce, Waiting
  <2> QED BY <1>2, <2>1, <2>2 DEF QInv, WaitersQueued, QueueOf
<1>5. QueuedTaken'
  BY <1>2 DEF QInv, QueuedTaken
<1> QED BY <1>3, <1>4, <1>5 DEF QInv

(* mutex_lock that waits: the caller goes into a slot that was free. *)
LEMMA LockWaitsQueues ==
  ASSUME IInv, QInv, Few, NEW p \in Pid, NEW m \in Mutex, Lock(p, m), LockWaits(p, m)
  PROVE  QInv'
<1> DEFINE q == QueueOf(m)
<1>1. TypeOK /\ mutex \in [Mutex -> MutexStruct]
  BY DEF IInv, TypeOK
<1>2. PICK n : Holds(q, n)
  BY DEF QInv, QueuesFilled
<1>3. n < PROCESS_QUEUE_SIZE /\ q \in Queue /\ n \in Slots
  BY <1>2, RoomToQueue, QueueFacts, QueueAssumption DEF Holds, Slots
<1>4. /\ Holds(Push(q, p), n + 1) /\ q.slot[q.free] = NoPid
      /\ \A i \in Slots : Push(q, p).slot[i] = IF i = q.free THEN p ELSE q.slot[i]
      /\ q.free \in Slots
  BY <1>2, <1>3, PushHolds, PushSlots DEF Queue
<1>5. /\ QueueOf(m)' = Push(q, p)
      /\ mutex'[m].value = 1
      /\ \A k \in Mutex \ {m} : QueueOf(k)' = QueueOf(k) /\ mutex'[k] = mutex[k]
  BY <1>1 DEF LockWaits, MutexStruct, QueueOf
<1>t. \A k \in Mutex : QueueOf(k)' = mutex'[k].queue
  BY DEF QueueOf
<1> HIDE DEF q
<1>6. QueuesFilled'
  BY <1>4, <1>5 DEF QInv, QueuesFilled
<1>7. WaitersQueued'
  <2> SUFFICES ASSUME NEW r \in Pid, Waiting(r)'
               PROVE  \E i \in Slots : mutex'[target'[r]].queue.slot[i] = r
    BY DEF WaitersQueued, QueueOf
  <2>1. CASE r = p
    <3>1. target'[p] = m
      BY <1>1 DEF LockWaits, TypeOK
    <3> QED BY <2>1, <3>1, <1>4, <1>5, <1>t
  <2>2. CASE r # p
    <3>1. Waiting(r) /\ target'[r] = target[r] /\ target[r] \in Mutex
      BY <1>1, <2>2 DEF LockWaits, Waiting, TypeOK
    <3>2. PICK i \in Slots : QueueOf(target[r]).slot[i] = r
      BY <3>1 DEF QInv, WaitersQueued
    <3>3. CASE target[r] = m
      <4>1. i # q.free
        BY <3>2, <3>3, <1>4, QueueAssumption DEF q
      <4> QED BY <4>1, <3>1, <3>2, <3>3, <1>4, <1>5, <1>t DEF q
    <3>4. CASE target[r] # m
      BY <3>1, <3>2, <3>4, <1>5, <1>t
    <3> QED BY <3>3, <3>4
  <2> QED BY <2>1, <2>2
<1>8. QueuedTaken'
  <2>1. ASSUME NEW k \in Mutex, NEW i \in Slots, QueueOf(k)'.slot[i] # NoPid
        PROVE  mutex'[k].value = 1
    <3>1. CASE k = m
      BY <3>1, <1>5
    <3>2. CASE k # m
      BY <2>1, <3>2, <1>5 DEF QInv, QueuedTaken
    <3> QED BY <3>1, <3>2
  <2> QED BY <2>1 DEF QueuedTaken, QueueOf
<1> QED BY <1>6, <1>7, <1>8 DEF QInv

(* Mutexes handed on: whoever was first in a list is woken, all others stay. *)
LEMMA HandedQueues ==
  ASSUME IInv, QInv, NEW R \in SUBSET Mutex, mutex' = Handed(R),
         \A p \in Pid : Waiting(p)' =>
           Waiting(p) /\ target'[p] = target[p] /\ Woken(R)[p] = "BLOCKED"
  PROVE  QInv'
<1>1. /\ \A m \in R : QueueOf(m)' = HandOff(mutex[m]).queue
      /\ \A m \in R : mutex'[m] = HandOff(mutex[m])
      /\ \A m \in Mutex \ R : QueueOf(m)' = QueueOf(m) /\ mutex'[m] = mutex[m]
  BY DEF Handed, QueueOf
<1>2. QueuesFilled'
  <2>1. ASSUME NEW m \in Mutex PROVE \E n : Holds(QueueOf(m)', n)
    <3>1. PICK n : Holds(QueueOf(m), n)
      BY DEF QInv, QueuesFilled
    <3>2. \E k : Holds(HandOff(mutex[m]).queue, k)
      BY <3>1, HandOffLine
    <3>3. CASE m \in R
      BY <1>1, <3>2, <3>3
    <3>4. CASE m \notin R
      BY <1>1, <3>1, <3>4
    <3> QED BY <3>3, <3>4
  <2> QED BY <2>1 DEF QueuesFilled, QueueOf, Holds, At
<1>3. WaitersQueued'
  <2> SUFFICES ASSUME NEW p \in Pid, Waiting(p)'
               PROVE  \E i \in Slots : mutex'[target'[p]].queue.slot[i] = p
    BY DEF WaitersQueued, QueueOf
  <2> DEFINE m == target[p]
  <2>1. Waiting(p) /\ target'[p] = m /\ Woken(R)[p] = "BLOCKED" /\ m \in Mutex
    BY DEF IInv, TypeOK, Waiting
  <2>2. PICK i \in Slots : QueueOf(m).slot[i] = p
    BY <2>1 DEF QInv, WaitersQueued
  <2>3. CASE m \in R /\ Front(QueueOf(m)) # NoPid
    <3>1. p # Front(QueueOf(m))
      BY <2>1, <2>3, HandOffAll DEF QueueOf
    <3>2. i # QueueOf(m).start
      BY <2>2, <3>1 DEF Front
    <3>3. QueueOf(m)' = Drop(QueueOf(m))
      BY <1>1, <2>3, QueueFacts, HandOffFields DEF QueueOf
    <3>4. QueueOf(m)'.slot[i] = p
      BY <2>1, <2>2, <3>2, <3>3, QueueFacts, DropSlots
    <3> QED BY <2>1, <3>4 DEF QueueOf
  <2>4. CASE ~ (m \in R /\ Front(QueueOf(m)) # NoPid)
    <3>1. QueueOf(m)' = QueueOf(m)
      BY <1>1, <2>1, <2>4, QueueFacts, HandOffFields DEF QueueOf
    <3> QED BY <2>1, <2>2, <3>1 DEF QueueOf
  <2> QED BY <2>3, <2>4
<1>4. QueuedTaken'
  <2> SUFFICES ASSUME NEW m \in Mutex, NEW i \in Slots, QueueOf(m)'.slot[i] # NoPid
               PROVE  mutex'[m].value = 1
    BY DEF QueuedTaken, QueueOf
  <2>1. CASE m \in R
    <3>1. PICK n : Holds(QueueOf(m), n)
      BY DEF QInv, QueuesFilled
    <3>2. QueueOf(m)'.slot[i] \in Members(HandOff(mutex[m]).queue)
      BY <1>1, <2>1 DEF Members
    <3>3. Front(QueueOf(m)) # NoPid
      BY <3>1, <3>2, HandOffLine
    <3>4. QueueOf(m).start \in Slots
      BY QueueFacts DEF Queue
    <3>5. mutex[m].value = 1
      BY <3>3, <3>4 DEF QInv, QueuedTaken, Front
    <3> QED BY <3>3, <3>5, <1>1, <2>1, QueueFacts, HandOffFields DEF QueueOf
  <2>2. CASE m \notin R
    BY <1>1, <2>2 DEF QInv, QueuedTaken
  <2> QED BY <2>1, <2>2
<1> QED BY <1>2, <1>3, <1>4 DEF QInv

(* mutex_unlock by a holder hands on one mutex, its own. *)
LEMMA UnlockHands ==
  ASSUME IInv, NEW p \in Pid, NEW m \in Mutex, Unlock(p, m)
  PROVE  /\ mutex[m].owner = p /\ mutex' = Handed({m})
         /\ \A q \in Pid : Waiting(q)' =>
              Waiting(q) /\ target'[q] = target[q] /\ Woken({m})[q] = "BLOCKED"
<1>1. TypeOK /\ HoldersOwn
  BY DEF IInv
<1>2. mutex[m].owner = p
  BY <1>1 DEF Unlock, HoldersOwn
<1>3. mutex' = Handed({m})
  <2>1. mutex' = [mutex EXCEPT ![m] = HandOff(@)]
    BY <1>2 DEF Unlock
  <2> QED BY <2>1, <1>1 DEF Handed, TypeOK
<1>4. state' = Woken({m}) /\ UNCHANGED <<pc, target>>
  <2>1. state' = Resume(state, {Front(mutex[m].queue)} \ {NoPid})
    BY <1>2 DEF Unlock
  <2>2. {Front(mutex[n].queue) : n \in {m}} = {Front(mutex[m].queue)}
    OBVIOUS
  <2> QED BY <2>1, <2>2 DEF Woken, Unlock
<1>5. \A q \in Pid : Woken({m})[q] = "BLOCKED" => state[q] = "BLOCKED"
  BY <1>1, ResumeStates DEF Woken, TypeOK
<1> QED BY <1>2, <1>3, <1>4, <1>5 DEF Waiting

(* mark_process_as_finished hands on all the mutexes of the process. *)
LEMMA FinishHands ==
  ASSUME IInv, NEW p \in Pid, Finish(p)
  PROVE  LET R == {m \in Mutex : mutex[m].owner = p}
         IN  /\ mutex' = Handed(R)
             /\ \A q \in Pid : Waiting(q)' =>
                  Waiting(q) /\ target'[q] = target[q] /\ Woken(R)[q] = "BLOCKED"
<1> DEFINE R == {m \in Mutex : mutex[m].owner = p}
<1>1. TypeOK
  BY DEF IInv
<1>2. mutex' = Handed(R)
  BY DEF Finish, ReleaseByOwner, Handed
<1>3. Woken(R) = Resume(state, ResumedByRelease(p))
  BY DEF ResumedByRelease, Woken
<1>4. Woken(R) \in [Pid -> {"READY", "BLOCKED", "FINISHED"}]
  BY <1>1, ResumeStates DEF Woken, TypeOK
<1>5. \A q \in Pid : Woken(R)[q] = "BLOCKED" => state[q] = "BLOCKED"
  BY <1>1, ResumeStates DEF Woken, TypeOK
<1>6. /\ state' = [Woken(R) EXCEPT ![p] = "FINISHED"]
      /\ pc' = [pc EXCEPT ![p] = "user"]
      /\ target' = [target EXCEPT ![p] = NoMutex]
  BY <1>3 DEF Finish
<1> HIDE DEF R
<1>7. \A q \in Pid : Waiting(q)' =>
        Waiting(q) /\ target'[q] = target[q] /\ Woken(R)[q] = "BLOCKED"
  BY <1>1, <1>4, <1>5, <1>6 DEF Waiting, TypeOK
<1> QED BY <1>2, <1>7 DEF R

(* What any step does to the mutexes. *)
LEMMA MutexSteps ==
  ASSUME Disciplined, IInv, Next
  PROVE  \/ /\ UNCHANGED mutex
            /\ \A q \in Pid : Waiting(q)' => Waiting(q) /\ target'[q] = target[q]
         \/ \E p \in Pid, m \in Mutex : LockAtOnce(p, m)
         \/ \E p \in Pid, m \in Mutex : Lock(p, m) /\ LockWaits(p, m)
         \/ \E p \in Pid, R \in SUBSET Mutex :
              /\ \A m \in R : mutex[m].owner = p
              /\ mutex' = Handed(R)
              /\ \A q \in Pid : Waiting(q)' =>
                   Waiting(q) /\ target'[q] = target[q] /\ Woken(R)[q] = "BLOCKED"
<1> DEFINE Quiet == /\ UNCHANGED mutex
                    /\ \A q \in Pid : Waiting(q)' => Waiting(q) /\ target'[q] = target[q]
           Hands(p, R) == /\ \A m \in R : mutex[m].owner = p
                          /\ mutex' = Handed(R)
                          /\ \A q \in Pid : Waiting(q)' =>
                               /\ Waiting(q) /\ target'[q] = target[q]
                               /\ Woken(R)[q] = "BLOCKED"
           Goal == \/ Quiet
                   \/ \E p \in Pid, m \in Mutex : LockAtOnce(p, m)
                   \/ \E p \in Pid, m \in Mutex : Lock(p, m) /\ LockWaits(p, m)
                   \/ \E p \in Pid, R \in SUBSET Mutex : Hands(p, R)
<1>1. ASSUME NEW p \in Pid,
             \/ GhostShell(p) \/ Tick(p) \/ LockReturn(p) \/ ResumeParent(p)
             \/ \E q \in Pid : Spawn(p, q)
      PROVE  Quiet
  BY <1>1, NobodyNewWaits
<1>2. ASSUME NEW p \in Pid, Finish(p)
      PROVE  \E R \in SUBSET Mutex : Hands(p, R)
  <2> DEFINE R == {m \in Mutex : mutex[m].owner = p}
  <2>1. Hands(p, R)
    BY <1>2, FinishHands
  <2>2. R \in SUBSET Mutex
    OBVIOUS
  <2> HIDE DEF R, Hands
  <2> QED BY <2>1, <2>2
<1>3. ASSUME NEW p \in Pid, NEW m \in Mutex, Unlock(p, m)
      PROVE  \E R \in SUBSET Mutex : Hands(p, R)
  <2>1. Hands(p, {m})
    BY <1>3, UnlockHands
  <2>2. {m} \in SUBSET Mutex
    OBVIOUS
  <2> HIDE DEF Hands
  <2> QED BY <2>1, <2>2
<1> HIDE DEF Quiet, Hands
<1>4. ASSUME NEW p \in Pid, Exit(p) PROVE Goal
  BY <1>2, <1>4 DEF Exit
<1>5. ASSUME NEW p \in Pid, NEW q \in Pid, Kill(p, q) PROVE Goal
  BY <1>2, <1>5 DEF Kill
<1>6. ASSUME NEW p \in Pid, NEW m \in Mutex, Lock(p, m) PROVE Goal
  BY <1>6 DEF Lock
<1>7. ASSUME NEW p \in Pid, NEW m \in Mutex, Unlock(p, m) PROVE Goal
  BY <1>3, <1>7
<1>8. Goal
  BY <1>1, <1>4, <1>5, <1>6, <1>7 DEF Next
<1> QED BY <1>8 DEF Quiet, Hands

(* QInv is inductive as long as few enough processes are alive. *)
LEMMA QInvStep ==
  ASSUME Disciplined, IInv, QInv, Few, [Next]_vars
  PROVE  QInv'
<1>1. CASE UNCHANGED vars
  BY <1>1, QInvKept DEF vars, Waiting
<1>2. CASE Next
  <2>1. CASE /\ UNCHANGED mutex
             /\ \A q \in Pid : Waiting(q)' => Waiting(q) /\ target'[q] = target[q]
    BY <2>1, QInvKept
  <2>2. CASE \E p \in Pid, m \in Mutex : LockAtOnce(p, m)
    BY <2>2, LockAtOnceQueues
  <2>3. CASE \E p \in Pid, m \in Mutex : Lock(p, m) /\ LockWaits(p, m)
    BY <2>3, LockWaitsQueues
  <2>4. CASE \E p \in Pid, R \in SUBSET Mutex :
               /\ \A m \in R : mutex[m].owner = p
               /\ mutex' = Handed(R)
               /\ \A q \in Pid : Waiting(q)' =>
                    Waiting(q) /\ target'[q] = target[q] /\ Woken(R)[q] = "BLOCKED"
    BY <2>4, HandedQueues
  <2> QED BY <1>2, <2>1, <2>2, <2>3, <2>4, MutexSteps
<1> QED BY <1>1, <1>2

(* All lists start empty. *)
LEMMA InitQInv == Init => QInv
<1> SUFFICES ASSUME Init PROVE QInv
  OBVIOUS
<1>1. \A m \in Mutex : QueueOf(m) = EmptyQueue
  BY DEF Init, FreeMutex, QueueOf
<1>2. QueuesFilled
  BY <1>1, EmptyHolds DEF QueuesFilled
<1>3. WaitersQueued
  BY DEF WaitersQueued, Waiting, Init
<1>4. QueuedTaken
  BY <1>1 DEF QueuedTaken, EmptyQueue
<1> QED BY <1>2, <1>3, <1>4 DEF QInv

(* Both invariants hold while no list overflows. *)
LEMMA QueuesInductive ==
  ASSUME Disciplined
  PROVE  Spec /\ []Few => [](IInv /\ QInv)
<1>1. IInv /\ QInv /\ Few /\ [Next]_vars => IInv' /\ QInv'
  BY IInvStep, QInvStep
<1> QED BY InitIInv, InitQInv, <1>1, PTL DEF Spec

(* A process blocked in mutex_lock stands in exactly one slot of the list   *)
(* of the mutex it asked for, and the mutex is taken, as long as no more    *)
(* than PROCESS_QUEUE_SIZE + 1 processes are alive: lockedQueue wraps round *)
(* its end without ever losing one or putting one in twice.                 *)
THEOREM NoLostWaiterHolds ==
  ASSUME Disciplined
  PROVE  Spec /\ []Few => []NoLostWaiter
<1>1. ASSUME IInv, QInv, NEW p \in Pid, Waiting(p)
      PROVE  /\ mutex[target[p]].value = 1
             /\ \E i \in Slots : \A j \in Slots :
                  mutex[target[p]].queue.slot[j] = p <=> j = i
  <2>1. target[p] \in Mutex /\ p # NoPid
    BY <1>1, QueueAssumption DEF IInv, TypeOK, Waiting
  <2>2. PICK i \in Slots : QueueOf(target[p]).slot[i] = p
    BY <1>1 DEF QInv, WaitersQueued
  <2>3. mutex[target[p]].value = 1
    BY <1>1, <2>1, <2>2 DEF QInv, QueuedTaken
  <2>4. \A j \in Slots : QueueOf(target[p]).slot[j] = p <=> j = i
    BY <1>1, <2>1, <2>2 DEF IInv, QueuedOnce, QueueOf
  <2> QED BY <2>3, <2>4 DEF QueueOf
<1>2. IInv /\ QInv => NoLostWaiter
  BY <1>1 DEF NoLostWaiter
<1> QED BY QueuesInductive, <1>2, PTL

-----------------------------------------------------------------------------
(* The refinement of FifoLock *)

Holder == [m \in Mutex |-> mutex[m].owner]

Line == [m \in Mutex |-> LineOf(mutex[m].queue)]

(* A free mutex is acquired; one that the caller has already stays so. *)
LEMMA LockAtOnceInOrder ==
  ASSUME IInv, NEW p \in Pid, NEW m \in Mutex, LockAtOnce(p, m)
  PROVE  Fifo!Acquire(p, m) \/ UNCHANGED <<Holder, Line>>
<1>1. mutex \in [Mutex -> MutexStruct] /\ ValueOwner
  BY DEF IInv, TypeOK
<1>2. CASE UNCHANGED mutex
  BY <1>2 DEF Holder, Line
<1>3. CASE /\ mutex[m].value = 0
           /\ mutex' = [mutex EXCEPT ![m].value = 1, ![m].owner = p]
  <2>1. mutex[m].owner = NoPid
    BY <1>1, <1>3 DEF ValueOwner
  <2>2. /\ \A n \in Mutex : mutex'[n].queue = mutex[n].queue
        /\ \A n \in Mutex : mutex'[n].owner = IF n = m THEN p ELSE mutex[n].owner
    BY <1>1, <1>3 DEF MutexStruct
  <2>3. Holder' = [Holder EXCEPT ![m] = p]
    BY <2>2 DEF Holder
  <2>4. Line' = Line
    BY <2>2 DEF Line
  <2> QED BY <2>1, <2>3, <2>4 DEF Fifo!Acquire, Holder, Line
<1> QED BY <1>2, <1>3 DEF LockAtOnce

(* Who waits joins the line of the mutex, and stood in none. *)
LEMMA LockWaitsInOrder ==
  ASSUME IInv, QInv, Few, NEW p \in Pid, NEW m \in Mutex, Lock(p, m), LockWaits(p, m)
  PROVE  Fifo!Join(p, m)
<1>1. mutex \in [Mutex -> MutexStruct] /\ ValueOwner /\ States
  BY DEF IInv, TypeOK
<1>2. PICK n : Holds(QueueOf(m), n)
  BY DEF QInv, QueuesFilled
<1>3. /\ n < PROCESS_QUEUE_SIZE /\ p \notin Members(QueueOf(m))
      /\ Running(p, "user") /\ QueueOf(m) \in Queue /\ NoneTwice(QueueOf(m))
  BY <1>2, RoomToQueue, QueueFacts
<1>4. LineOf(Push(QueueOf(m), p)) = Append(LineOf(QueueOf(m)), p)
  BY <1>2, <1>3, PushLine
<1>5. /\ \A k \in Mutex : mutex'[k].owner = mutex[k].owner
      /\ mutex'[m].queue = Push(QueueOf(m), p)
      /\ \A k \in Mutex : k # m => mutex'[k] = mutex[k]
  BY <1>1 DEF LockWaits, MutexStruct, QueueOf
<1>6. Holder' = Holder
  BY <1>5 DEF Holder
<1>7. Line' = [Line EXCEPT ![m] = Append(@, p)]
  <2>1. \A k \in Mutex : Line'[k] = IF k = m THEN Append(Line[m], p) ELSE Line[k]
    BY <1>4, <1>5 DEF Line, QueueOf
  <2>2. DOMAIN Line = Mutex /\ DOMAIN Line' = Mutex
    BY DEF Line
  <2>3. Line = [k \in Mutex |-> Line[k]] /\ Line' = [k \in Mutex |-> Line'[k]]
    BY DEF Line
  <2> HIDE DEF Line
  <2> QED BY <2>1, <2>2, <2>3
<1>8. Holder[m] \notin {NoPid, p}
  BY <1>1 DEF LockWaits, ValueOwner, Holder
<1>9. ASSUME NEW k \in Mutex, NEW i \in DOMAIN Line[k], Line[k][i] = p
      PROVE  FALSE
  <2>1. PICK l : Holds(QueueOf(k), l)
    BY DEF QInv, QueuesFilled
  <2>2. /\ LineOf(QueueOf(k)) \in Seq(Pid) /\ Len(LineOf(QueueOf(k))) = l
        /\ \A j \in 1 .. l : LineOf(QueueOf(k))[j] = QueueOf(k).slot[At(QueueOf(k), j - 1)]
    BY <2>1, QueueFacts, LineHolds
  <2>3. Line[k] = LineOf(QueueOf(k))
    BY DEF Line, QueueOf
  <2>4. i \in 1 .. l
    BY <1>9, <2>2, <2>3
  <2>5. l \in 0 .. PROCESS_QUEUE_SIZE /\ PROCESS_QUEUE_SIZE \in Nat \ {0}
    BY <2>1, QueueAssumption DEF Holds
  <2>6. i - 1 \in 0 .. PROCESS_QUEUE_SIZE
    BY <2>4, <2>5
  <2>7. At(QueueOf(k), i - 1) \in Slots
    BY <2>6, AtIs, QueueFacts
  <2>8. QueueOf(k).slot[At(QueueOf(k), i - 1)] = p /\ p # NoPid
    BY <1>9, <2>2, <2>3, <2>4, QueueAssumption
  <2>9. Waiting(p)
    BY <2>7, <2>8, QueueFacts DEF Members
  <2> QED BY <1>1, <1>3, <2>9 DEF Waiting, Running
<1>10. \A k \in Mutex : ~ Fifo!InLine(p, k)
  BY <1>9 DEF Fifo!InLine, Line
<1> QED BY <1>6, <1>7, <1>8, <1>10 DEF Fifo!Join, Holder, Line

(* Mutexes handed on are released: each goes to the head of its line. *)
LEMMA HandedInOrder ==
  ASSUME IInv, QInv, NEW p \in Pid, NEW R \in SUBSET Mutex,
         \A m \in R : mutex[m].owner = p, mutex' = Handed(R)
  PROVE  Fifo!Release(p, R)
<1>1. ASSUME NEW m \in R
      PROVE  /\ Holder'[m] = IF Line[m] = <<>> THEN NoPid ELSE Head(Line[m])
             /\ Line'[m] = IF Line[m] = <<>> THEN Line[m] ELSE Tail(Line[m])
  <2>1. PICK n : Holds(QueueOf(m), n)
    BY DEF QInv, QueuesFilled
  <2>2. mutex'[m] = HandOff(mutex[m])
    BY DEF Handed
  <2>3. Line[m] = LineOf(QueueOf(m)) /\ Line'[m] = LineOf(mutex'[m].queue)
    BY DEF Line, QueueOf
  <2>4. Holder'[m] = mutex'[m].owner
    BY DEF Holder
  <2> QED BY <2>1, <2>2, <2>3, <2>4, HandOffLine
<1>2. ASSUME NEW m \in Mutex \ R
      PROVE  Holder'[m] = Holder[m] /\ Line'[m] = Line[m]
  BY DEF Handed, Holder, Line
<1>3. /\ Holder' = [m \in Mutex |-> Holder'[m]]
      /\ Line' = [m \in Mutex |-> Line'[m]]
  BY DEF Holder, Line
<1>4. \A m \in R : Holder[m] = p
  BY DEF Holder
<1> HIDE DEF Holder, Line
<1>5. Holder' = [m \in Mutex |->
         IF m \notin R THEN Holder[m]
         ELSE IF Line[m] = <<>> THEN NoPid ELSE Head(Line[m])]
  BY <1>1, <1>2, <1>3
<1>6. Line' = [m \in Mutex |->
         IF m \in R /\ Line[m] # <<>> THEN Tail(Line[m]) ELSE Line[m]]
  BY <1>1, <1>2, <1>3
<1> QED BY <1>4, <1>5, <1>6 DEF Fifo!Release, Holder, Line

(* The kernel's mutexes implement FifoLock: with any number of mutexes each *)
(* is handed on in the order of arrival, and straight from one owner to the *)
(* next, as long as no more than PROCESS_QUEUE_SIZE + 1 processes are alive.*)
THEOREM ServesInOrderHolds ==
  ASSUME Disciplined
  PROVE  Spec /\ []Few => ServesInOrder
<1>1. Init => Fifo!Init
  <2> SUFFICES ASSUME Init PROVE Fifo!Init
    OBVIOUS
  <2>1. \A m \in Mutex : mutex[m].owner = NoPid /\ mutex[m].queue = EmptyQueue
    BY DEF Init, FreeMutex
  <2> QED BY <2>1, EmptyLine DEF Fifo!Init
<1>2. IInv /\ QInv /\ Few /\ [Next]_vars => [Fifo!Next]_(Fifo!vars)
  <2> SUFFICES ASSUME IInv, QInv, Few, [Next]_vars
               PROVE  Fifo!Next \/ UNCHANGED <<Holder, Line>>
    BY DEF Fifo!vars, Holder, Line
  <2>1. CASE UNCHANGED mutex
    BY <2>1 DEF Holder, Line
  <2>2. CASE \E p \in Pid, m \in Mutex : LockAtOnce(p, m)
    BY <2>2, LockAtOnceInOrder DEF Fifo!Next
  <2>3. CASE \E p \in Pid, m \in Mutex : Lock(p, m) /\ LockWaits(p, m)
    BY <2>3, LockWaitsInOrder DEF Fifo!Next
  <2>4. CASE \E p \in Pid, R \in SUBSET Mutex :
               (\A m \in R : mutex[m].owner = p) /\ mutex' = Handed(R)
    BY <2>4, HandedInOrder DEF Fifo!Next
  <2>5. CASE UNCHANGED vars
    BY <2>1, <2>5 DEF vars
  <2>6. CASE Next
    BY <2>1, <2>2, <2>3, <2>4, <2>6, MutexSteps
  <2> QED BY <2>5, <2>6
<1> QED BY QueuesInductive, <1>1, <1>2, PTL DEF Spec, ServesInOrder, Fifo!Spec

=============================================================================
