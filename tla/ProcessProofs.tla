--------------------------- MODULE ProcessProofs ---------------------------
(***************************************************************************)
(* What holds of process_mutex and of waiting parents with the timer       *)
(* striking between any two writes of wrapper_process, and what holds of   *)
(* the whole process table without, for every size of the table and of the *)
(* queue.                                                                  *)
(***************************************************************************)
EXTENDS Process, WaitQueueProofs, NaturalsInduction, WellFoundedInduction

-----------------------------------------------------------------------------
(* The next free slot *)

(* A set of natural numbers has a smallest. *)
LEMMA Smallest ==
  ASSUME NEW S \in SUBSET Nat, S # {}
  PROVE  \E n \in S : \A m \in S : n <= m
<1> DEFINE R == OpToRel(<, Nat)
<1>1. IsWellFoundedOn(R, Nat)
  BY NatLessThanWellFounded
<1>2. \A m, n \in Nat : m < n => <<m, n>> \in R
  BY DEF OpToRel
<1> HIDE DEF R
<1>3. PICK n \in S : \A m \in S : <<m, n>> \notin R
  BY <1>1, WFMin
<1>4. \A m \in S : m \in Nat /\ n \in Nat /\ ~ (m < n)
  BY <1>2, <1>3
<1> QED BY <1>4

(* process_pointer moves on to a free slot, if there is one. *)
LEMMA NextFreeSlot ==
  ASSUME NEW st, NEW i \in Pid, FreeSlots(st) # {}
  PROVE  NextFree(st, i) \in FreeSlots(st)
<1> DEFINE D == {Distance(i, j) : j \in FreeSlots(st)}
<1>1. FreeSlots(st) \subseteq Pid
  BY DEF FreeSlots
<1>2. \A j \in Pid : Distance(i, j) \in Nat
  <2> SUFFICES ASSUME NEW j \in Pid PROVE Distance(i, j) \in Nat
    OBVIOUS
  <2>1. /\ MAX_PROCESS_COUNT \in Nat \ {0, 1}
        /\ j - i - 1 \in Int
    BY ProcessAssumption
  <2>2. (j - i - 1) % MAX_PROCESS_COUNT \in Nat
    BY <2>1
  <2> QED BY <2>2 DEF Distance
<1>3. D \in SUBSET Nat /\ D # {}
  BY <1>1, <1>2
<1>4. PICK n \in D : \A m \in D : n <= m
  BY <1>3, Smallest
<1>5. PICK j \in FreeSlots(st) : n = Distance(i, j)
  BY <1>4
<1>6. \A k \in FreeSlots(st) : Distance(i, j) <= Distance(i, k)
  BY <1>4, <1>5
<1> QED BY <1>5, <1>6 DEF NextFree

(* The table has a free slot left when the pointer's slot was taken. *)
LEMMA SlotLeft ==
  ASSUME TypeOK, SlotsLeft
  PROVE  FreeSlots([state EXCEPT ![pointer] = "READY"]) # {}
<1> DEFINE F == FreeSlots(state)
<1>1. IsFiniteSet(Pid)
  BY FS_Interval, ProcessAssumption
<1>2. IsFiniteSet(F)
  BY <1>1, FS_Subset DEF FreeSlots
<1>3. F # {} /\ F # {pointer}
  BY <1>2, FS_EmptySet, FS_Singleton DEF SlotsLeft
<1>4. PICK q \in F : q # pointer
  BY <1>3
<1>5. q \in FreeSlots([state EXCEPT ![pointer] = "READY"])
  BY <1>4 DEF FreeSlots, TypeOK
<1> QED BY <1>5

-----------------------------------------------------------------------------
(* Types *)

(* The states after a wake-up: nobody who has finished is woken. *)
LEMMA ResumeStates ==
  ASSUME NEW st \in [Pid -> {"READY", "BLOCKED", "FINISHED"}], NEW q
  PROVE  /\ Resume(st, q) \in [Pid -> {"READY", "BLOCKED", "FINISHED"}]
         /\ \A p \in Pid : Resume(st, q)[p] =
              IF p = q /\ st[p] # "FINISHED" THEN "READY" ELSE st[p]
BY DEF Resume

(* The process that the scheduler picks is READY. *)
LEMMA RescheduleType ==
  ASSUME NEW st, Reschedule(st)
  PROVE  /\ current' \in PidOrNone
         /\ current' \in Pid => st[current'] = "READY"
BY QueueAssumption DEF Reschedule, PidOrNone

(* mutex_unlock leaves process_mutex well formed. *)
LEMMA UnlockedFields ==
  ASSUME NEW p \in Pid, NEW x \in MutexStruct
  PROVE  /\ Unlocked(p, x) \in MutexStruct
         /\ Unlocked(p, x).owner \in PidOrNone
         /\ x.owner # p => Unlocked(p, x) = x
         /\ x.owner = p => Unlocked(p, x) = HandOff(x)
BY HandOffFields DEF Unlocked, MutexStruct

(* What mutex_lock in a system call goes on with. *)
LEMMA Entered ==
  ASSUME TypeOK, NEW p \in Pid,
         NEW x \in {guard, [guard EXCEPT !.value = 1, !.owner = p]},
         Enter(p, x)
  PROVE  /\ x \in MutexStruct
         /\ x.owner = p
         /\ x.queue = guard.queue
         /\ x.value = IF guard.owner = p THEN guard.value ELSE 1
         /\ guard.owner # p => guard.value = 0
BY DEF Enter, TypeOK, MutexStruct, PidOrNone

\* The values of a state variable.
States == {"READY", "BLOCKED", "FINISHED"}

(* mark_process_as_finished inside the danger zone: one process is finished, *)
(* others at most woken, and process_mutex stays as it is unless one of the  *)
(* two owns it.                                                              *)
LEMMA KillOffFacts ==
  ASSUME TypeOK, NEW p \in Pid, NEW q \in Pid, NEW x \in MutexStruct,
         KillOff(p, q, x)
  PROVE  /\ guard' \in MutexStruct
         /\ x.owner \notin {p, q} => guard' = x
         /\ x.value = 1 \/ x.owner = NoPid =>
              guard'.value = 1 \/ guard'.owner = NoPid
         /\ state' \in [Pid -> States]
         /\ state'[q] = "FINISHED"
         /\ \A r \in Pid : r # q =>
              /\ state'[r] = "FINISHED" <=> state[r] = "FINISHED"
              /\ state'[r] \in {state[r], "READY"}
         /\ pc' = [pc EXCEPT ![p] = "user", ![q] = Gone]
         /\ current' \in PidOrNone
         /\ p # q => current' = current
         /\ arg' = [arg EXCEPT ![p] = NoPid]
         /\ overkill' \in 0 .. MaxOverkill
         /\ count' = count - 1
         /\ UNCHANGED <<parent, pointer>>
<1> DEFINE freed == IF x.owner = q THEN HandOff(x) ELSE x
           done == Unlocked(p, freed)
           st1 == IF x.owner = q THEN Resume(state, freed.owner) ELSE state
           st2 == [st1 EXCEPT ![q] = "FINISHED"]
<1>1. freed \in MutexStruct
  BY HandOffFields
<1>2. done \in MutexStruct
  BY <1>1, UnlockedFields
<1>3. x.value = 1 \/ x.owner = NoPid => freed.value = 1 \/ freed.owner = NoPid
  BY HandOffFields, QueueAssumption
<1>4. freed.value = 1 \/ freed.owner = NoPid => done.value = 1 \/ done.owner = NoPid
  <2> HIDE DEF freed
  <2> QED BY <1>1, UnlockedFields, HandOffFields, QueueAssumption
<1>5. x.owner \notin {p, q} => done = x
  BY UnlockedFields
<1>6. st1 \in [Pid -> States] /\ \A r \in Pid :
         /\ st1[r] = "FINISHED" <=> state[r] = "FINISHED"
         /\ st1[r] \in {state[r], "READY"}
  <2> HIDE DEF freed
  <2> QED BY ResumeStates DEF TypeOK, States
<1>7. st2 \in [Pid -> States] /\ st2[q] = "FINISHED" /\ \A r \in Pid : r # q =>
         /\ st2[r] = "FINISHED" <=> state[r] = "FINISHED"
         /\ st2[r] \in {state[r], "READY"}
  <2> HIDE DEF st1
  <2> QED BY <1>6 DEF States
<1>8. /\ guard' = done
      /\ state' = IF freed.owner = p THEN Resume(st2, done.owner) ELSE st2
      /\ pc' = [pc EXCEPT ![p] = "user", ![q] = Gone]
      /\ arg' = [arg EXCEPT ![p] = NoPid]
      /\ count' = count - 1
      /\ UNCHANGED <<parent, pointer>>
      /\ overkill' = overkill + (IF Live(q) THEN 0 ELSE 1)
      /\ overkill' <= MaxOverkill
  BY DEF KillOff
<1>9. overkill' \in 0 .. MaxOverkill
  BY <1>8, ProcessAssumption DEF TypeOK
<1>10. current' \in PidOrNone /\ (p # q => current' = current)
  BY RescheduleType DEF KillOff, TypeOK
<1>11. /\ state' \in [Pid -> States]
       /\ state'[q] = "FINISHED"
       /\ \A r \in Pid : r # q =>
            /\ state'[r] = "FINISHED" <=> state[r] = "FINISHED"
            /\ state'[r] \in {state[r], "READY"}
  <2> HIDE DEF freed, done, st2
  <2>1. CASE freed.owner = p
    <3>1. state' = Resume(st2, done.owner)
      BY <1>8, <2>1
    <3> QED BY <3>1, <1>7, ResumeStates DEF States
  <2>2. CASE freed.owner # p
    BY <1>7, <1>8, <2>2
  <2> QED BY <2>1, <2>2
<1> HIDE DEF freed, done, st1, st2
<1> QED BY <1>2, <1>3, <1>4, <1>5, <1>8, <1>9, <1>10, <1>11

(* create_process once process_mutex is held, or believed to be: the slot at *)
(* process_pointer comes to life, and the pointer goes on to a free slot.    *)
LEMMA TakeSlotFacts ==
  ASSUME TypeOK, NEW p \in Pid, NEW type, NEW x \in MutexStruct,
         TakeSlot(p, type, x), state[p] # "FINISHED"
  PROVE  /\ guard' \in MutexStruct
         /\ x.owner # p => guard' = x
         /\ x.value = 1 \/ x.owner = NoPid =>
              guard'.value = 1 \/ guard'.owner = NoPid
         /\ state' \in [Pid -> States]
         /\ state'[pointer] # "FINISHED"
         /\ \A r \in Pid : r # pointer =>
              (state'[r] = "FINISHED" <=> state[r] = "FINISHED")
         /\ \A r \in Pid : r # pointer /\ r # p => state'[r] \in {state[r], "READY"}
         /\ pc' \in [Pid -> SysPcs \cup WrapperPcs \cup {Gone}]
         /\ p # pointer => pc'[pointer] = "user"
         /\ pc'[p] \in {"user", "child"}
         /\ \A r \in Pid : r # pointer /\ r # p => pc'[r] = pc[r]
         /\ current' \in PidOrNone
         /\ parent' = [parent EXCEPT ![pointer] = p]
         /\ arg' = [arg EXCEPT ![pointer] = NoPid]
         /\ count' = count + 1 /\ count' <= MAX_PROCESS_COUNT
         /\ overkill' = overkill
         /\ pointer' \in Pid /\ pointer' # pointer
         /\ state[pointer'] = "FINISHED"
<1> DEFINE taken == [state EXCEPT ![pointer] = "READY"]
           woken == IF x.owner = p THEN Resume(taken, Front(x.queue)) ELSE taken
<1>1. taken \in [Pid -> States] /\ pointer \in Pid
  BY DEF TypeOK, States
<1>2. woken \in [Pid -> States] /\ woken[pointer] # "FINISHED" /\ \A r \in Pid :
         r # pointer => /\ woken[r] = "FINISHED" <=> state[r] = "FINISHED"
                        /\ woken[r] \in {state[r], "READY"}
  <2>1. \A r \in Pid : taken[r] = IF r = pointer THEN "READY" ELSE state[r]
    BY DEF TypeOK
  <2> HIDE DEF taken
  <2>2. CASE x.owner = p
    <3>1. woken = Resume(taken, Front(x.queue))
      BY <2>2
    <3> HIDE DEF woken
    <3> QED BY <3>1, <2>1, <1>1, ResumeStates DEF States
  <2>3. CASE x.owner # p
    BY <2>1, <2>3, <1>1
  <2> QED BY <2>2, <2>3
<1>3. SlotsLeft /\ pointer' = NextFree(taken, pointer) /\ guard' = Unlocked(p, x)
  BY DEF TakeSlot
<1>4. pointer' \in FreeSlots(taken)
  BY <1>1, <1>3, NextFreeSlot, SlotLeft
<1>5. pointer' \in Pid /\ pointer' # pointer /\ state[pointer'] = "FINISHED"
  BY <1>4 DEF FreeSlots, TypeOK
<1>6. /\ guard' \in MutexStruct
      /\ x.owner # p => guard' = x
      /\ x.value = 1 \/ x.owner = NoPid => guard'.value = 1 \/ guard'.owner = NoPid
  BY <1>3, UnlockedFields, HandOffFields, QueueAssumption
<1>7. /\ parent' = [parent EXCEPT ![pointer] = p]
      /\ arg' = [arg EXCEPT ![pointer] = NoPid]
      /\ count' = count + 1 /\ count < MAX_PROCESS_COUNT
      /\ overkill' = overkill
  BY DEF TakeSlot
<1>8. count' <= MAX_PROCESS_COUNT
  BY <1>7, ProcessAssumption DEF TypeOK
<1>9. \/ /\ state' = [woken EXCEPT ![p] = "BLOCKED"]
         /\ pc' = [pc EXCEPT ![pointer] = "user", ![p] = "child"]
         /\ Reschedule(state')
      \/ /\ state' = woken
         /\ pc' = [pc EXCEPT ![pointer] = "user", ![p] = "user"]
         /\ UNCHANGED current
  BY DEF TakeSlot
<1> HIDE DEF taken, woken
<1>10. current' \in PidOrNone
  BY <1>9, RescheduleType DEF TypeOK
<1>11. /\ pc' \in [Pid -> SysPcs \cup WrapperPcs \cup {Gone}]
       /\ p # pointer => pc'[pointer] = "user"
       /\ pc'[p] \in {"user", "child"}
       /\ \A r \in Pid : r # pointer /\ r # p => pc'[r] = pc[r]
  BY <1>9, <1>1 DEF TypeOK, SysPcs
<1>12. /\ state' \in [Pid -> States]
       /\ state'[pointer] # "FINISHED"
       /\ \A r \in Pid : r # pointer =>
            (state'[r] = "FINISHED" <=> state[r] = "FINISHED")
       /\ \A r \in Pid : r # pointer /\ r # p => state'[r] \in {state[r], "READY"}
  BY <1>9, <1>2, <1>1 DEF States
<1> QED BY <1>5, <1>6, <1>7, <1>8, <1>10, <1>11, <1>12

-----------------------------------------------------------------------------
(* The places of the processes *)

\* Only a slot that a process is on its way out of, or has left, is FINISHED;
\* nobody is preempted there and comes back; process_pointer stands at a slot
\* that nobody is in; who is to kill or wake somebody knows whom.
Whereabouts ==
  /\ \A p \in Pid : ~ Live(p) => pc[p] \in {Gone, "count", "unlock"}
  /\ \A p \in Pid : pc[p] \in {"count", "unlock"} => current = p /\ ~ Live(p)
  /\ pc[pointer] = Gone
  /\ \A p \in Pid : pc[p] \in {"kill", "wake"} => arg[p] \in Pid

(* The first process after all have ended: the pointer's slot comes to life. *)
LEMMA GhostShellFacts ==
  ASSUME TypeOK, GhostShell
  PROVE  /\ state' = [state EXCEPT ![pointer] = "READY"]
         /\ pc' = [pc EXCEPT ![pointer] = "user"]
         /\ current' = pointer
         /\ guard' = HandOff(guard) /\ guard' \in MutexStruct
         /\ parent' = [parent EXCEPT ![pointer] = NoPid]
         /\ arg' = [arg EXCEPT ![pointer] = NoPid]
         /\ count' = count + 1 /\ count' <= MAX_PROCESS_COUNT
         /\ overkill' = overkill
         /\ pointer' \in Pid /\ pointer' # pointer
         /\ \A q \in Pid : state[q] = "FINISHED"
<1>1. \A q \in Pid : state[q] = "FINISHED"
  BY DEF GhostShell, Live
<1>2. 0 \in Pid /\ 1 \in Pid
  BY ProcessAssumption
<1>3. PICK q \in Pid : q # pointer
  BY <1>2
<1>4. q \in FreeSlots(state')
  BY <1>1, <1>3 DEF FreeSlots, GhostShell, TypeOK
<1>5. pointer' = NextFree(state', pointer) /\ pointer \in Pid
  BY DEF GhostShell, TypeOK
<1>6. pointer' \in FreeSlots(state')
  BY <1>4, <1>5, NextFreeSlot
<1>7. pointer' \in Pid /\ pointer' # pointer
  BY <1>6 DEF FreeSlots, GhostShell, TypeOK
<1>8. guard' \in MutexStruct
  BY HandOffFields DEF GhostShell, TypeOK
<1> QED BY <1>1, <1>7, <1>8, ProcessAssumption DEF GhostShell, TypeOK

(* A push into the queue of process_mutex, in one go or in two writes. *)
LEMMA QueueWrites ==
  ASSUME TypeOK, NEW p \in Pid
  PROVE  /\ [guard EXCEPT !.queue = Push(@, p)] \in MutexStruct
         /\ [guard EXCEPT !.queue.slot[guard.queue.free] = p] \in MutexStruct
         /\ [guard EXCEPT !.queue.free = Advance(@)] \in MutexStruct
         /\ [guard EXCEPT !.queue = Drop(@)] \in MutexStruct
         /\ Front(guard.queue) \in PidOrNone
<1>1. guard \in MutexStruct /\ guard.queue \in Queue /\ p \in PidOrNone
  BY DEF TypeOK, MutexStruct, PidOrNone
<1>2. Push(guard.queue, p) \in Queue /\ Drop(guard.queue) \in Queue
  BY <1>1, PushSlots, DropSlots
<1>3. Advance(guard.queue.free) \in Slots
  BY <1>1, AdvanceType DEF Queue
<1>4. Front(guard.queue) \in PidOrNone
  BY <1>1 DEF Queue, Front
<1>5. [guard EXCEPT !.queue.slot[guard.queue.free] = p] \in MutexStruct
  BY <1>1 DEF MutexStruct, Queue
<1>6. [guard EXCEPT !.queue.free = Advance(@)] \in MutexStruct
  BY <1>1, <1>3 DEF MutexStruct, Queue
<1> QED BY <1>1, <1>2, <1>4, <1>5, <1>6 DEF MutexStruct

(* No step leaves the types. *)
LEMMA TypeStep ==
  ASSUME TypeOK, Whereabouts, [Next]_vars
  PROVE  TypeOK'
<1> USE DEF Running, Goto, Gone
<1>1. CASE UNCHANGED vars
  BY <1>1 DEF vars, TypeOK
<1>2. CASE GhostShell
  <2>1. /\ state' \in [Pid -> {"READY", "BLOCKED", "FINISHED"}]
        /\ parent' \in [Pid -> PidOrNone] /\ arg' \in [Pid -> PidOrNone]
        /\ pc' \in [Pid -> SysPcs \cup WrapperPcs \cup {Gone}]
    BY <1>2, GhostShellFacts DEF TypeOK, PidOrNone, SysPcs
  <2>2. /\ pointer' \in Pid /\ current' \in PidOrNone /\ guard' \in MutexStruct
        /\ overkill' \in 0 .. MaxOverkill /\ count' \in Int
        /\ count' <= MAX_PROCESS_COUNT
    BY <1>2, GhostShellFacts DEF TypeOK, PidOrNone
  <2> QED BY <2>1, <2>2 DEF TypeOK
<1>3. ASSUME NEW p \in Pid, Tick(p) PROVE TypeOK'
  BY <1>3 DEF Tick, TypeOK, PidOrNone
<1>4. ASSUME NEW p \in Pid, NEW type, NEW x \in MutexStruct,
             TakeSlot(p, type, x), pc[p] \in {"user", "createFG", "createBG"}
      PROVE  TypeOK'
  <2>1. state[p] # "FINISHED"
    BY <1>4 DEF Whereabouts, Live
  <2> QED BY <1>4, <2>1, TakeSlotFacts DEF TypeOK, PidOrNone, States
<1>5. ASSUME NEW p \in Pid, NEW at \in SysPcs, Block(p, at), NEW q \in PidOrNone,
             arg' = [arg EXCEPT ![p] = q] \/ arg' = arg,
             UNCHANGED <<parent, pointer, count, overkill>>
      PROVE  TypeOK'
  BY <1>5, QueueWrites, RescheduleType DEF Block, TypeOK
<1>6. ASSUME NEW p \in Pid, NEW type \in {"FOREGROUND", "BACKGROUND"}, Create(p, type)
      PROVE  TypeOK'
  <2>1. CASE \E x \in {guard, [guard EXCEPT !.value = 1, !.owner = p]} :
               Enter(p, x) /\ TakeSlot(p, type, x)
    BY <1>4, <1>6, <2>1, Entered DEF Create
  <2>2. CASE /\ Block(p, IF type = "FOREGROUND" THEN "createFG" ELSE "createBG")
             /\ UNCHANGED <<parent, pointer, count, arg, overkill>>
    BY <1>5, <2>2 DEF SysPcs, PidOrNone
  <2> QED BY <1>6, <2>1, <2>2 DEF Create
<1>7. ASSUME NEW p \in Pid, CreateResumed(p) PROVE TypeOK'
  BY <1>4, <1>7 DEF CreateResumed, TypeOK
<1>8. ASSUME NEW p \in Pid, ChildReturned(p) PROVE TypeOK'
  BY <1>8 DEF ChildReturned, TypeOK, SysPcs
<1>9. ASSUME NEW p \in Pid, NEW q \in Pid, NEW x \in MutexStruct, KillOff(p, q, x)
      PROVE  TypeOK'
  <2>1. /\ state' \in [Pid -> {"READY", "BLOCKED", "FINISHED"}]
        /\ parent' \in [Pid -> PidOrNone] /\ arg' \in [Pid -> PidOrNone]
        /\ pc' \in [Pid -> SysPcs \cup WrapperPcs \cup {Gone}]
    BY <1>9, KillOffFacts DEF TypeOK, PidOrNone, SysPcs, States
  <2>2. /\ pointer' \in Pid /\ current' \in PidOrNone /\ guard' \in MutexStruct
        /\ overkill' \in 0 .. MaxOverkill
    BY <1>9, KillOffFacts DEF TypeOK
  <2>3. count' \in Int /\ count' <= MAX_PROCESS_COUNT
    BY <1>9, KillOffFacts, ProcessAssumption DEF TypeOK
  <2> QED BY <2>1, <2>2, <2>3 DEF TypeOK
<1>10. ASSUME NEW p \in Pid, NEW q \in Pid, Kill(p, q) PROVE TypeOK'
  <2>1. CASE \E x \in {guard, [guard EXCEPT !.value = 1, !.owner = p]} :
               Enter(p, x) /\ KillOff(p, q, x)
    BY <1>9, <2>1, Entered
  <2>2. CASE /\ Block(p, "kill")
             /\ arg' = [arg EXCEPT ![p] = q]
             /\ UNCHANGED <<parent, pointer, count, overkill>>
    BY <1>5, <2>2 DEF SysPcs, PidOrNone
  <2> QED BY <1>10, <2>1, <2>2 DEF Kill
<1>11. ASSUME NEW p \in Pid, KillResumed(p) PROVE TypeOK'
  BY <1>9, <1>11 DEF KillResumed, TypeOK, Whereabouts
<1>12. ASSUME NEW p \in Pid, NEW from, NEW to \in WrapperPcs, NEW x \in MutexStruct,
              GuardStep(p, from, to, x)
       PROVE  TypeOK'
  BY <1>12 DEF GuardStep, TypeOK
<1>13. ASSUME NEW p \in Pid, Wrapper(p) PROVE TypeOK'
  <2>1. CASE Return(p) \/ Wake(p)
    BY <2>1 DEF Return, Wake, TypeOK, WrapperPcs, PidOrNone
  <2>2. CASE LockGuard(p)
    BY <2>2 DEF LockGuard, TypeOK, MutexStruct, WrapperPcs
  <2>3. CASE OwnGuard(p) \/ PushGuard(p) \/ AdvanceGuard(p)
    <3>1. [guard EXCEPT !.owner = p] \in MutexStruct
      BY DEF TypeOK, MutexStruct, PidOrNone
    <3> QED BY <1>12, <2>3, <3>1, QueueWrites
      DEF OwnGuard, PushGuard, AdvanceGuard, WrapperPcs
  <2>4. CASE GiveGuard(p) \/ Disown(p) \/ FreeGuard(p)
    <3>1. /\ [guard EXCEPT !.owner = arg[p]] \in MutexStruct
          /\ [guard EXCEPT !.owner = NoPid] \in MutexStruct
          /\ [guard EXCEPT !.value = 0] \in MutexStruct
      BY DEF TypeOK, MutexStruct, PidOrNone
    <3> QED BY <1>12, <2>4, <3>1 DEF GiveGuard, Disown, FreeGuard, WrapperPcs
  <2>5. CASE BlockSelf(p)
    BY <2>5, RescheduleType DEF BlockSelf, TypeOK, WrapperPcs
  <2>6. CASE Release(p)
    BY <2>6 DEF Release, TypeOK, WrapperPcs
  <2>7. CASE TakeFront(p)
    BY <2>7, QueueWrites DEF TakeFront, TypeOK, WrapperPcs
  <2>8. CASE Rouse(p)
    BY <2>8, ResumeStates DEF Rouse, TypeOK, WrapperPcs, PidOrNone
  <2>9. CASE FinishSelf(p)
    BY <2>9 DEF FinishSelf, TypeOK, WrapperPcs
  <2>10. CASE CountDown(p)
    <3>1. count' \in Int /\ count' <= MAX_PROCESS_COUNT
      BY <2>10, ProcessAssumption DEF CountDown, TypeOK
    <3> QED BY <2>10, <3>1 DEF CountDown, TypeOK, WrapperPcs
  <2>11. CASE UnlockGuard(p)
    BY <2>11, HandOffFields, ResumeStates, RescheduleType DEF UnlockGuard, TypeOK
  <2>12. CASE Dropped(p)
    BY <2>12, RescheduleType DEF Dropped, TypeOK
  <2> QED BY <1>13, <2>1, <2>2, <2>3, <2>4, <2>5, <2>6, <2>7, <2>8, <2>9, <2>10,
    <2>11, <2>12 DEF Wrapper
<1> QED BY <1>1, <1>2, <1>3, <1>6, <1>7, <1>8, <1>10, <1>11, <1>13 DEF Next

(* What a step of wrapper_process does to the places and to who is alive. *)
LEMMA WrapperFacts ==
  ASSUME TypeOK, Whereabouts, NEW p \in Pid, Wrapper(p)
  PROVE  /\ current = p
         /\ pc[p] \in {"user"} \cup WrapperPcs
         /\ pc' = [pc EXCEPT ![p] = pc'[p]]
         /\ pc'[p] \in WrapperPcs \cup {Gone}
         /\ pc'[p] \in {"count", "unlock"} => current' = p /\ state'[p] = "FINISHED"
         /\ pc'[p] = "wake" => arg'[p] \in Pid
         /\ pc'[p] # "wake" => \A r \in Pid : pc[r] = "kill" => arg'[r] = arg[r]
         /\ \A r \in Pid : r # p => arg'[r] = arg[r]
         /\ UNCHANGED pointer
         /\ \A r \in Pid : state'[r] = "FINISHED" =>
              \/ state[r] = "FINISHED" /\ (r = p => pc'[p] \in {Gone, "unlock"})
              \/ r = p /\ pc'[p] = "count"
<1> USE DEF Running, Goto, Gone, WrapperPcs, TypeOK
<1>1. CASE Return(p) \/ Wake(p)
  BY <1>1 DEF Return, Wake, Whereabouts, Live, PidOrNone
<1>2. CASE LockGuard(p) \/ OwnGuard(p) \/ PushGuard(p) \/ AdvanceGuard(p)
  BY <1>2 DEF LockGuard, OwnGuard, PushGuard, AdvanceGuard, GuardStep, Whereabouts, Live
<1>3. CASE BlockSelf(p) \/ Release(p) \/ TakeFront(p)
  BY <1>3 DEF BlockSelf, Release, TakeFront, Whereabouts, Live
<1>4. CASE GiveGuard(p) \/ Disown(p) \/ FreeGuard(p)
  BY <1>4 DEF GiveGuard, Disown, FreeGuard, GuardStep, Whereabouts, Live
<1>5. CASE Rouse(p)
  BY <1>5, ResumeStates DEF Rouse, Whereabouts, Live
<1>6. CASE FinishSelf(p) \/ CountDown(p)
  BY <1>6 DEF FinishSelf, CountDown, Whereabouts, Live
<1>7. CASE UnlockGuard(p) \/ Dropped(p)
  BY <1>7, ResumeStates DEF UnlockGuard, Dropped
<1> QED BY <1>1, <1>2, <1>3, <1>4, <1>5, <1>6, <1>7 DEF Wrapper

(* Nobody leaves the places. *)
LEMMA WhereaboutsStep ==
  ASSUME TypeOK, Whereabouts, [Next]_vars
  PROVE  Whereabouts'
<1> USE DEF Whereabouts, Live, Running, Goto, Gone
<1>1. CASE UNCHANGED vars
  BY <1>1 DEF vars
<1>2. CASE GhostShell
  <2>1. pointer \in Pid
    BY DEF TypeOK
  <2>2. current = NoPid
    BY <1>2 DEF GhostShell
  <2>3. \A r \in Pid : pc[r] = Gone
    BY <1>2, <2>2, GhostShellFacts, QueueAssumption
  <2> QED BY <1>2, <2>1, <2>3, GhostShellFacts DEF TypeOK
<1>3. ASSUME NEW p \in Pid, Tick(p) PROVE Whereabouts'
  BY <1>3 DEF Tick
<1>4. ASSUME NEW p \in Pid, NEW type, NEW x \in MutexStruct, current = p,
             TakeSlot(p, type, x), pc[p] \in {"user", "createFG", "createBG"}
      PROVE  Whereabouts'
  <2>1. state[p] # "FINISHED" /\ p # pointer /\ pointer \in Pid
    BY <1>4 DEF TypeOK
  <2>2. \A r \in Pid : pc[r] \notin {"count", "unlock"}
    BY <1>4
  <2> QED BY <1>4, <2>1, <2>2, TakeSlotFacts DEF TypeOK
<1>5. ASSUME NEW p \in Pid, NEW at \in {"createFG", "createBG", "kill"},
             Block(p, at), Running(p, "user"),
             \/ arg' = arg /\ at # "kill"
             \/ \E q \in Pid : arg' = [arg EXCEPT ![p] = q],
             UNCHANGED pointer
      PROVE  Whereabouts'
  BY <1>5, RescheduleType DEF Block, TypeOK
<1>6. ASSUME NEW p \in Pid, NEW type \in {"FOREGROUND", "BACKGROUND"}, Create(p, type)
      PROVE  Whereabouts'
  <2>1. CASE \E x \in {guard, [guard EXCEPT !.value = 1, !.owner = p]} :
               Enter(p, x) /\ TakeSlot(p, type, x)
    <3>1. PICK x \in {guard, [guard EXCEPT !.value = 1, !.owner = p]} :
                 Enter(p, x) /\ TakeSlot(p, type, x)
      BY <2>1
    <3>2. x \in MutexStruct
      BY <3>1, Entered
    <3> QED BY <3>1, <3>2, <1>4, <1>6 DEF Create
  <2>2. CASE Block(p, IF type = "FOREGROUND" THEN "createFG" ELSE "createBG")
             /\ UNCHANGED <<parent, pointer, count, arg, overkill>>
    BY <1>5, <1>6, <2>2 DEF Create
  <2> QED BY <1>6, <2>1, <2>2 DEF Create
<1>7. ASSUME NEW p \in Pid, CreateResumed(p) PROVE Whereabouts'
  BY <1>4, <1>7 DEF CreateResumed, TypeOK
<1>8. ASSUME NEW p \in Pid, ChildReturned(p) PROVE Whereabouts'
  BY <1>8 DEF ChildReturned, TypeOK
<1>9. ASSUME NEW p \in Pid, NEW q \in Pid, NEW x \in MutexStruct, KillOff(p, q, x),
             current = p, pc[p] \in {"user", "kill"}
      PROVE  Whereabouts'
  <2>1. \A r \in Pid : pc[r] \notin {"count", "unlock"}
    BY <1>9
  <2>2. p # pointer /\ pointer \in Pid
    BY <1>9 DEF TypeOK
  <2>3. \A r \in Pid :
          pc'[r] = IF r = q THEN Gone ELSE IF r = p THEN "user" ELSE pc[r]
    BY <1>9, KillOffFacts DEF TypeOK
  <2>4. /\ pointer' = pointer
        /\ \A r \in Pid : r # p => arg'[r] = arg[r]
        /\ \A r \in Pid : r # q => (state'[r] = "FINISHED" <=> state[r] = "FINISHED")
    BY <1>9, KillOffFacts DEF TypeOK
  <2>5. state[p] # "FINISHED"
    BY <1>9
  <2> QED BY <2>1, <2>2, <2>3, <2>4, <2>5
<1>10. ASSUME NEW p \in Pid, NEW q \in Pid, Kill(p, q) PROVE Whereabouts'
  <2>1. CASE \E x \in {guard, [guard EXCEPT !.value = 1, !.owner = p]} :
               Enter(p, x) /\ KillOff(p, q, x)
    <3>1. PICK x \in {guard, [guard EXCEPT !.value = 1, !.owner = p]} :
                 Enter(p, x) /\ KillOff(p, q, x)
      BY <2>1
    <3>2. x \in MutexStruct
      BY <3>1, Entered
    <3> QED BY <3>1, <3>2, <1>9, <1>10 DEF Kill
  <2>2. CASE /\ Block(p, "kill")
             /\ arg' = [arg EXCEPT ![p] = q]
             /\ UNCHANGED <<parent, pointer, count, overkill>>
    BY <1>5, <1>10, <2>2 DEF Kill
  <2> QED BY <1>10, <2>1, <2>2 DEF Kill
<1>11. ASSUME NEW p \in Pid, KillResumed(p) PROVE Whereabouts'
  BY <1>9, <1>11 DEF KillResumed, TypeOK
<1>12. ASSUME NEW p \in Pid, Wrapper(p) PROVE Whereabouts'
  <2>1. \A r \in Pid : r # p => pc'[r] = pc[r] /\ pc[r] \notin {"count", "unlock"}
    BY <1>12, WrapperFacts DEF TypeOK
  <2> QED BY <1>12, <2>1, WrapperFacts DEF TypeOK, WrapperPcs
<1> QED BY <1>1, <1>2, <1>3, <1>6, <1>7, <1>8, <1>10, <1>11, <1>12 DEF Next

-----------------------------------------------------------------------------
(* process_mutex with ticks everywhere *)

\* Who is about to write its name, or has just deleted it, is alone between
\* the two; who hands the mutex on or gives it back owns it until it does.
Guarded ==
  /\ guard.value = 1 \/ guard.owner = NoPid
  /\ \A p \in Pid : pc[p] \in {"own", "free"} =>
       /\ guard.value = 1 /\ guard.owner = NoPid
       /\ \A q \in Pid : pc[q] \in {"own", "free"} => p = q
  /\ \A p \in Pid : pc[p] \in {"take", "give", "disown"} => guard.owner = p

\* When all processes have ended with process_mutex free, nobody is left in
\* its queue, whom the new shell's mutex_unlock would make the owner.
NobodyLeftInLine ==
  (\A p \in Pid : ~ Live(p)) /\ guard.value = 0 => ~ HasWaiter(guard.queue)

(* No step lets a second process in. *)
LEMMA GuardedStep ==
  ASSUME TypeOK, Whereabouts, Guarded, NobodyLeftInLine, [Next]_vars
  PROVE  Guarded'
<1> USE DEF Guarded, Running, Goto, Gone
<1>0. /\ NoPid \notin Pid
      /\ guard \in MutexStruct /\ guard.value \in {0, 1} /\ guard.owner \in PidOrNone
  BY QueueAssumption DEF TypeOK, MutexStruct
<1>13. ASSUME NEW p \in Pid, NEW x \in {guard, [guard EXCEPT !.value = 1, !.owner = p]},
              Enter(p, x)
       PROVE  /\ x \in MutexStruct /\ x.value = 1
              /\ guard.owner = p \/ guard.value = 0
  <2>1. /\ x \in MutexStruct
        /\ guard.owner # p => guard.value = 0
        /\ x.value = IF guard.owner = p THEN guard.value ELSE 1
    BY <1>13, Entered
  <2> QED BY <1>0, <2>1
<1>1. CASE UNCHANGED vars
  BY <1>1 DEF vars
<1>2. CASE GhostShell
  <2>1. \A r \in Pid : pc[r] = Gone
    BY <1>2, <1>0, GhostShellFacts DEF Whereabouts, Live, GhostShell
  <2>2. \A r \in Pid : pc'[r] \in {Gone, "user"}
    BY <1>2, <2>1, GhostShellFacts DEF TypeOK
  <2>3. guard.value = 0 => Front(guard.queue) = NoPid
    BY <1>2 DEF NobodyLeftInLine, GhostShell, HasWaiter
  <2>4. guard'.value = 1 \/ guard'.owner = NoPid
    BY <1>0, <1>2, <2>3, GhostShellFacts, HandOffFields
  <2> QED BY <2>2, <2>4
<1>3. ASSUME NEW p \in Pid, Tick(p) PROVE Guarded'
  BY <1>3 DEF Tick
<1>4. ASSUME NEW p \in Pid, NEW type, NEW x \in MutexStruct,
             TakeSlot(p, type, x), pc[p] \in {"user", "createFG", "createBG"},
             x = guard \/ (x.value = 1 /\ (guard.owner = p \/ guard.value = 0))
      PROVE  Guarded'
  <2>1. state[p] # "FINISHED" /\ p # pointer /\ pointer \in Pid
    BY <1>4 DEF Whereabouts, Live, TypeOK
  <2>2. \A r \in Pid : pc'[r] = pc[r] \/ pc'[r] \in {"user", "child"}
    BY <1>4, <2>1, TakeSlotFacts
  <2>3. \A r \in Pid : pc'[r] = pc[r] /\ pc[r] \in {"own", "free", "take", "give", "disown"}
          => guard.owner # p /\ x = guard
    BY <1>0, <1>4
  <2>4. x.value = 1 \/ x.owner = NoPid
    BY <1>0, <1>4
  <2> QED BY <1>4, <2>1, <2>2, <2>3, <2>4, TakeSlotFacts
<1>5. ASSUME NEW p \in Pid, NEW at \in {"createFG", "createBG", "kill"}, Block(p, at)
      PROVE  Guarded'
  BY <1>0, <1>5 DEF Block, TypeOK, MutexStruct
<1>6. ASSUME NEW p \in Pid, NEW type \in {"FOREGROUND", "BACKGROUND"}, Create(p, type)
      PROVE  Guarded'
  <2>1. CASE \E x \in {guard, [guard EXCEPT !.value = 1, !.owner = p]} :
               Enter(p, x) /\ TakeSlot(p, type, x)
    <3>1. PICK x \in {guard, [guard EXCEPT !.value = 1, !.owner = p]} :
                 Enter(p, x) /\ TakeSlot(p, type, x)
      BY <2>1
    <3>2. x \in MutexStruct
      BY <3>1, Entered
    <3> QED BY <3>1, <3>2, <1>4, <1>6, <1>13 DEF Create
  <2>2. CASE Block(p, IF type = "FOREGROUND" THEN "createFG" ELSE "createBG")
             /\ UNCHANGED <<parent, pointer, count, arg, overkill>>
    BY <1>5, <1>6, <2>2 DEF Create
  <2> QED BY <1>6, <2>1, <2>2 DEF Create
<1>7. ASSUME NEW p \in Pid, CreateResumed(p) PROVE Guarded'
  BY <1>0, <1>4, <1>7 DEF CreateResumed
<1>8. ASSUME NEW p \in Pid, ChildReturned(p) PROVE Guarded'
  BY <1>8 DEF ChildReturned, TypeOK
<1>9. ASSUME NEW p \in Pid, NEW q \in Pid, NEW x \in MutexStruct, KillOff(p, q, x),
             pc[p] \in {"user", "kill"},
             x = guard \/ (x.value = 1 /\ (guard.owner = p \/ guard.value = 0))
      PROVE  Guarded'
  <2>1. \A r \in Pid : pc'[r] = pc[r] \/ pc'[r] \in {"user", Gone}
    BY <1>9, KillOffFacts DEF TypeOK
  <2>2. \A r \in Pid : pc'[r] \in {"own", "free", "take", "give", "disown"}
          => pc'[r] = pc[r] /\ r # p /\ r # q
    BY <1>9, KillOffFacts DEF TypeOK
  <2>3. \A r \in Pid : pc'[r] \in {"own", "free", "take", "give", "disown"}
          => x = guard /\ guard.owner \notin {p, q}
    BY <1>0, <1>9, <2>2
  <2>4. x.value = 1 \/ x.owner = NoPid
    BY <1>0, <1>9
  <2> QED BY <1>9, <2>1, <2>2, <2>3, <2>4, KillOffFacts
<1>10. ASSUME NEW p \in Pid, NEW q \in Pid, Kill(p, q) PROVE Guarded'
  <2>1. CASE \E x \in {guard, [guard EXCEPT !.value = 1, !.owner = p]} :
               Enter(p, x) /\ KillOff(p, q, x)
    <3>1. PICK x \in {guard, [guard EXCEPT !.value = 1, !.owner = p]} :
                 Enter(p, x) /\ KillOff(p, q, x)
      BY <2>1
    <3>2. x \in MutexStruct
      BY <3>1, Entered
    <3> QED BY <3>1, <3>2, <1>9, <1>10, <1>13 DEF Kill
  <2>2. CASE /\ Block(p, "kill")
             /\ arg' = [arg EXCEPT ![p] = q]
             /\ UNCHANGED <<parent, pointer, count, overkill>>
    BY <1>5, <1>10, <2>2 DEF Kill
  <2> QED BY <1>10, <2>1, <2>2 DEF Kill
<1>11. ASSUME NEW p \in Pid, KillResumed(p) PROVE Guarded'
  BY <1>0, <1>9, <1>11 DEF KillResumed, Whereabouts
<1>12. ASSUME NEW p \in Pid, Wrapper(p) PROVE Guarded'
  <2>1. CASE Return(p) \/ Wake(p)
    BY <2>1 DEF Return, Wake, TypeOK
  <2>2. CASE LockGuard(p)
    BY <1>0, <2>2 DEF LockGuard, TypeOK, MutexStruct
  <2>3. CASE OwnGuard(p)
    BY <1>0, <2>3 DEF OwnGuard, GuardStep, TypeOK, MutexStruct
  <2>4. CASE PushGuard(p) \/ AdvanceGuard(p)
    BY <1>0, <2>4 DEF PushGuard, AdvanceGuard, GuardStep, TypeOK, MutexStruct
  <2>5. CASE BlockSelf(p) \/ Release(p)
    BY <2>5 DEF BlockSelf, Release, TypeOK
  <2>6. CASE TakeFront(p)
    BY <1>0, <2>6 DEF TakeFront, TypeOK, MutexStruct
  <2>7. CASE GiveGuard(p)
    BY <1>0, <2>7 DEF GiveGuard, GuardStep, TypeOK, MutexStruct
  <2>8. CASE Disown(p)
    BY <1>0, <2>8 DEF Disown, GuardStep, TypeOK, MutexStruct
  <2>9. CASE FreeGuard(p)
    BY <1>0, <2>9 DEF FreeGuard, GuardStep, TypeOK, MutexStruct
  <2>10. CASE Rouse(p) \/ FinishSelf(p) \/ CountDown(p) \/ Dropped(p)
    BY <2>10 DEF Rouse, FinishSelf, CountDown, Dropped, TypeOK
  <2>11. CASE UnlockGuard(p)
    <3>1. CASE guard.owner = p
      <4>1. guard' = HandOff(guard) /\ pc' = [pc EXCEPT ![p] = Gone]
        BY <2>11, <3>1 DEF UnlockGuard
      <4>2. \A r \in Pid : r # p => pc'[r] \notin {"own", "free", "take", "give", "disown"}
        BY <1>0, <3>1, <4>1 DEF TypeOK
      <4>3. pc'[p] = Gone
        BY <4>1 DEF TypeOK
      <4>4. guard'.value = 1 \/ guard'.owner = NoPid
        BY <1>0, <3>1, <4>1, HandOffFields
      <4> QED BY <4>2, <4>3, <4>4
    <3>2. CASE guard.owner # p
      BY <2>11, <3>2 DEF UnlockGuard, TypeOK
    <3> QED BY <3>1, <3>2
  <2> QED BY <1>12, <2>1, <2>2, <2>3, <2>4, <2>5, <2>6, <2>7, <2>8, <2>9, <2>10, <2>11
    DEF Wrapper
<1> QED BY <1>1, <1>2, <1>3, <1>6, <1>7, <1>8, <1>10, <1>11, <1>12 DEF Next

(* In a state without processes nobody is in a slot. *)
LEMMA StartPlaces == Init => TypeOK /\ Whereabouts /\ Guarded
<1> SUFFICES ASSUME Init PROVE TypeOK /\ Whereabouts /\ Guarded
  OBVIOUS
<1>1. guard \in MutexStruct /\ guard.value = 0 /\ guard.owner = NoPid
  BY QueueAssumption DEF Init, MutexStruct, FreeMutex, EmptyQueue, Queue, PidOrNone, Slots
<1>2. TypeOK
  BY <1>1, ProcessAssumption DEF Init, TypeOK, PidOrNone
<1>3. pointer \in Pid
  BY <1>2 DEF TypeOK
<1>4. Whereabouts
  BY <1>3 DEF Init, Whereabouts, Gone
<1>5. Guarded
  BY <1>1 DEF Init, Guarded, Gone
<1> QED BY <1>2, <1>4, <1>5

(* Types and places, whatever the timer and the programs do: process_pointer *)
(* and the queue's indices stay in their arrays, nobody goes on in a slot    *)
(* that was given up, and no slot is taken while somebody is in it.          *)
THEOREM PlacesKept == Spec => [](TypeOK /\ Whereabouts)
<1>1. Init => TypeOK /\ Whereabouts
  BY StartPlaces
<1>2. TypeOK /\ Whereabouts /\ [Next]_vars => (TypeOK /\ Whereabouts)'
  BY TypeStep, WhereaboutsStep
<1> QED BY <1>1, <1>2, PTL DEF Spec

(* The exchange in mutex_lock(process_mutex) lets one process at a time in   *)
(* although value and owner are written apart, in whatever order the         *)
(* processes are interrupted, for every size of the table and of the queue,  *)
(* provided that the last process to end leaves nobody in the queue.         *)
THEOREM GuardCoherentHolds == Spec /\ []NobodyLeftInLine => []GuardCoherent
<1>1. Init => TypeOK /\ Whereabouts /\ Guarded
  BY StartPlaces
<1>2. TypeOK /\ Whereabouts /\ Guarded /\ NobodyLeftInLine /\ [Next]_vars
        => (TypeOK /\ Whereabouts /\ Guarded)'
  BY TypeStep, WhereaboutsStep, GuardedStep
<1>3. TypeOK /\ Whereabouts /\ Guarded => GuardCoherent
  BY DEF Guarded, GuardCoherent, TypeOK, MutexStruct
<1> QED BY <1>1, <1>2, <1>3, PTL DEF Spec

-----------------------------------------------------------------------------
(* Parents that wait for a child *)

\* Whoever is about to wake somebody is about to wake its parent.
WakesParent == \A q \in Pid : pc[q] = "wake" => arg[q] = parent[q]

\* Nobody carries out a kill, which had to wait for process_mutex, of a
\* process that was created in the foreground in the meantime.
KillsNoAwaited ==
  \A p \in Pid : Live(p) /\ pc[p] = "kill" => ~ Awaited(arg[p])

\* Where q has still to come to resume_process(parent).
StillToReturn(q) == pc[q] \in SysPcs \cup {"wake"}

(* Whoever waited before has its child still. *)
LEMMA ChildKept ==
  ASSUME ChildStillToReturn,
         \A p \in Pid : pc'[p] = "child" /\ state'[p] = "BLOCKED" =>
           /\ pc[p] = "child" /\ state[p] = "BLOCKED"
           /\ \A q \in Pid : Live(q) /\ parent[q] = p /\ StillToReturn(q) =>
                Live(q)' /\ parent'[q] = p /\ StillToReturn(q)'
  PROVE  ChildStillToReturn'
BY DEF ChildStillToReturn, StillToReturn

(* A wake-up goes to the parent. *)
LEMMA WakesParentStep ==
  ASSUME TypeOK, Whereabouts, WakesParent, [Next]_vars
  PROVE  WakesParent'
<1> USE DEF WakesParent, Running, Goto, Gone
<1>1. CASE UNCHANGED vars
  BY <1>1 DEF vars
<1>2. CASE GhostShell
  BY <1>2, GhostShellFacts DEF Whereabouts, Live, TypeOK
<1>3. ASSUME NEW p \in Pid, Tick(p) PROVE WakesParent'
  BY <1>3 DEF Tick
<1>4. ASSUME NEW p \in Pid, NEW type, NEW x \in MutexStruct,
             TakeSlot(p, type, x), pc[p] \in {"user", "createFG", "createBG"}
      PROVE  WakesParent'
  <2>1. state[p] # "FINISHED" /\ p # pointer
    BY <1>4 DEF Whereabouts, Live
  <2> QED BY <1>4, <2>1, TakeSlotFacts DEF TypeOK
<1>5. ASSUME NEW p \in Pid, NEW at \in {"createFG", "createBG", "kill"}, Block(p, at),
             pc[p] = "user", \A r \in Pid : r # p => arg'[r] = arg[r], parent' = parent
      PROVE  WakesParent'
  BY <1>5 DEF Block, TypeOK
<1>6. ASSUME NEW p \in Pid, NEW type \in {"FOREGROUND", "BACKGROUND"}, Create(p, type)
      PROVE  WakesParent'
  <2>1. CASE \E x \in {guard, [guard EXCEPT !.value = 1, !.owner = p]} :
               Enter(p, x) /\ TakeSlot(p, type, x)
    BY <1>4, <1>6, <2>1, Entered DEF Create
  <2>2. CASE /\ Block(p, IF type = "FOREGROUND" THEN "createFG" ELSE "createBG")
             /\ UNCHANGED <<parent, pointer, count, arg, overkill>>
    BY <1>5, <1>6, <2>2 DEF Create
  <2> QED BY <1>6, <2>1, <2>2 DEF Create
<1>7. ASSUME NEW p \in Pid, CreateResumed(p) PROVE WakesParent'
  BY <1>4, <1>7 DEF CreateResumed, TypeOK
<1>8. ASSUME NEW p \in Pid, ChildReturned(p) PROVE WakesParent'
  BY <1>8 DEF ChildReturned, TypeOK
<1>9. ASSUME NEW p \in Pid, NEW q \in Pid, NEW x \in MutexStruct, KillOff(p, q, x)
      PROVE  WakesParent'
  BY <1>9, KillOffFacts DEF TypeOK
<1>10. ASSUME NEW p \in Pid, NEW q \in Pid, Kill(p, q) PROVE WakesParent'
  <2>1. CASE \E x \in {guard, [guard EXCEPT !.value = 1, !.owner = p]} :
               Enter(p, x) /\ KillOff(p, q, x)
    BY <1>9, <2>1, Entered
  <2>2. CASE /\ Block(p, "kill")
             /\ arg' = [arg EXCEPT ![p] = q]
             /\ UNCHANGED <<parent, pointer, count, overkill>>
    BY <1>5, <1>10, <2>2 DEF Kill, TypeOK
  <2> QED BY <1>10, <2>1, <2>2 DEF Kill
<1>11. ASSUME NEW p \in Pid, KillResumed(p) PROVE WakesParent'
  BY <1>9, <1>11 DEF KillResumed, TypeOK, Whereabouts
<1>12. ASSUME NEW p \in Pid, Wrapper(p) PROVE WakesParent'
  <2>1. CASE Return(p)
    BY <2>1 DEF Return, TypeOK
  <2>2. \A r \in Pid : r # p => pc'[r] = pc[r] /\ arg'[r] = arg[r]
    BY <1>12, WrapperFacts DEF TypeOK
  <2>3. CASE ~ Return(p)
    <3>1. parent' = parent /\ pc'[p] # "wake"
      BY <1>12, <2>3 DEF Wrapper, Wake, LockGuard, OwnGuard, PushGuard, AdvanceGuard,
        GuardStep, BlockSelf, Release, TakeFront, GiveGuard, Rouse, Disown, FreeGuard,
        FinishSelf, CountDown, UnlockGuard, Dropped, TypeOK
    <3> QED BY <2>2, <3>1
  <2> QED BY <2>1, <2>3
<1> QED BY <1>1, <1>2, <1>3, <1>6, <1>7, <1>8, <1>10, <1>11, <1>12 DEF Next

(* Whoever comes to wait has a new child; whoever waited keeps one, for its *)
(* child wakes it before it is done.                                        *)
LEMMA ChildStep ==
  ASSUME TypeOK, Whereabouts, WakesParent, ChildStillToReturn, KillsNoAwaited,
         "WildKill" \notin Workload, [Next]_vars
  PROVE  ChildStillToReturn'
<1> USE DEF Running, Goto, Gone
<1>1. CASE UNCHANGED vars
  BY <1>1 DEF vars, ChildStillToReturn, Live
<1>2. CASE GhostShell
  <2>1. \A r \in Pid : pc'[r] # "child"
    BY <1>2, GhostShellFacts DEF Whereabouts, Live, TypeOK
  <2> QED BY <2>1 DEF ChildStillToReturn
<1>3. ASSUME NEW p \in Pid, Tick(p) PROVE ChildStillToReturn'
  BY <1>3 DEF Tick, ChildStillToReturn, Live
<1>4. ASSUME NEW p \in Pid, NEW type, NEW x \in MutexStruct,
             TakeSlot(p, type, x), pc[p] \in {"user", "createFG", "createBG"}
      PROVE  ChildStillToReturn'
  <2>1. state[p] # "FINISHED" /\ p # pointer /\ pointer \in Pid
    BY <1>4 DEF Whereabouts, Live, TypeOK
  <2>2. /\ state'[pointer] # "FINISHED" /\ parent'[pointer] = p /\ pc'[pointer] = "user"
        /\ \A q \in Pid : Live(q) /\ StillToReturn(q) =>
             q # pointer /\ Live(q)' /\ parent'[q] = parent[q] /\ StillToReturn(q)'
    <3>1. /\ state'[pointer] # "FINISHED" /\ parent'[pointer] = p /\ pc'[pointer] = "user"
      BY <1>4, <2>1, TakeSlotFacts DEF TypeOK
    <3>2. ASSUME NEW q \in Pid, Live(q), StillToReturn(q)
          PROVE  q # pointer /\ Live(q)' /\ parent'[q] = parent[q] /\ StillToReturn(q)'
      <4>1. q # pointer
        BY <3>2 DEF StillToReturn, SysPcs, Whereabouts
      <4>2. Live(q)' /\ parent'[q] = parent[q]
        BY <3>2, <4>1, <1>4, <2>1, TakeSlotFacts DEF Live, TypeOK
      <4>3. pc'[q] = pc[q] \/ pc'[q] \in {"user", "child"}
        BY <4>1, <1>4, <2>1, TakeSlotFacts
      <4> QED BY <3>2, <4>1, <4>2, <4>3 DEF StillToReturn, SysPcs
    <3> QED BY <3>1, <3>2
  <2>3. ASSUME NEW r \in Pid, pc'[r] = "child", state'[r] = "BLOCKED"
        PROVE  \E q \in Pid : Live(q)' /\ parent'[q] = r /\ StillToReturn(q)'
    <3>1. CASE r = p
      <4>1. PICK w \in Pid : w = pointer
        BY <2>1
      <4>2. Live(w)' /\ parent'[w] = r /\ StillToReturn(w)'
        BY <4>1, <3>1, <2>2 DEF Live, StillToReturn, SysPcs
      <4> QED BY <4>2
    <3>2. CASE r # p
      <4>1. r # pointer
        BY <2>3, <2>2
      <4>2. pc[r] = "child" /\ state[r] = "BLOCKED"
        BY <2>3, <3>2, <4>1, <1>4, <2>1, TakeSlotFacts
      <4>3. PICK q \in Pid : Live(q) /\ parent[q] = r /\ StillToReturn(q)
        BY <4>2 DEF ChildStillToReturn, StillToReturn
      <4> QED BY <4>3, <2>2
    <3> QED BY <3>1, <3>2
  <2> QED BY <2>3 DEF ChildStillToReturn, StillToReturn
<1>5. ASSUME NEW p \in Pid, NEW at \in {"createFG", "createBG", "kill"}, Block(p, at),
             pc[p] = "user", parent' = parent
      PROVE  ChildStillToReturn'
  <2>1. /\ pc' = [pc EXCEPT ![p] = at] /\ state' = [state EXCEPT ![p] = "BLOCKED"]
        /\ state[p] # "FINISHED"
    BY <1>5 DEF Block, Whereabouts, Live
  <2>2. \A q \in Pid : Live(q) /\ StillToReturn(q) => Live(q)' /\ StillToReturn(q)'
    BY <2>1 DEF TypeOK, Live, StillToReturn, SysPcs
  <2>3. \A r \in Pid : pc'[r] = "child" /\ state'[r] = "BLOCKED" =>
          pc[r] = "child" /\ state[r] = "BLOCKED"
    BY <2>1 DEF TypeOK
  <2> QED BY <1>5, <2>2, <2>3, ChildKept
<1>6. ASSUME NEW p \in Pid, NEW type \in {"FOREGROUND", "BACKGROUND"}, Create(p, type)
      PROVE  ChildStillToReturn'
  <2>1. CASE \E x \in {guard, [guard EXCEPT !.value = 1, !.owner = p]} :
               Enter(p, x) /\ TakeSlot(p, type, x)
    BY <1>4, <1>6, <2>1, Entered DEF Create
  <2>2. CASE /\ Block(p, IF type = "FOREGROUND" THEN "createFG" ELSE "createBG")
             /\ UNCHANGED <<parent, pointer, count, arg, overkill>>
    BY <1>5, <1>6, <2>2 DEF Create
  <2> QED BY <1>6, <2>1, <2>2 DEF Create
<1>7. ASSUME NEW p \in Pid, CreateResumed(p) PROVE ChildStillToReturn'
  BY <1>4, <1>7 DEF CreateResumed, TypeOK
<1>8. ASSUME NEW p \in Pid, ChildReturned(p) PROVE ChildStillToReturn'
  <2>1. pc' = [pc EXCEPT ![p] = "user"] /\ state' = state /\ parent' = parent
    BY <1>8 DEF ChildReturned
  <2>2. \A q \in Pid : StillToReturn(q) => StillToReturn(q)'
    BY <2>1 DEF TypeOK, StillToReturn, SysPcs
  <2>3. \A r \in Pid : pc'[r] = "child" => pc[r] = "child"
    BY <2>1 DEF TypeOK
  <2> QED BY <2>1, <2>2, <2>3, ChildKept DEF Live
<1>9. ASSUME NEW p \in Pid, NEW q \in Pid, NEW x \in MutexStruct, KillOff(p, q, x),
             state[p] # "FINISHED", ~ Awaited(q)
      PROVE  ChildStillToReturn'
  <2>1. \A r \in Pid :
          pc'[r] = IF r = q THEN Gone ELSE IF r = p THEN "user" ELSE pc[r]
    BY <1>9, KillOffFacts DEF TypeOK
  <2>2. /\ parent' = parent
        /\ \A r \in Pid : r # q => (state'[r] = "FINISHED" <=> state[r] = "FINISHED")
                                 /\ state'[r] \in {state[r], "READY"}
    BY <1>9, KillOffFacts
  <2>3. ASSUME NEW r \in Pid, pc'[r] = "child", state'[r] = "BLOCKED"
        PROVE  /\ pc[r] = "child" /\ state[r] = "BLOCKED"
               /\ \A c \in Pid : Live(c) /\ parent[c] = r /\ StillToReturn(c) =>
                    Live(c)' /\ parent'[c] = r /\ StillToReturn(c)'
    <3>1. r # q /\ r # p /\ pc[r] = "child"
      BY <2>1, <2>3
    <3>2. state[r] = "BLOCKED"
      BY <2>2, <2>3, <3>1
    <3>3. \A c \in Pid : parent[c] = r => c # q
      BY <3>1, <3>2, <1>9, QueueAssumption DEF Awaited
    <3> QED BY <3>1, <3>2, <3>3, <2>1, <2>2 DEF Live, StillToReturn, SysPcs
  <2> QED BY <2>3, ChildKept
<1>10. ASSUME NEW p \in Pid, NEW q \in Pid, Kill(p, q) PROVE ChildStillToReturn'
  <2>1. ~ Awaited(q) /\ state[p] # "FINISHED"
    BY <1>10 DEF Kill, Whereabouts, Live
  <2>2. CASE \E x \in {guard, [guard EXCEPT !.value = 1, !.owner = p]} :
               Enter(p, x) /\ KillOff(p, q, x)
    BY <1>9, <2>1, <2>2, Entered
  <2>3. CASE /\ Block(p, "kill")
             /\ arg' = [arg EXCEPT ![p] = q]
             /\ UNCHANGED <<parent, pointer, count, overkill>>
    BY <1>5, <1>10, <2>3 DEF Kill
  <2> QED BY <1>10, <2>2, <2>3 DEF Kill
<1>11. ASSUME NEW p \in Pid, KillResumed(p) PROVE ChildStillToReturn'
  <2>1. /\ pc[p] = "kill" /\ Live(p) /\ arg[p] \in Pid /\ guard \in MutexStruct
        /\ KillOff(p, arg[p], guard)
    BY <1>11 DEF KillResumed, TypeOK, Whereabouts
  <2> QED BY <2>1, <1>9 DEF KillsNoAwaited, Live
<1>12. ASSUME NEW p \in Pid, Wrapper(p) PROVE ChildStillToReturn'
  <2>1. \A r \in Pid : r # p => pc'[r] = pc[r]
    BY <1>12, WrapperFacts DEF TypeOK
  <2>2. pc'[p] # "child"
    BY <1>12, WrapperFacts DEF TypeOK, WrapperPcs
  <2>3. CASE Return(p)
    <3>1. state' = state /\ parent' = parent
      BY <2>3 DEF Return
    <3>2. parent[p] # NoPid /\ state[parent[p]] = "BLOCKED" => pc'[p] = "wake"
      BY <2>3 DEF Return, TypeOK
    <3>3. ASSUME NEW r \in Pid, pc'[r] = "child", state'[r] = "BLOCKED"
          PROVE  /\ pc[r] = "child" /\ state[r] = "BLOCKED"
                 /\ \A c \in Pid : Live(c) /\ parent[c] = r /\ StillToReturn(c) =>
                      Live(c)' /\ parent'[c] = r /\ StillToReturn(c)'
      BY <2>1, <2>2, <3>1, <3>2, <3>3, QueueAssumption DEF Live, StillToReturn
    <3> QED BY <3>3, ChildKept
  <2>4. CASE Wake(p)
    <3>1. /\ pc[p] = "wake" /\ state' = [state EXCEPT ![arg[p]] = "READY"]
          /\ parent' = parent /\ arg[p] = parent[p]
      BY <2>4 DEF Wake, WakesParent
    <3>2. \A r \in Pid : state'[r] = IF r = parent[p] THEN "READY" ELSE state[r]
      BY <3>1 DEF TypeOK
    <3>3. ASSUME NEW r \in Pid, pc'[r] = "child", state'[r] = "BLOCKED"
          PROVE  /\ pc[r] = "child" /\ state[r] = "BLOCKED"
                 /\ \A c \in Pid : Live(c) /\ parent[c] = r /\ StillToReturn(c) =>
                      Live(c)' /\ parent'[c] = r /\ StillToReturn(c)'
      BY <2>1, <2>2, <3>1, <3>2, <3>3 DEF Live, StillToReturn
    <3> QED BY <3>3, ChildKept
  <2>5. CASE ~ Return(p) /\ ~ Wake(p)
    <3>1. parent' = parent /\ ~ StillToReturn(p)
      BY <1>12, <2>5 DEF Wrapper, LockGuard, OwnGuard, PushGuard, AdvanceGuard,
        GuardStep, BlockSelf, Release, TakeFront, GiveGuard, Rouse, Disown, FreeGuard,
        FinishSelf, CountDown, UnlockGuard, Dropped, StillToReturn, SysPcs
    <3>2. \A r \in Pid : r # p => state'[r] \in {state[r], "READY"}
      BY <1>12, <2>5, ResumeStates
      DEF Wrapper, LockGuard, OwnGuard, PushGuard, AdvanceGuard,
        GuardStep, BlockSelf, Release, TakeFront, GiveGuard, Rouse, Disown, FreeGuard,
        FinishSelf, CountDown, UnlockGuard, Dropped, TypeOK
    <3>3. \A r \in Pid : state'[r] = "FINISHED" => r = p \/ state[r] = "FINISHED"
      BY <1>12, WrapperFacts
    <3>4. ASSUME NEW r \in Pid, pc'[r] = "child", state'[r] = "BLOCKED"
          PROVE  /\ pc[r] = "child" /\ state[r] = "BLOCKED"
                 /\ \A c \in Pid : Live(c) /\ parent[c] = r /\ StillToReturn(c) =>
                      Live(c)' /\ parent'[c] = r /\ StillToReturn(c)'
      BY <2>1, <2>2, <3>1, <3>2, <3>3, <3>4 DEF Live, StillToReturn
    <3> QED BY <3>4, ChildKept
  <2> QED BY <2>3, <2>4, <2>5
<1> QED BY <1>1, <1>2, <1>3, <1>6, <1>7, <1>8, <1>10, <1>11, <1>12 DEF Next

(* A process that waits for a foreground child has one that has still to     *)
(* wake it, with the timer striking anywhere, for every size of the table,   *)
(* when programs spare the children that somebody waits for.                 *)
THEOREM ChildStillToReturnHolds ==
  ASSUME "WildKill" \notin Workload
  PROVE  Spec /\ []KillsNoAwaited => []ChildStillToReturn
<1> DEFINE Inv == TypeOK /\ Whereabouts /\ WakesParent /\ ChildStillToReturn
<1>1. Init => Inv
  <2>1. Init => WakesParent /\ ChildStillToReturn
    BY DEF Init, WakesParent, ChildStillToReturn, Gone
  <2> QED BY <2>1, StartPlaces
<1>2. Inv /\ KillsNoAwaited /\ [Next]_vars => Inv'
  BY TypeStep, WhereaboutsStep, WakesParentStep, ChildStep
<1>3. Inv => ChildStillToReturn
  OBVIOUS
<1> QED BY <1>1, <1>2, <1>3, PTL DEF Spec

-----------------------------------------------------------------------------
(* Without ticks in wrapper_process *)

\* One process at a time is in the kernel; process_mutex is free unless that
\* process has it, and nobody is ever queued; whom wrapper_process is about to
\* wake is alive, and who has left a slot has finished.
Serial ==
  /\ \A p \in Pid : pc[p] \in
       {"user", "child", "wake", "lock", "own", "release", "disown", "free",
        "finish", "count", "unlock", Gone}
  /\ \A p \in Pid : pc[p] \in WrapperPcs => current = p
  /\ \A p \in Pid : current = p /\ pc[p] \notin {"count", "unlock"} =>
       state[p] = "READY"
  /\ \A p \in Pid : pc[p] = Gone => ~ Live(p)
  /\ \A p \in Pid : pc[p] = "wake" => Live(arg[p])
  /\ guard.queue = EmptyQueue
  /\ \A p \in Pid : pc[p] \in {"release", "disown"} => guard.owner = p
  /\ (\A p \in Pid : pc[p] \notin {"own", "release", "disown", "free"}) =>
       guard.owner = NoPid /\ guard.value = 0

\* process_mutex as it is left: without owner and waiters.
GuardFree(x) == x.value = 0 /\ x.owner = NoPid /\ x.queue = EmptyQueue

(* An unlock with nobody in the queue. *)
LEMMA HandOffNobody ==
  ASSUME NEW x \in MutexStruct, x.queue = EmptyQueue
  PROVE  /\ GuardFree(HandOff(x))
         /\ Front(x.queue) = NoPid
<1>1. Front(x.queue) = NoPid
  BY QueueAssumption DEF Front, EmptyQueue, Slots
<1> QED BY <1>1, HandOffFields DEF GuardFree

(* A program that calls the kernel finds process_mutex free. *)
LEMMA FindsFree ==
  ASSUME TypeOK, Serial, current = NoPid \/ \E p \in Pid : current = p /\ pc[p] = "user"
  PROVE  /\ GuardFree(guard)
         /\ \A r \in Pid : pc[r] \in {"user", "child", Gone}
<1>1. \A r \in Pid : pc[r] \notin WrapperPcs
  BY QueueAssumption DEF Serial, WrapperPcs
<1> QED BY <1>1 DEF Serial, GuardFree, WrapperPcs

(* create_process, whose caller need not wait: the state of the slot at *)
(* process_pointer, and of a caller in the foreground, are all it changes. *)
LEMMA SerialCreate ==
  ASSUME TypeOK, Whereabouts, Serial, NEW p \in Pid,
         NEW type \in {"FOREGROUND", "BACKGROUND"}, Create(p, type)
  PROVE  /\ GuardFree(guard') /\ p # pointer /\ pointer \in Pid
         /\ pointer' \in Pid /\ pointer' # pointer /\ ~ Live(pointer')
         /\ state[pointer] = "FINISHED"
         /\ count' = count + 1 /\ overkill' = overkill
         /\ parent' = [parent EXCEPT ![pointer] = p]
         /\ arg' = [arg EXCEPT ![pointer] = NoPid]
         /\ \/ /\ state' = [state EXCEPT ![pointer] = "READY", ![p] = "BLOCKED"]
               /\ pc' = [pc EXCEPT ![pointer] = "user", ![p] = "child"]
               /\ Reschedule(state')
            \/ /\ state' = [state EXCEPT ![pointer] = "READY"]
               /\ pc' = [pc EXCEPT ![pointer] = "user", ![p] = "user"]
               /\ UNCHANGED current
<1>1. current = p /\ pc[p] = "user" /\ GuardFree(guard)
  BY FindsFree DEF Create, Running
<1>2. PICK x \in {guard, [guard EXCEPT !.value = 1, !.owner = p]} :
        Enter(p, x) /\ TakeSlot(p, type, x)
  BY <1>1 DEF Create, Block, GuardFree
<1>3. x \in MutexStruct /\ x.owner = p /\ x.queue = EmptyQueue
  BY <1>1, <1>2, Entered DEF GuardFree
<1>4. state[p] # "FINISHED" /\ p # pointer /\ pointer \in Pid /\ state[pointer] = "FINISHED"
  BY <1>1 DEF Whereabouts, Live, Serial, TypeOK, Gone
<1>5. GuardFree(guard')
  BY <1>2, <1>3, HandOffNobody DEF TakeSlot, Unlocked
<1>6. Resume([state EXCEPT ![pointer] = "READY"], Front(x.queue))
        = [state EXCEPT ![pointer] = "READY"]
  BY <1>3, HandOffNobody, QueueAssumption DEF Resume
<1>7. /\ pointer' \in Pid /\ pointer' # pointer /\ state[pointer'] = "FINISHED"
      /\ count' = count + 1 /\ overkill' = overkill
      /\ parent' = [parent EXCEPT ![pointer] = p]
      /\ arg' = [arg EXCEPT ![pointer] = NoPid]
  BY <1>2, <1>3, <1>4, TakeSlotFacts
<1>8. \/ /\ state' = [[state EXCEPT ![pointer] = "READY"] EXCEPT ![p] = "BLOCKED"]
         /\ pc' = [pc EXCEPT ![pointer] = "user", ![p] = "child"]
         /\ Reschedule(state')
      \/ /\ state' = [state EXCEPT ![pointer] = "READY"]
         /\ pc' = [pc EXCEPT ![pointer] = "user", ![p] = "user"]
         /\ UNCHANGED current
  BY <1>2, <1>3, <1>6 DEF TakeSlot
<1> QED BY <1>4, <1>5, <1>7, <1>8 DEF Live

(* kill, whose caller need not wait: the victim's state is all it changes. *)
LEMMA SerialKill ==
  ASSUME TypeOK, Whereabouts, Serial, NEW p \in Pid, NEW q \in Pid, Kill(p, q)
  PROVE  /\ current = p /\ pc[p] = "user"
         /\ GuardFree(guard')
         /\ state' = [state EXCEPT ![q] = "FINISHED"]
         /\ pc' = [pc EXCEPT ![p] = "user", ![q] = Gone]
         /\ arg' = [arg EXCEPT ![p] = NoPid]
         /\ count' = count - 1
         /\ overkill' = overkill + (IF Live(q) THEN 0 ELSE 1)
         /\ IF p = q THEN Reschedule(state') ELSE UNCHANGED current
         /\ UNCHANGED <<parent, pointer>>
<1>1. current = p /\ pc[p] = "user" /\ GuardFree(guard)
  BY FindsFree DEF Kill, Running
<1>2. PICK x \in {guard, [guard EXCEPT !.value = 1, !.owner = p]} :
        Enter(p, x) /\ KillOff(p, q, x)
  BY <1>1 DEF Kill, Block, GuardFree
<1>3. x \in MutexStruct /\ x.owner = p /\ x.queue = EmptyQueue
  BY <1>1, <1>2, Entered DEF GuardFree
<1>4. GuardFree(HandOff(x)) /\ HandOff(x).owner = NoPid
  BY <1>3, HandOffNobody DEF GuardFree
<1>5. \A st : Resume(st, NoPid) = st
  BY QueueAssumption DEF Resume
<1>6. guard' = HandOff(x) /\ state' = [state EXCEPT ![q] = "FINISHED"]
  <2>1. CASE p = q
    <3>1. /\ guard' = Unlocked(p, HandOff(x))
          /\ state' = IF HandOff(x).owner = p THEN Resume(
               [Resume(state, HandOff(x).owner) EXCEPT ![q] = "FINISHED"],
               Unlocked(p, HandOff(x)).owner)
             ELSE [Resume(state, HandOff(x).owner) EXCEPT ![q] = "FINISHED"]
      BY <1>2, <1>3, <2>1 DEF KillOff
    <3>2. Unlocked(p, HandOff(x)) = HandOff(x)
      BY <1>4, QueueAssumption DEF Unlocked
    <3> QED BY <3>1, <3>2, <1>4, <1>5, QueueAssumption
  <2>2. CASE p # q
    <3>1. /\ guard' = Unlocked(p, x)
          /\ state' = Resume([state EXCEPT ![q] = "FINISHED"], Unlocked(p, x).owner)
      BY <1>2, <1>3, <2>2 DEF KillOff
    <3>2. Unlocked(p, x) = HandOff(x)
      BY <1>3 DEF Unlocked
    <3> QED BY <3>1, <3>2, <1>4, <1>5
  <2> QED BY <2>1, <2>2
<1> QED BY <1>1, <1>2, <1>4, <1>6 DEF KillOff

(* Where one process goes in the kernel, the others are in their programs. *)
LEMMA SerialWrapper ==
  ASSUME TypeOK, Whereabouts, Guarded, Serial, "Preempt" \notin Workload,
         NEW p \in Pid, Wrapper(p)
  PROVE  /\ Serial'
         /\ \A r \in Pid : state[r] = "FINISHED" => state'[r] = "FINISHED"
         /\ \A r \in Pid : state'[r] = "FINISHED" => state[r] = "FINISHED" \/ FinishSelf(p)
<1> USE DEF Running, Goto, Gone, Live
<1>0. /\ current = p
      /\ \A r \in Pid : r # p => pc[r] \notin WrapperPcs
  BY WrapperFacts DEF Serial
<1>1. CASE Return(p)
  <2>1. parent[p] \in PidOrNone
    BY DEF TypeOK
  <2> QED BY <1>0, <1>1, <2>1 DEF Return, Serial, TypeOK, WrapperPcs, PidOrNone
<1>2. CASE Wake(p)
  BY <1>0, <1>2 DEF Wake, Serial, TypeOK, WrapperPcs, Whereabouts
<1>3. CASE LockGuard(p)
  <2>1. guard.owner = NoPid /\ guard.value = 0
    BY <1>0, <1>3 DEF LockGuard, Serial, WrapperPcs
  <2>2. guard' = [guard EXCEPT !.value = 1] /\ pc' = [pc EXCEPT ![p] = "own"]
    BY <1>3, <2>1, QueueAssumption DEF LockGuard
  <2> QED BY <1>0, <1>3, <2>2 DEF LockGuard, Serial, TypeOK, MutexStruct, WrapperPcs
<1>4. CASE OwnGuard(p)
  BY <1>0, <1>4 DEF OwnGuard, GuardStep, Serial, TypeOK, MutexStruct, WrapperPcs
<1>5. CASE Release(p)
  <2>1. guard.owner = p /\ ~ HasWaiter(guard.queue)
    BY <1>5, QueueAssumption DEF Release, Serial, HasWaiter, Front, EmptyQueue, Slots
  <2>2. pc' = [pc EXCEPT ![p] = "disown"]
    BY <1>5, <2>1 DEF Release
  <2> QED BY <1>0, <1>5, <2>1, <2>2 DEF Release, Serial, TypeOK, WrapperPcs
<1>6. CASE Disown(p)
  BY <1>0, <1>6 DEF Disown, GuardStep, Serial, TypeOK, MutexStruct, WrapperPcs
<1>7. CASE FreeGuard(p)
  <2>1. guard.owner = NoPid
    BY <1>7 DEF FreeGuard, GuardStep, Guarded
  <2> QED BY <1>0, <1>7, <2>1
    DEF FreeGuard, GuardStep, Serial, TypeOK, MutexStruct, WrapperPcs
<1>8. CASE FinishSelf(p)
  BY <1>0, <1>8 DEF FinishSelf, Serial, TypeOK, WrapperPcs, Whereabouts
<1>9. CASE CountDown(p)
  BY <1>0, <1>9 DEF CountDown, Serial, TypeOK, WrapperPcs
<1>10. CASE UnlockGuard(p)
  <2>1. guard.owner # p
    BY <1>0, <1>10, QueueAssumption DEF UnlockGuard, Serial, WrapperPcs
  <2>2. /\ pc' = [pc EXCEPT ![p] = Gone] /\ state[p] = "FINISHED"
        /\ UNCHANGED <<guard, state, arg>> /\ Reschedule(state')
    BY <1>10, <2>1 DEF UnlockGuard, Whereabouts
  <2>3. \A r \in Pid : current' = r => state'[r] = "READY"
    BY <2>2, RescheduleType
  <2> QED BY <1>0, <2>2, <2>3 DEF Serial, TypeOK, WrapperPcs
<1> QED BY <1>1, <1>2, <1>3, <1>4, <1>5, <1>6, <1>7, <1>8, <1>9, <1>10
  DEF Wrapper, Serial, PushGuard, AdvanceGuard, BlockSelf, TakeFront, GiveGuard,
      GuardStep, Rouse, Dropped

(* The step of a state in which wrapper_process is not interrupted. *)
LEMMA SerialStep ==
  ASSUME TypeOK, Whereabouts, Guarded, Serial, "Preempt" \notin Workload, [Next]_vars
  PROVE  Serial'
<1> USE DEF Running, Goto, Gone, Live
<1>1. CASE UNCHANGED vars
  BY <1>1 DEF vars, Serial
<1>2. CASE GhostShell
  <2>1. GuardFree(guard) /\ \A r \in Pid : pc[r] \in {"user", "child", Gone}
    BY <1>2, FindsFree DEF GhostShell
  <2>2. GuardFree(guard')
    BY <1>2, <2>1, GhostShellFacts, HandOffNobody DEF GuardFree, TypeOK
  <2>3. pointer \in Pid
    BY DEF TypeOK
  <2> QED BY <1>2, <2>1, <2>2, <2>3, GhostShellFacts
    DEF Serial, GuardFree, TypeOK, WrapperPcs, Whereabouts
<1>3. ASSUME NEW p \in Pid, Tick(p) PROVE Serial'
  <2>1. current \in Pid /\ pc[current] \notin WrapperPcs
    BY <1>3 DEF Tick, TypeOK, PidOrNone
  <2>2. \A r \in Pid : pc[r] \notin WrapperPcs
    BY <2>1 DEF Serial
  <2> QED BY <1>3, <2>2 DEF Tick, Serial
<1>4. ASSUME NEW p \in Pid, NEW type \in {"FOREGROUND", "BACKGROUND"}, Create(p, type)
      PROVE  Serial'
  <2>1. current = p /\ pc[p] = "user" /\ \A r \in Pid : pc[r] \in {"user", "child", Gone}
    BY <1>4, FindsFree DEF Create
  <2>2. \A r \in Pid : pc'[r] \in {"user", "child", Gone}
    BY <1>4, <2>1, SerialCreate DEF TypeOK
  <2>3. \A r \in Pid : current' = r => state'[r] = "READY"
    BY <1>4, <2>1, SerialCreate, RescheduleType DEF TypeOK, Serial
  <2>4. \A r \in Pid : pc'[r] = Gone => state'[r] = "FINISHED"
    BY <1>4, SerialCreate DEF TypeOK, Serial
  <2> QED BY <1>4, <2>2, <2>3, <2>4, SerialCreate DEF Serial, GuardFree, WrapperPcs
<1>5. ASSUME NEW p \in Pid, ChildReturned(p) PROVE Serial'
  BY <1>5 DEF ChildReturned, Serial, TypeOK, WrapperPcs
<1>6. ASSUME NEW p \in Pid, NEW q \in Pid, Kill(p, q) PROVE Serial'
  <2>1. current = p /\ pc[p] = "user" /\ \A r \in Pid : pc[r] \in {"user", "child", Gone}
    BY <1>6, SerialKill, FindsFree
  <2>2. \A r \in Pid : pc'[r] \in {"user", "child", Gone}
    BY <1>6, <2>1, SerialKill DEF TypeOK
  <2>3. \A r \in Pid : current' = r => state'[r] = "READY"
    BY <1>6, <2>1, SerialKill, RescheduleType DEF TypeOK, Serial
  <2>4. \A r \in Pid : pc'[r] = Gone => state'[r] = "FINISHED"
    BY <1>6, SerialKill DEF TypeOK, Serial
  <2> QED BY <1>6, <2>2, <2>3, <2>4, SerialKill DEF Serial, GuardFree, WrapperPcs
<1>7. ASSUME NEW p \in Pid, CreateResumed(p) \/ KillResumed(p) PROVE FALSE
  BY <1>7 DEF CreateResumed, KillResumed, Serial
<1> QED BY <1>1, <1>2, <1>3, <1>4, <1>5, <1>6, <1>7, SerialWrapper DEF Next

-----------------------------------------------------------------------------
(* process_count *)

LiveSet == {p \in Pid : Live(p)}

\* A process that has finished itself is counted until it counts itself off.
Counted ==
  count + overkill =
    Cardinality(LiveSet) + (IF \E p \in Pid : pc[p] = "count" THEN 1 ELSE 0)

(* One more, one less. *)
LEMMA OneProcess ==
  ASSUME TypeOK, NEW r \in Pid
  PROVE  /\ IsFiniteSet(LiveSet) /\ Cardinality(LiveSet) \in Nat
         /\ ~ Live(r) => Cardinality(LiveSet \cup {r}) = Cardinality(LiveSet) + 1
         /\ Live(r) => Cardinality(LiveSet \ {r}) = Cardinality(LiveSet) - 1
<1>1. IsFiniteSet(Pid)
  BY FS_Interval, ProcessAssumption
<1>2. IsFiniteSet(LiveSet)
  BY <1>1, FS_Subset DEF LiveSet
<1> QED BY <1>2, FS_CardinalityType, FS_AddElement, FS_RemoveElement DEF LiveSet

(* No step miscounts. *)
LEMMA CountedStep ==
  ASSUME TypeOK, Whereabouts, Guarded, Serial, Counted, "Preempt" \notin Workload,
         [Next]_vars
  PROVE  Counted'
<1> USE DEF Running, Goto, Gone, Live
<1>0. count \in Int /\ overkill \in Nat /\ Cardinality(LiveSet) \in Nat
  <2>1. pointer \in Pid
    BY DEF TypeOK
  <2>2. Cardinality(LiveSet) \in Nat
    BY <2>1, OneProcess
  <2> QED BY <2>2, ProcessAssumption DEF TypeOK
<1>1. CASE UNCHANGED vars
  BY <1>1 DEF vars, Counted, LiveSet
<1>2. ASSUME (\A r \in Pid : pc[r] # "count") /\ (\A r \in Pid : pc'[r] # "count"),
             LiveSet' = LiveSet \cup {pointer}, ~ Live(pointer),
             count' = count + 1, overkill' = overkill
      PROVE  Counted'
  <2>1. Cardinality(LiveSet') = Cardinality(LiveSet) + 1
    BY <1>2, OneProcess DEF TypeOK
  <2>2. count + overkill = Cardinality(LiveSet)
    BY <1>0, <1>2 DEF Counted
  <2>3. count' + overkill' = Cardinality(LiveSet')
    BY <1>0, <1>2, <2>1, <2>2
  <2> QED BY <1>0, <1>2, <2>1, <2>3 DEF Counted
<1>3. CASE GhostShell
  <2>1. \A r \in Pid : pc[r] \in {"user", "child", Gone}
    BY <1>3, FindsFree DEF GhostShell
  <2>2. LiveSet' = LiveSet \cup {pointer} /\ ~ Live(pointer)
    BY <1>3, GhostShellFacts DEF LiveSet, TypeOK
  <2>3. \A r \in Pid : pc'[r] # "count"
    BY <1>3, <2>1, GhostShellFacts DEF TypeOK
  <2> QED BY <1>2, <1>3, <2>1, <2>2, <2>3, GhostShellFacts
<1>4. ASSUME NEW p \in Pid, NEW type \in {"FOREGROUND", "BACKGROUND"}, Create(p, type)
      PROVE  Counted'
  <2>1. current = p /\ pc[p] = "user" /\ \A r \in Pid : pc[r] \in {"user", "child", Gone}
    BY <1>4, FindsFree DEF Create
  <2>2. \A r \in Pid : pc'[r] # "count"
    BY <1>4, <2>1, SerialCreate DEF TypeOK
  <2>3. LiveSet' = LiveSet \cup {pointer} /\ ~ Live(pointer)
    BY <1>4, <2>1, SerialCreate DEF LiveSet, TypeOK, Serial
  <2> QED BY <1>2, <1>4, <2>1, <2>2, <2>3, SerialCreate
<1>5. ASSUME NEW p \in Pid, NEW q \in Pid, Kill(p, q) PROVE Counted'
  <2>1. current = p /\ pc[p] = "user" /\ \A r \in Pid : pc[r] \in {"user", "child", Gone}
    BY <1>5, SerialKill, FindsFree
  <2>2. \A r \in Pid : pc'[r] # "count"
    BY <1>5, <2>1, SerialKill DEF TypeOK
  <2>3. LiveSet' = LiveSet \ {q}
    BY <1>5, SerialKill DEF LiveSet, TypeOK
  <2>4. count + overkill = Cardinality(LiveSet)
    BY <1>0, <2>1 DEF Counted
  <2>5. count' = count - 1 /\ overkill' = overkill + (IF Live(q) THEN 0 ELSE 1)
    BY <1>5, SerialKill
  <2>6. count' + overkill' = Cardinality(LiveSet')
    <3>1. CASE Live(q)
      <4>1. Cardinality(LiveSet') = Cardinality(LiveSet) - 1
        BY <2>3, <3>1, OneProcess
      <4>2. overkill' = overkill
        BY <1>0, <2>5, <3>1
      <4> QED BY <1>0, <2>4, <2>5, <4>1, <4>2
    <3>2. CASE ~ Live(q)
      <4>1. LiveSet' = LiveSet
        BY <2>3, <3>2 DEF LiveSet
      <4>2. overkill' = overkill + 1
        BY <1>0, <2>5, <3>2
      <4> QED BY <1>0, <2>4, <2>5, <4>1, <4>2
    <3> QED BY <3>1, <3>2
  <2>7. ~ \E r \in Pid : pc'[r] = "count"
    BY <2>2
  <2>8. count' + overkill' \in Int
    BY <1>0, <2>5
  <2> QED BY <2>6, <2>7, <2>8 DEF Counted
<1>6. ASSUME count' = count, overkill' = overkill, LiveSet' = LiveSet,
             \A r \in Pid : pc'[r] = "count" <=> pc[r] = "count"
      PROVE  Counted'
  BY <1>6 DEF Counted
<1>7. ASSUME NEW p \in Pid, Wrapper(p) PROVE Counted'
  <2>1. \A r \in Pid : r # p => pc'[r] = pc[r] /\ pc[r] # "count"
    BY <1>7, WrapperFacts DEF TypeOK, Serial, WrapperPcs
  <2>2. CASE FinishSelf(p)
    <3>1. /\ count' = count /\ overkill' = overkill
          /\ state' = [state EXCEPT ![p] = "FINISHED"]
          /\ pc[p] = "finish" /\ pc'[p] = "count"
      BY <2>2 DEF FinishSelf, TypeOK
    <3>2. LiveSet' = LiveSet \ {p} /\ Live(p)
      BY <3>1 DEF LiveSet, TypeOK, Whereabouts
    <3>3. Cardinality(LiveSet') = Cardinality(LiveSet) - 1
      BY <3>2, OneProcess
    <3>4. count + overkill = Cardinality(LiveSet)
      BY <1>0, <2>1, <3>1 DEF Counted
    <3> QED BY <1>0, <3>1, <3>3, <3>4 DEF Counted
  <2>3. CASE CountDown(p)
    <3>1. /\ count' = count - 1 /\ overkill' = overkill /\ state' = state
          /\ pc[p] = "count" /\ pc'[p] = "unlock"
      BY <2>3 DEF CountDown, TypeOK
    <3>2. LiveSet' = LiveSet
      BY <3>1 DEF LiveSet
    <3>3. count + overkill = Cardinality(LiveSet) + 1
      BY <3>1 DEF Counted
    <3>4. ~ \E r \in Pid : pc'[r] = "count"
      BY <2>1, <3>1
    <3>5. count' + overkill' = Cardinality(LiveSet')
      BY <1>0, <3>1, <3>2, <3>3
    <3> QED BY <1>0, <3>2, <3>4, <3>5 DEF Counted
  <2>4. CASE ~ FinishSelf(p) /\ ~ CountDown(p)
    <3>1. /\ count' = count /\ overkill' = overkill
          /\ pc[p] # "count" /\ pc'[p] # "count"
      BY <1>7, <2>4 DEF Wrapper, Return, Wake, LockGuard, OwnGuard, PushGuard,
        AdvanceGuard, GuardStep, BlockSelf, Release, TakeFront, GiveGuard, Rouse, Disown,
        FreeGuard, UnlockGuard, Dropped, TypeOK
    <3>2. LiveSet' = LiveSet
      BY <1>7, <2>4, SerialWrapper DEF LiveSet
    <3> QED BY <1>6, <2>1, <3>1, <3>2
  <2> QED BY <2>2, <2>3, <2>4
<1>8. ASSUME NEW p \in Pid, Tick(p) \/ ChildReturned(p) PROVE Counted'
  <2>1. LiveSet' = LiveSet /\ count' = count /\ overkill' = overkill
    BY <1>8 DEF Tick, ChildReturned, LiveSet
  <2>2. \A r \in Pid : pc'[r] = "count" <=> pc[r] = "count"
    BY <1>8 DEF Tick, ChildReturned, TypeOK
  <2> QED BY <1>6, <2>1, <2>2
<1>9. ASSUME NEW p \in Pid, CreateResumed(p) \/ KillResumed(p) PROVE FALSE
  BY <1>9 DEF CreateResumed, KillResumed, Serial
<1> QED BY <1>1, <1>3, <1>4, <1>5, <1>7, <1>8, <1>9 DEF Next

-----------------------------------------------------------------------------
(* The process table without ticks in wrapper_process *)

SerialInv == TypeOK /\ Whereabouts /\ Guarded /\ Serial /\ Counted

(* In the state without processes, and from there on. *)
LEMMA SerialBegins == Init => SerialInv
<1> SUFFICES ASSUME Init PROVE SerialInv
  OBVIOUS
<1>1. TypeOK /\ Whereabouts /\ Guarded
  BY StartPlaces
<1>2. Serial
  BY QueueAssumption DEF Init, Serial, Gone, WrapperPcs, FreeMutex, Live
<1>3. LiveSet = {} /\ \A r \in Pid : pc[r] # "count"
  BY DEF Init, LiveSet, Live, Gone
<1>4. Counted
  BY <1>3, FS_EmptySet DEF Init, Counted
<1> QED BY <1>1, <1>2, <1>4 DEF SerialInv

LEMMA SerialGoesOn ==
  ASSUME "Preempt" \notin Workload
  PROVE  SerialInv /\ [Next]_vars => SerialInv'
<1> SUFFICES ASSUME SerialInv, [Next]_vars PROVE SerialInv'
  OBVIOUS
<1>1. NobodyLeftInLine
  BY QueueAssumption
  DEF SerialInv, Serial, NobodyLeftInLine, HasWaiter, Front, EmptyQueue, Slots
<1> QED BY <1>1, TypeStep, WhereaboutsStep, GuardedStep, SerialStep, CountedStep
  DEF SerialInv

(* process_count is exact outside the danger zone, but for the kills of     *)
(* processes that had finished: for every size of the table, and whatever   *)
(* programs create and kill, when wrapper_process is not interrupted.       *)
THEOREM CountExactHolds ==
  ASSUME "Preempt" \notin Workload
  PROVE  Spec => []CountExact
<1>1. SerialInv => CountExact
  <2> SUFFICES ASSUME SerialInv, NobodyInDangerZone PROVE count = LiveCount - overkill
    BY DEF CountExact
  <2>1. \A r \in Pid : pc[r] # "count"
    BY DEF SerialInv, NobodyInDangerZone, InDangerZone, Whereabouts
  <2>2. LiveCount = Cardinality(LiveSet)
    BY DEF LiveCount, LiveSet
  <2>3. pointer \in Pid
    BY DEF SerialInv, TypeOK
  <2>4. LiveCount \in Nat /\ count \in Int /\ overkill \in Nat
    <3>1. TypeOK
      BY DEF SerialInv
    <3>2. Cardinality(LiveSet) \in Nat
      BY <2>3, <3>1, OneProcess
    <3> QED BY <2>2, <3>1, <3>2, ProcessAssumption DEF TypeOK
  <2>5. ~ \E r \in Pid : pc[r] = "count"
    BY <2>1
  <2>6. count + overkill = LiveCount
    BY <2>2, <2>4, <2>5 DEF SerialInv, Counted
  <2> QED BY <2>4, <2>6
<1> QED BY <1>1, SerialBegins, SerialGoesOn, PTL DEF Spec

(* process_pointer stands at a free slot, under the same conditions: no *)
(* process is created in the slot of another.                           *)
THEOREM PointerAtFreeSlotHolds ==
  ASSUME "Preempt" \notin Workload
  PROVE  Spec => []PointerAtFreeSlot
<1>1. SerialInv => PointerAtFreeSlot
  BY DEF SerialInv, Serial, Whereabouts, PointerAtFreeSlot, TypeOK
<1> QED BY <1>1, SerialBegins, SerialGoesOn, PTL DEF Spec

(* The owner of process_mutex is awake to give it back, under the same *)
(* conditions.                                                         *)
THEOREM OwnerAwakeHolds ==
  ASSUME "Preempt" \notin Workload
  PROVE  Spec => []OwnerAwake
<1>1. SerialInv => OwnerAwake
  <2> SUFFICES ASSUME SerialInv, guard.owner # NoPid PROVE state[guard.owner] = "READY"
    BY DEF OwnerAwake
  <2>1. PICK p \in Pid : pc[p] \in {"own", "release", "disown", "free"}
    BY DEF SerialInv, Serial
  <2>2. pc[p] \in {"release", "disown"}
    BY <2>1 DEF SerialInv, Guarded
  <2>3. guard.owner = p /\ current = p
    BY <2>2 DEF SerialInv, Serial, WrapperPcs
  <2> QED BY <2>2, <2>3 DEF SerialInv, Serial
<1> QED BY <1>1, SerialBegins, SerialGoesOn, PTL DEF Spec

(* A finished process comes back only as a new one, in the slot at          *)
(* process_pointer, under the same conditions: nobody acts on a state that  *)
(* it read before the process finished.                                     *)
THEOREM NeverRevivedHolds ==
  ASSUME "Preempt" \notin Workload
  PROVE  Spec => NeverRevived
<1> DEFINE Stays(p) == state[p] = "FINISHED" /\ state'[p] # "FINISHED"
                         => p = pointer /\ pointer' # pointer
<1>1. SerialInv /\ [Next]_vars => [\A p \in Pid : Stays(p)]_vars
  <2> SUFFICES ASSUME SerialInv, Next, NEW r \in Pid, state[r] = "FINISHED",
                      state'[r] # "FINISHED"
               PROVE  r = pointer /\ pointer' # pointer
    OBVIOUS
  <2> USE DEF SerialInv
  <2>1. CASE GhostShell
    BY <2>1, GhostShellFacts DEF TypeOK
  <2>2. ASSUME NEW p \in Pid, NEW type \in {"FOREGROUND", "BACKGROUND"}, Create(p, type)
        PROVE  r = pointer /\ pointer' # pointer
    <3>1. current = p /\ pc[p] = "user" /\ p # r
      BY <2>2 DEF Create, Running, Whereabouts, Live, Gone
    <3> QED BY <2>2, <3>1, SerialCreate DEF TypeOK
  <2>3. ASSUME NEW p \in Pid, NEW q \in Pid, Kill(p, q) PROVE FALSE
    BY <2>3, SerialKill DEF TypeOK
  <2>4. ASSUME NEW p \in Pid, Tick(p) \/ ChildReturned(p) PROVE FALSE
    BY <2>4 DEF Tick, ChildReturned
  <2>5. ASSUME NEW p \in Pid, CreateResumed(p) \/ KillResumed(p) PROVE FALSE
    BY <2>5 DEF CreateResumed, KillResumed, Running, Serial, Gone
  <2>6. ASSUME NEW p \in Pid, Wrapper(p) PROVE FALSE
    BY <2>6, SerialWrapper
  <2> QED BY <2>1, <2>2, <2>3, <2>4, <2>5, <2>6 DEF Next
<1> QED BY <1>1, SerialBegins, SerialGoesOn, PTL DEF Spec, NeverRevived

=============================================================================
