------------------------------ MODULE Process ------------------------------
(***************************************************************************)
(* The process table (process.c) and the mutex that guards it,             *)
(* process_mutex.  A process is created and killed by system calls, which  *)
(* run with interrupts off and stop only when process_mutex is taken.  It  *)
(* ends by itself in wrapper_process, which runs with interrupts on: here  *)
(* every write of it to shared memory is a step, with the timer between    *)
(* any two, but a queue index wraps in the step that increments it, and    *)
(* the owner takes the head of the queue in one.  Other mutexes are module *)
(* Mutex's.                                                                *)
(***************************************************************************)
EXTENDS MutexRecord, Integers, FiniteSets

CONSTANTS
  MAX_PROCESS_COUNT,   \* binary_info.h, 50 in the code
  MaxOverkill,         \* bound: kills of processes that have finished already
  Workload             \* what the timer and programs do, see Behaviours

\* The timer may interrupt wrapper_process after the entry point returned;
\* programs may kill any process id, also one that has finished, and one
\* whose parent waits for it in the foreground.
Behaviours == {"Preempt", "WildKill"}

ASSUME ProcessAssumption ==
  /\ MAX_PROCESS_COUNT \in Nat \ {0, 1}
  /\ MaxOverkill \in Nat
  /\ Pid = 0 .. MAX_PROCESS_COUNT - 1
  /\ Workload \subseteq Behaviours

VARIABLES
  state,     \* ready_processes[p].state
  parent,    \* ready_processes[p].parent
  pointer,   \* process_pointer: the slot the next process gets
  count,     \* process_count
  guard,     \* process_mutex
  current,   \* get_current_pid(); NoPid when nobody can run
  pc,        \* where p is
  arg,       \* the process id in a local variable of p's kernel code
  overkill   \* history: how many kills hit a process that had finished

vars == <<state, parent, pointer, count, guard, current, pc, arg, overkill>>

\* In its program; asleep after create_process(FOREGROUND); inside a system
\* call, waiting for process_mutex.
SysPcs == {"user", "child", "createFG", "createBG", "kill"}

\* wrapper_process, mutex_lock, release_mutex_by_owner, mutex_super_unlock
\* and mark_process_as_finished, up to the next write.
WrapperPcs ==
  {"wake", "lock", "own", "push", "advance", "block", "release",
   "take", "give", "rouse", "disown", "free", "finish", "count", "unlock"}

\* The slot has no process, or one that was killed: its stack.current is the
\* base of its stack.  Should a late resume_process write READY into the
\* state, what runs then is undefined; here it does nothing.
Gone == "gone"

TypeOK ==
  /\ state \in [Pid -> {"READY", "BLOCKED", "FINISHED"}]
  /\ parent \in [Pid -> PidOrNone]
  /\ pointer \in Pid
  /\ count \in Int /\ count <= MAX_PROCESS_COUNT
  /\ guard \in MutexStruct
  /\ current \in PidOrNone
  /\ pc \in [Pid -> SysPcs \cup WrapperPcs \cup {Gone}]
  /\ arg \in [Pid -> PidOrNone]
  /\ overkill \in 0 .. MaxOverkill

-----------------------------------------------------------------------------
(* Helpers *)

Live(p) == state[p] # "FINISHED"

Running(p, at) == current = p /\ pc[p] = at

Goto(p, to) == pc' = [pc EXCEPT ![p] = to]

\* change_process_state(p, READY) in one go, with interrupts off.
Resume(st, p) ==
  IF p \in Pid /\ st[p] # "FINISHED" THEN [st EXCEPT ![p] = "READY"] ELSE st

\* A READY process goes on; with none left the scheduler spins.
Reschedule(st) ==
  LET ready == {p \in Pid : st[p] = "READY"}
  IN  current' \in IF ready = {} THEN {NoPid} ELSE ready

\* Mutated form of Unlocked: the mutex stays with p.
StillLocked(p, x) == x

\* mutex_unlock by p, in one go.
Unlocked(p, x) == IF x.owner = p THEN HandOff(x) ELSE x

\* The timer saves the current process, if it has not finished, and lets p go
\* on; one that has finished is dropped, see Dropped.
Tick(p) ==
  /\ current # NoPid
  /\ Live(current)
  /\ pc[current] \in WrapperPcs => "Preempt" \in Workload
  /\ state[p] = "READY"
  /\ current' = p
  /\ UNCHANGED <<state, parent, pointer, count, guard, pc, arg, overkill>>

-----------------------------------------------------------------------------
(* create_process *)

FreeSlots(st) == {q \in Pid : st[q] = "FINISHED"}

\* How far process_pointer goes from slot i to slot j, at least one step.
Distance(i, j) == ((j - i - 1) % MAX_PROCESS_COUNT) + 1

\* Mutated form of NextFree: the pointer just goes on to the next slot.
NextSlot(st, i) == (i + 1) % MAX_PROCESS_COUNT

NextFree(st, i) ==
  CHOOSE j \in FreeSlots(st) :
    \A k \in FreeSlots(st) : Distance(i, j) <= Distance(i, k)

\* Bound: the last free slot is never taken, process_pointer would go round
\* the table for ever, with interrupts off.
SlotsLeft == Cardinality(FreeSlots(state)) > 1

\* get_available_container once process_mutex is held, its unlock, and the
\* rest of create_process.  Bound: a full count, with which create_process
\* would use slot -1, is not reached.
TakeSlot(p, type, x) ==
  LET slot == pointer
      taken == [state EXCEPT ![slot] = "READY"]
      woken == IF x.owner = p THEN Resume(taken, Front(x.queue)) ELSE taken
  IN  /\ SlotsLeft
      /\ count < MAX_PROCESS_COUNT
      /\ pointer' = NextFree(taken, slot)
      /\ count' = count + 1
      /\ guard' = Unlocked(p, x)
      /\ parent' = [parent EXCEPT ![slot] = p]
      /\ arg' = [arg EXCEPT ![slot] = NoPid]
      /\ UNCHANGED overkill
      /\ IF type = "FOREGROUND"
         THEN /\ state' = [woken EXCEPT ![p] = "BLOCKED"]
              /\ pc' = [pc EXCEPT ![slot] = "user", ![p] = "child"]
              /\ Reschedule(state')
         ELSE /\ state' = woken
              /\ pc' = [pc EXCEPT ![slot] = "user", ![p] = "user"]
              /\ UNCHANGED current

\* mutex_lock(process_mutex) inside a system call: p owns it already, or
\* gets it, or is queued and blocked.
Enter(p, x) ==
  \/ guard.owner = p /\ x = guard
  \/ /\ guard.owner # p
     /\ guard.value = 0
     /\ x = [guard EXCEPT !.value = 1, !.owner = p]

Block(p, at) ==
  /\ guard.owner # p
  /\ guard.value = 1
  /\ guard' = [guard EXCEPT !.queue = Push(@, p)]
  /\ state' = [state EXCEPT ![p] = "BLOCKED"]
  /\ Goto(p, at)
  /\ Reschedule(state')

Create(p, type) ==
  /\ Running(p, "user")
  /\ \/ \E x \in {guard, [guard EXCEPT !.value = 1, !.owner = p]} :
          Enter(p, x) /\ TakeSlot(p, type, x)
     \/ /\ Block(p, IF type = "FOREGROUND" THEN "createFG" ELSE "createBG")
        /\ UNCHANGED <<parent, pointer, count, arg, overkill>>

\* Resumed inside get_available_container: nothing is looked at again.
CreateResumed(p) ==
  /\ current = p
  /\ pc[p] \in {"createFG", "createBG"}
  /\ TakeSlot(p, IF pc[p] = "createFG" THEN "FOREGROUND" ELSE "BACKGROUND", guard)

\* Resumed after create_process(FOREGROUND) blocked the caller.
ChildReturned(p) ==
  /\ Running(p, "child")
  /\ Goto(p, "user")
  /\ UNCHANGED <<state, parent, pointer, count, guard, current, arg, overkill>>

\* The ring is empty and get_current_pid() is -1, the owner of a free
\* process_mutex: mutex_lock takes it for locked by the caller, mutex_unlock
\* hands it on.
GhostShell ==
  /\ current = NoPid
  /\ \A q \in Pid : ~ Live(q)
  /\ guard.owner = NoPid
  /\ count < MAX_PROCESS_COUNT
  /\ state' = [state EXCEPT ![pointer] = "READY"]
  /\ pointer' = NextFree(state', pointer)
  /\ count' = count + 1
  /\ guard' = HandOff(guard)
  /\ parent' = [parent EXCEPT ![pointer] = NoPid]
  /\ pc' = [pc EXCEPT ![pointer] = "user"]
  /\ arg' = [arg EXCEPT ![pointer] = NoPid]
  /\ current' = pointer
  /\ UNCHANGED overkill

-----------------------------------------------------------------------------
(* mark_process_as_finished as a system call: kill *)

\* With process_mutex held (x), or believed to be: release_mutex_by_owner(q)
\* may hand it on, then q is finished and p unlocks.
KillOff(p, q, x) ==
  LET freed == IF x.owner = q THEN HandOff(x) ELSE x
      done  == Unlocked(p, freed)
      st1   == IF x.owner = q THEN Resume(state, freed.owner) ELSE state
      st2   == [st1 EXCEPT ![q] = "FINISHED"]
  IN  /\ overkill' = overkill + (IF Live(q) THEN 0 ELSE 1)
      /\ overkill' <= MaxOverkill
      /\ guard' = done
      /\ state' = IF freed.owner = p THEN Resume(st2, done.owner) ELSE st2
      /\ count' = count - 1
      /\ pc' = [pc EXCEPT ![p] = "user", ![q] = Gone]
      /\ arg' = [arg EXCEPT ![p] = NoPid]
      /\ IF p = q THEN Reschedule(state') ELSE UNCHANGED current
      /\ UNCHANGED <<parent, pointer>>

Awaited(q) ==
  parent[q] # NoPid /\ pc[parent[q]] = "child" /\ state[parent[q]] = "BLOCKED"

Kill(p, q) ==
  /\ Running(p, "user")
  /\ "WildKill" \in Workload \/ (Live(q) /\ ~ Awaited(q))
  /\ \/ \E x \in {guard, [guard EXCEPT !.value = 1, !.owner = p]} :
          Enter(p, x) /\ KillOff(p, q, x)
     \/ /\ Block(p, "kill")
        /\ arg' = [arg EXCEPT ![p] = q]
        /\ UNCHANGED <<parent, pointer, count, overkill>>

KillResumed(p) == Running(p, "kill") /\ KillOff(p, arg[p], guard)

-----------------------------------------------------------------------------
(* wrapper_process, one write at a time *)

\* Mutated form of Return: the parent is looked at, whatever its state.
ReturnToAnyone(p) ==
  /\ Running(p, "user")
  /\ IF parent[p] # NoPid
     THEN Goto(p, "wake") /\ arg' = [arg EXCEPT ![p] = parent[p]]
     ELSE Goto(p, "lock") /\ UNCHANGED arg
  /\ UNCHANGED <<state, parent, pointer, count, guard, current, overkill>>

\* Mutated form of Return: the parent is forgotten.
ReturnInSilence(p) ==
  /\ Running(p, "user")
  /\ Goto(p, "lock")
  /\ UNCHANGED <<state, parent, pointer, count, guard, current, arg, overkill>>

\* The entry point has returned.  resume_process(parent) reads the parent's
\* state, and writes it if the parent is BLOCKED.
Return(p) ==
  /\ Running(p, "user")
  /\ IF parent[p] # NoPid /\ state[parent[p]] = "BLOCKED"
     THEN Goto(p, "wake") /\ arg' = [arg EXCEPT ![p] = parent[p]]
     ELSE Goto(p, "lock") /\ UNCHANGED arg
  /\ UNCHANGED <<state, parent, pointer, count, guard, current, overkill>>

Wake(p) ==
  /\ Running(p, "wake")
  /\ state' = [state EXCEPT ![arg[p]] = "READY"]
  /\ arg' = [arg EXCEPT ![p] = NoPid]
  /\ Goto(p, "lock")
  /\ UNCHANGED <<parent, pointer, count, guard, current, overkill>>

\* mutex_lock(process_mutex): the test of the owner and the exchange.
LockGuard(p) ==
  /\ Running(p, "lock")
  /\ IF guard.owner = p THEN Goto(p, "release") /\ UNCHANGED guard
     ELSE IF guard.value = 0
          THEN Goto(p, "own") /\ guard' = [guard EXCEPT !.value = 1]
          ELSE Goto(p, "push") /\ UNCHANGED guard
  /\ UNCHANGED <<state, parent, pointer, count, current, arg, overkill>>

\* A write of p to process_mutex alone.
GuardStep(p, from, to, x) ==
  /\ Running(p, from)
  /\ guard' = x
  /\ Goto(p, to)
  /\ UNCHANGED <<state, parent, pointer, count, current, arg, overkill>>

OwnGuard(p) == GuardStep(p, "own", "release", [guard EXCEPT !.owner = p])

PushGuard(p) ==
  GuardStep(p, "push", "advance", [guard EXCEPT !.queue.slot[guard.queue.free] = p])

AdvanceGuard(p) ==
  GuardStep(p, "advance", "block", [guard EXCEPT !.queue.free = Advance(@)])

\* mark_process_as_blocked(p); later p goes on behind the call.
BlockSelf(p) ==
  /\ Running(p, "block")
  /\ state' = [state EXCEPT ![p] = "BLOCKED"]
  /\ Goto(p, "release")
  /\ Reschedule(state')
  /\ UNCHANGED <<parent, pointer, count, guard, arg, overkill>>

\* release_mutex_by_owner(p) comes to process_mutex, the first of the
\* directory: it belongs to p, who needs it until it has finished itself.
\* mutex_super_unlock looks at the head of the queue.
Release(p) ==
  /\ Running(p, "release")
  /\ Goto(p, IF guard.owner # p THEN "finish"
             ELSE IF HasWaiter(guard.queue) THEN "take" ELSE "disown")
  /\ UNCHANGED <<state, parent, pointer, count, guard, current, arg, overkill>>

TakeFront(p) ==
  /\ Running(p, "take")
  /\ arg' = [arg EXCEPT ![p] = Front(guard.queue)]
  /\ guard' = [guard EXCEPT !.queue = Drop(@)]
  /\ Goto(p, "give")
  /\ UNCHANGED <<state, parent, pointer, count, current, overkill>>

GiveGuard(p) == GuardStep(p, "give", "rouse", [guard EXCEPT !.owner = arg[p]])

Rouse(p) ==
  /\ Running(p, "rouse")
  /\ state' = Resume(state, arg[p])
  /\ arg' = [arg EXCEPT ![p] = NoPid]
  /\ Goto(p, "finish")
  /\ UNCHANGED <<parent, pointer, count, guard, current, overkill>>

\* Mutated form of Disown: the value is reset before the owner.
FreeFirst(p) == GuardStep(p, "disown", "free", [guard EXCEPT !.value = 0])

Disown(p) == GuardStep(p, "disown", "free", [guard EXCEPT !.owner = NoPid])

FreeGuard(p) == GuardStep(p, "free", "finish", [guard EXCEPT !.value = 0])

\* From here on the next tick is p's last.
FinishSelf(p) ==
  /\ Running(p, "finish")
  /\ state' = [state EXCEPT ![p] = "FINISHED"]
  /\ Goto(p, "count")
  /\ UNCHANGED <<parent, pointer, count, guard, current, arg, overkill>>

\* Mutated form of CountDown: the counter is decremented twice.
CountDownTwice(p) ==
  /\ Running(p, "count")
  /\ count' = count - 2
  /\ Goto(p, "unlock")
  /\ UNCHANGED <<state, parent, pointer, guard, current, arg, overkill>>

CountDown(p) ==
  /\ Running(p, "count")
  /\ count' = count - 1
  /\ Goto(p, "unlock")
  /\ UNCHANGED <<state, parent, pointer, guard, current, arg, overkill>>

\* mutex_unlock, of no effect unless p was made the owner in the meantime,
\* and the last _force_irq00.
UnlockGuard(p) ==
  /\ Running(p, "unlock")
  /\ IF guard.owner = p
     THEN /\ guard' = HandOff(guard)
          /\ state' = Resume(state, guard'.owner)
     ELSE UNCHANGED <<guard, state>>
  /\ Goto(p, Gone)
  /\ Reschedule(state')
  /\ UNCHANGED <<parent, pointer, count, arg, overkill>>

\* The timer interrupts a process between FINISHED and the end of
\* wrapper_process, and the scheduler drops it.
Dropped(p) ==
  /\ current = p
  /\ pc[p] \in {"count", "unlock"}
  /\ "Preempt" \in Workload
  /\ Goto(p, Gone)
  /\ Reschedule(state)
  /\ UNCHANGED <<state, parent, pointer, count, guard, arg, overkill>>

-----------------------------------------------------------------------------

Init ==
  /\ state = [p \in Pid |-> "FINISHED"]
  /\ parent = [p \in Pid |-> NoPid]
  /\ pointer = 0
  /\ count = 0
  /\ guard = FreeMutex
  /\ current = NoPid
  /\ pc = [p \in Pid |-> Gone]
  /\ arg = [p \in Pid |-> NoPid]
  /\ overkill = 0

Wrapper(p) ==
  \/ Return(p) \/ Wake(p)
  \/ LockGuard(p) \/ OwnGuard(p)
  \/ PushGuard(p) \/ AdvanceGuard(p) \/ BlockSelf(p)
  \/ Release(p) \/ TakeFront(p) \/ GiveGuard(p) \/ Rouse(p)
  \/ Disown(p) \/ FreeGuard(p)
  \/ FinishSelf(p) \/ CountDown(p) \/ UnlockGuard(p) \/ Dropped(p)

Next ==
  \/ GhostShell
  \/ \E p \in Pid :
       \/ Tick(p)
       \/ \E type \in {"FOREGROUND", "BACKGROUND"} : Create(p, type)
       \/ CreateResumed(p) \/ ChildReturned(p)
       \/ \E q \in Pid : Kill(p, q)
       \/ KillResumed(p)
       \/ Wrapper(p)

Spec == Init /\ [][Next]_vars

-----------------------------------------------------------------------------
(* Properties *)

\* Between the comments DANGER ZONE START and END of process.c: p got past
\* mutex_lock(process_mutex) and has not come to mutex_unlock.
InDangerZone(p) ==
  \/ /\ state[p] = "READY"
     /\ pc[p] \in {"release", "take", "give", "rouse", "disown", "free", "finish"}
  \/ current = p /\ pc[p] = "count"

NobodyInDangerZone == \A p \in Pid : ~ InDangerZone(p)

LiveCount == Cardinality({p \in Pid : Live(p)})

\* process_count is the number of processes that have not finished, except
\* while a process is in the danger zone, and but for the kills of finished
\* processes, which are counted off as well: create_process relies on it to
\* see that the table is full.
CountExact == NobodyInDangerZone => count = LiveCount - overkill

\* A finished process stays finished: its slot comes back to life only as a
\* new process, in the slot process_pointer was at.  Whoever resumes a
\* process must not act on a state it read before the process finished.
NeverRevived ==
  [][\A p \in Pid : state[p] = "FINISHED" /\ state'[p] # "FINISHED"
       => p = pointer /\ pointer' # pointer]_vars

\* Who is made the owner of process_mutex is awake to use it; if not, no
\* process is ever created or finished again.
OwnerAwake ==
  guard.owner # NoPid =>
    \/ state[guard.owner] = "READY"
    \/ \E p \in Pid : Live(p) /\ pc[p] = "rouse" /\ arg[p] = guard.owner

\* A process that waits for its foreground child has a child that has still
\* to wake it.
ChildStillToReturn ==
  \A p \in Pid : pc[p] = "child" /\ state[p] = "BLOCKED" =>
    \E q \in Pid : Live(q) /\ parent[q] = p /\ pc[q] \in SysPcs \cup {"wake"}

\* process_pointer stands at a free slot, which the next process can have.
PointerAtFreeSlot == ~ Live(pointer)

\* The value and the owner of process_mutex are written apart, but a free
\* mutex has no owner, and one process at a time got it from the exchange and
\* has not written its name yet.  In larger tables that takes a condition,
\* NobodyLeftInLine of ProcessProofs.
GuardCoherent ==
  /\ TypeOK
  /\ guard.value = 0 => guard.owner = NoPid
  /\ \A p \in Pid : Live(p) /\ pc[p] = "own" =>
       /\ guard.value = 1
       /\ \A q \in Pid : Live(q) /\ pc[q] = "own" => p = q

=============================================================================
