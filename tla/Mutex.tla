------------------------------- MODULE Mutex -------------------------------
(***************************************************************************)
(* The kernel's mutexes as programs meet them: mutex_lock and mutex_unlock *)
(* (mutex.c), the release of a finished process's mutexes, and the calls   *)
(* of process.c that wake or finish a process which may be waiting.        *)
(*                                                                         *)
(* A system call runs behind an interrupt gate, with interrupts off, so    *)
(* each one is a single step up to the point where the caller is blocked;  *)
(* LockReturn is what is left of mutex_lock when the caller runs again.    *)
(* The epilogue of a process, wrapper_process, is ordinary code: the timer *)
(* may interrupt it between the wake-up of the parent and the call that    *)
(* finishes the process.  (Inside that call it may too: module Process.)   *)
(* The scheduler runs any READY process; the order in which it really      *)
(* takes them is module RoundRobin's.                                      *)
(***************************************************************************)
EXTENDS MutexRecord

CONSTANTS
  Mutex,      \* the mutexes of the directory
  NoMutex,
  MaxHeld,    \* bound: mutexes a program asks for at the same time
  Workload    \* what programs do besides locking, see Behaviours

\* Two things programs may do to a process that is blocked in mutex_lock:
\* a child of it returns, or somebody kills it.
Behaviours == {"ChildReturns", "KillWaiter"}

ASSUME MutexAssumption == NoMutex \notin Mutex /\ Workload \subseteq Behaviours

VARIABLES
  mutex,    \* the directory: value, owner and lockedQueue of every mutex
  state,    \* ready_processes[p].state
  parent,   \* ready_processes[p].parent
  current,  \* get_current_pid(); NoPid when no process can be run
  pc,       \* where p is: its own code, mutex_lock, or the epilogue
  target,   \* the mutex p is inside mutex_lock for
  holds     \* the mutexes p was told it has: mutex_lock returned

vars == <<mutex, state, parent, current, pc, target, holds>>

TypeOK ==
  /\ mutex \in [Mutex -> MutexStruct]
  /\ state \in [Pid -> {"READY", "BLOCKED", "FINISHED"}]
  /\ parent \in [Pid -> PidOrNone]
  /\ current \in PidOrNone
  /\ pc \in [Pid -> {"user", "lock", "finish"}]
  /\ target \in [Pid -> Mutex \cup {NoMutex}]
  /\ holds \in [Pid -> SUBSET Mutex]
  /\ \A p \in Pid : pc[p] = "lock" <=> target[p] # NoMutex

-----------------------------------------------------------------------------
(* Processes *)

Live(p) == state[p] # "FINISHED"

Running(p, at) == current = p /\ pc[p] = at

Waiting(p) == pc[p] = "lock" /\ state[p] = "BLOCKED"

\* change_process_state(p, READY) for every p of S: a finished one stays so.
Resume(st, S) ==
  [p \in Pid |-> IF p \in S /\ st[p] # "FINISHED" THEN "READY" ELSE st[p]]

\* The scheduler leaves a READY process running.  When all are blocked it
\* goes round the ring for ever with interrupts off, and nobody runs.
Reschedule(st) ==
  LET ready == {p \in Pid : st[p] = "READY"}
  IN  current' \in IF ready = {} THEN {NoPid} ELSE ready

\* When all have finished the scheduler starts over with a shell.
GhostShell(p) ==
  /\ current = NoPid
  /\ \A q \in Pid : ~ Live(q)
  /\ state' = [state EXCEPT ![p] = "READY"]
  /\ parent' = [parent EXCEPT ![p] = NoPid]
  /\ current' = p
  /\ UNCHANGED <<mutex, pc, target, holds>>

\* create_process(BACKGROUND) by p, in a free slot q.
Spawn(p, q) ==
  /\ Running(p, "user")
  /\ ~ Live(q)
  /\ state' = [state EXCEPT ![q] = "READY"]
  /\ parent' = [parent EXCEPT ![q] = p]
  /\ UNCHANGED <<mutex, current, pc, target, holds>>

Tick(p) ==
  /\ current # NoPid
  /\ state[p] = "READY"
  /\ current' = p
  /\ UNCHANGED <<mutex, state, parent, pc, target, holds>>

-----------------------------------------------------------------------------
(* mutex.c *)

\* Mutated form of ReleaseByOwner: nothing is released.
KeepByOwner(q) == mutex

\* The directory after release_mutex_by_owner(q), and whom it resumes.
ReleaseByOwner(q) ==
  [m \in Mutex |-> IF mutex[m].owner = q THEN HandOff(mutex[m]) ELSE mutex[m]]

ResumedByRelease(q) ==
  {Front(mutex[m].queue) : m \in {n \in Mutex : mutex[n].owner = q}} \ {NoPid}

LockReturns(p, m) == holds' = [holds EXCEPT ![p] = @ \cup {m}]

\* The owner has the lock already; or value goes from 0 to 1.
LockAtOnce(p, m) ==
  /\ \/ mutex[m].owner = p /\ UNCHANGED mutex
     \/ /\ mutex[m].owner # p
        /\ mutex[m].value = 0
        /\ mutex' = [mutex EXCEPT ![m].value = 1, ![m].owner = p]
  /\ LockReturns(p, m)
  /\ UNCHANGED <<state, current, pc, target>>

\* The value was 1: the caller joins the queue and is blocked.
LockWaits(p, m) ==
  /\ mutex[m].owner # p
  /\ mutex[m].value = 1
  /\ mutex' = [mutex EXCEPT ![m].queue = Push(@, p)]
  /\ state' = [state EXCEPT ![p] = "BLOCKED"]
  /\ Reschedule(state')
  /\ pc' = [pc EXCEPT ![p] = "lock"]
  /\ target' = [target EXCEPT ![p] = m]
  /\ UNCHANGED holds

Lock(p, m) ==
  /\ Running(p, "user")
  /\ Cardinality(holds[p] \cup {m}) <= MaxHeld
  /\ LockAtOnce(p, m) \/ LockWaits(p, m)
  /\ UNCHANGED parent

\* Back from the scheduler: mutex_lock has nothing left to do or to look at.
LockReturn(p) ==
  /\ Running(p, "lock")
  /\ LockReturns(p, target[p])
  /\ pc' = [pc EXCEPT ![p] = "user"]
  /\ target' = [target EXCEPT ![p] = NoMutex]
  /\ UNCHANGED <<mutex, state, parent, current>>

\* A program unlocks what it locked; the kernel heeds only the owner.
Unlock(p, m) ==
  /\ Running(p, "user")
  /\ m \in holds[p]
  /\ IF mutex[m].owner = p
     THEN /\ mutex' = [mutex EXCEPT ![m] = HandOff(@)]
          /\ state' = Resume(state, {Front(mutex[m].queue)} \ {NoPid})
     ELSE UNCHANGED <<mutex, state>>
  /\ holds' = [holds EXCEPT ![p] = @ \ {m}]
  /\ UNCHANGED <<parent, current, pc, target>>

-----------------------------------------------------------------------------
(* The end of a process *)

\* mark_process_as_finished(q); q's entry in a queue, if any, stays there.
Finish(q) ==
  /\ mutex' = ReleaseByOwner(q)
  /\ state' = [Resume(state, ResumedByRelease(q)) EXCEPT ![q] = "FINISHED"]
  /\ pc' = [pc EXCEPT ![q] = "user"]
  /\ target' = [target EXCEPT ![q] = NoMutex]
  /\ holds' = [holds EXCEPT ![q] = {}]
  /\ IF current = q THEN Reschedule(state') ELSE UNCHANGED current
  /\ UNCHANGED parent

\* The kill system call, on another process or on the caller.
Kill(p, q) ==
  /\ Running(p, "user")
  /\ Live(q)
  /\ Waiting(q) => "KillWaiter" \in Workload
  /\ Finish(q)

\* wrapper_process after entry_point returned: first the parent is resumed,
\* whatever it waits for...
ResumeParent(p) ==
  /\ Running(p, "user")
  /\ LET q == parent[p] IN
       /\ q # NoPid /\ Waiting(q) => "ChildReturns" \in Workload
       /\ state' = Resume(state, {q} \ {NoPid})
  /\ pc' = [pc EXCEPT ![p] = "finish"]
  /\ UNCHANGED <<mutex, parent, current, target, holds>>

\* ... then the process is finished.
Exit(p) == Running(p, "finish") /\ Finish(p)

-----------------------------------------------------------------------------

Init ==
  /\ mutex = [m \in Mutex |-> FreeMutex]
  /\ state = [p \in Pid |-> "FINISHED"]
  /\ parent = [p \in Pid |-> NoPid]
  /\ current = NoPid
  /\ pc = [p \in Pid |-> "user"]
  /\ target = [p \in Pid |-> NoMutex]
  /\ holds = [p \in Pid |-> {}]

Next ==
  \E p \in Pid :
    \/ GhostShell(p)
    \/ Tick(p)
    \/ LockReturn(p)
    \/ ResumeParent(p)
    \/ Exit(p)
    \/ \E m \in Mutex : Lock(p, m) \/ Unlock(p, m)
    \/ \E q \in Pid : Spawn(p, q) \/ Kill(p, q)

Spec == Init /\ [][Next]_vars

\* Every READY process runs again (round robin), and once it runs often
\* enough it gets out of mutex_lock, of its critical section and, when its
\* entry point has returned, of the epilogue.
Fairness ==
  \A p \in Pid :
    /\ WF_vars(Tick(p))
    /\ SF_vars(LockReturn(p))
    /\ SF_vars(Exit(p))
    /\ \A m \in Mutex : SF_vars(Unlock(p, m))

FairSpec == Spec /\ Fairness

-----------------------------------------------------------------------------
(* Properties *)

\* Two processes never both hold a mutex: mutex_lock returned to both and
\* neither unlocked.  mutex_lock does not look at the mutex again after it
\* was blocked, so this rests on nobody else ever resuming a waiter.
MutualExclusion ==
  \A p, q \in Pid : p # q => holds[p] \cap holds[q] = {}

\* A taken mutex belongs to a live process that holds it or is on its way
\* out of mutex_lock with it: somebody can still unlock it.
NoOrphanMutex ==
  \A m \in Mutex : mutex[m].value = 1 =>
    \E p \in Pid :
      /\ mutex[m].owner = p
      /\ Live(p)
      /\ m \in holds[p] \/ target[p] = m

\* A process blocked in mutex_lock is in exactly one slot of the queue of
\* the mutex it waits for, and the mutex is taken: its turn will come.
NoLostWaiter ==
  \A p \in Pid : Waiting(p) =>
    /\ mutex[target[p]].value = 1
    /\ \E i \in Slots : \A j \in Slots :
         mutex[target[p]].queue.slot[j] = p <=> j = i

\* Whoever waits in mutex_lock gets out of it.
EveryWaitEnds == \A p \in Pid : pc[p] = "lock" ~> pc[p] # "lock"

=============================================================================
