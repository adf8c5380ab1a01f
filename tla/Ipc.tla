-------------------------------- MODULE Ipc --------------------------------
(***************************************************************************)
(* One semaphore and one mailbox at work (sem.c:71-132, mailbox.c:73-175). *)
(* Creating and destroying them is in Objects.                             *)
(*                                                                         *)
(* Interrupts are off in a call, which therefore runs in one step from the *)
(* place where the process goes on to the place where it returns or is     *)
(* blocked.  A semaphore protects itself with a mutex of its name, which   *)
(* programs may lock too: then sem_wait and sem_signal are blocked half    *)
(* way, in mutex_lock.                                                     *)
(***************************************************************************)
EXTENDS MutexRecord, Integers, Sequences

CONSTANTS
  Message,               \* what programs write, bytes other than 0
  MAILBOX_BUFFER_SIZE,   \* mailbox.h:6, 4000 in the code
  StartValue,            \* the value the semaphore is created with
  MaxTokens,             \* bound: no more tokens than this are about
  MaxWakes,              \* bound: how often a child wakes a blocked parent
  Workload               \* what happens besides, see Events

\* Programs lock the mutex of the semaphore; the child of a process blocked
\* in the mailbox, or in the semaphore, returns; a process is killed while
\* it is blocked.
Events == {"Shared", "ReaderWoken", "WaiterWoken", "KillWaiter"}

ASSUME IpcAssumption ==
  /\ Message \subseteq Seq(Nat \ {0})
  /\ MAILBOX_BUFFER_SIZE \in Nat \ {0}
  /\ StartValue \in 0 .. MaxTokens /\ MaxTokens \in Nat /\ MaxWakes \in Nat
  /\ Workload \subseteq Events

VARIABLES
  state,    \* ready_processes[p].state
  sem,      \* *sem, with its mutex
  box,      \* *mailbox
  call,     \* where each process is in a call
  got,      \* history: what the last read_message returned, and to whom
  credit,   \* history: tokens given and not yet taken away by a sem_wait
  wakes,    \* how often a child has woken a parent
  use       \* bound: the programs use the semaphore, or the mailbox

vars == <<state, sem, box, call, got, credit, wakes, use>>

User == [at |-> "user", of |-> "none", bytes |-> 0]

Cells == 0 .. MAILBOX_BUFFER_SIZE - 1

Resume(st, S) ==
  [p \in Pid |-> IF p \in S /\ st[p] # "FINISHED" THEN "READY" ELSE st[p]]

Block(st, p) == [st EXCEPT ![p] = "BLOCKED"]

Runs(p, at) == state[p] = "READY" /\ call[p].at = at

GoesTo(p, at, of, n) == call' = [call EXCEPT ![p] = [at |-> at, of |-> of, bytes |-> n]]

Returns(p) == call' = [call EXCEPT ![p] = User]

-----------------------------------------------------------------------------
(* The mutex of the semaphore *)

MayLock(p) == sem.mutex.owner = p \/ sem.mutex.value = 0

\* The semaphore with its mutex locked by p; p may have come out of
\* mutex_lock without it.
Locked(p) ==
  IF sem.mutex.value = 0
  THEN [sem EXCEPT !.mutex.value = 1, !.mutex.owner = p] ELSE sem

\* mutex_unlock by p of semaphore x, and whom it wakes.
Unlocked(x, p) == IF x.mutex.owner = p THEN [x EXCEPT !.mutex = HandOff(@)] ELSE x

WokenByUnlock(x, p) == IF x.mutex.owner = p THEN {Front(x.mutex.queue)} ELSE {}

\* The mutex is taken: the call waits for it.
WaitsForMutex(p, of) ==
  /\ ~ MayLock(p)
  /\ sem' = [sem EXCEPT !.mutex.queue = Push(@, p)]
  /\ state' = Block(state, p)
  /\ GoesTo(p, "mutex", of, 0)
  /\ UNCHANGED <<box, got, credit, wakes>>

-----------------------------------------------------------------------------
(* Semaphore *)

\* sem_wait on x from where it has the mutex.
SemWaitGoesOn(p, x) ==
  /\ IF x.value = 0
     THEN /\ sem' = Unlocked([x EXCEPT !.queue = Push(@, p)], p)
          /\ state' = Block(Resume(state, WokenByUnlock(x, p)), p)
          /\ GoesTo(p, "sem", "wait", 0)
          /\ UNCHANGED credit
     ELSE /\ sem' = Unlocked([x EXCEPT !.value = @ - 1], p)
          /\ state' = Resume(state, WokenByUnlock(x, p))
          /\ Returns(p)
          /\ credit' = credit - 1
  /\ UNCHANGED <<box, got, wakes>>

\* Mutated form of SemSignalGoesOn: the waiter is woken, and competes for
\* the token with everyone else.
WakesAndGives(p, x) ==
  /\ sem' = Unlocked([x EXCEPT !.value = @ + 1,
                               !.queue = IF HasWaiter(@) THEN Drop(@) ELSE @], p)
  /\ state' = Resume(state, {Front(x.queue)} \cup WokenByUnlock(x, p))
  /\ Returns(p)
  /\ credit' = credit + 1
  /\ UNCHANGED <<box, got, wakes>>

\* sem_signal on x from where it has the mutex: the first waiter is resumed
\* and has the token, or the value counts it.
SemSignalGoesOn(p, x) ==
  /\ sem' = Unlocked(IF HasWaiter(x.queue) THEN [x EXCEPT !.queue = Drop(@)]
                     ELSE [x EXCEPT !.value = @ + 1], p)
  /\ state' = Resume(state, {Front(x.queue)} \cup WokenByUnlock(x, p))
  /\ Returns(p)
  /\ credit' = credit + 1
  /\ UNCHANGED <<box, got, wakes>>

sem_wait(p) ==
  /\ Runs(p, "user")
  /\ WaitsForMutex(p, "wait") \/ (MayLock(p) /\ SemWaitGoesOn(p, Locked(p)))

sem_signal(p) ==
  /\ Runs(p, "user")
  /\ credit + Cardinality({q \in Pid : call[q].of = "signal"}) < MaxTokens
  /\ WaitsForMutex(p, "signal") \/ (MayLock(p) /\ SemSignalGoesOn(p, Locked(p)))

\* A program locks the mutex of that name, and unlocks it.
mutex_lock(p) ==
  /\ "Shared" \in Workload
  /\ Runs(p, "user")
  /\ \/ WaitsForMutex(p, "lock")
     \/ /\ MayLock(p)
        /\ sem' = Locked(p)
        /\ UNCHANGED <<state, box, call, got, credit, wakes>>

mutex_unlock(p) ==
  /\ Runs(p, "user")
  /\ sem.mutex.owner = p
  /\ sem' = Unlocked(sem, p)
  /\ state' = Resume(state, WokenByUnlock(sem, p))
  /\ UNCHANGED <<box, call, got, credit, wakes>>

\* Back from the scheduler in mutex_lock.
MutexLockReturns(p) ==
  /\ Runs(p, "mutex")
  /\ CASE call[p].of = "wait" -> SemWaitGoesOn(p, sem)
       [] call[p].of = "signal" -> SemSignalGoesOn(p, sem)
       [] OTHER -> Returns(p) /\ UNCHANGED <<state, sem, box, got, credit, wakes>>

\* Back from the scheduler at the end of sem_wait: there is nothing to look
\* at again, the process goes on as if it had the token.
SemWaitReturns(p) ==
  /\ Runs(p, "sem")
  /\ Returns(p)
  /\ credit' = credit - 1
  /\ UNCHANGED <<state, sem, box, got, wakes>>

-----------------------------------------------------------------------------
(* Mailbox *)

readable_bytes == MAILBOX_BUFFER_SIZE - box.empty

\* block_process puts p in the list; k is the next place.  After the last
\* place of the list comes queue_index itself, which becomes the number of
\* the process, and one more; beyond that it is not the mailbox any more.
Listed(k, p) ==
  IF box.index < PROCESS_QUEUE_SIZE
  THEN k = box.index + 1 /\ box' = [box EXCEPT !.list[box.index] = p, !.index = k]
  ELSE /\ IF box.index = PROCESS_QUEUE_SIZE THEN k \in 1 .. Cardinality(Pid)
          ELSE k = box.index + 1
       /\ box' = [box EXCEPT !.index = k]

\* wake_up_processes goes through the list, and through what comes after it.
Woken(S) ==
  LET listed == {box.list[i] : i \in {j \in Slots : j < box.index}}
  IN  /\ listed \subseteq S
      /\ box.index <= PROCESS_QUEUE_SIZE => S = listed

write_message(p, msg) ==
  /\ Runs(p, "user")
  /\ Len(msg) <= box.empty
  /\ box' = [box EXCEPT
       !.buffer = [c \in Cells |->
          LET k == (c + MAILBOX_BUFFER_SIZE - box.write) % MAILBOX_BUFFER_SIZE
          IN  IF k < Len(msg) THEN msg[k + 1] ELSE box.buffer[c]],
       !.write = (@ + Len(msg)) % MAILBOX_BUFFER_SIZE,
       !.empty = @ - Len(msg),
       !.index = 0]
  /\ \E S \in SUBSET PidOrNone : Woken(S) /\ state' = Resume(state, S)
  /\ UNCHANGED <<sem, call, got, credit, wakes>>

\* Mutated form of ReadGoesOn: a reader that was woken takes what there is.
ReadsAnyway(p, n) ==
  /\ got' = [by |-> p, bytes |->
       [k \in 1 .. n |-> box.buffer[(box.read + k - 1) % MAILBOX_BUFFER_SIZE]]]
  /\ box' = [box EXCEPT !.read = (@ + n) % MAILBOX_BUFFER_SIZE, !.empty = @ + n]
  /\ Returns(p)
  /\ UNCHANGED <<state, sem, credit, wakes>>

\* read_message from the test of its loop on.
ReadGoesOn(p, n) ==
  /\ IF readable_bytes < n
     THEN /\ \E k \in 1 .. PROCESS_QUEUE_SIZE + Cardinality(Pid) : Listed(k, p)
          /\ state' = Block(state, p)
          /\ GoesTo(p, "box", "read", n)
          /\ UNCHANGED got
     ELSE /\ got' = [by |-> p, bytes |->
               [k \in 1 .. n |-> box.buffer[(box.read + k - 1) % MAILBOX_BUFFER_SIZE]]]
          /\ box' = [box EXCEPT !.read = (@ + n) % MAILBOX_BUFFER_SIZE, !.empty = @ + n]
          /\ Returns(p)
          /\ UNCHANGED state
  /\ UNCHANGED <<sem, credit, wakes>>

read_message(p, n) == Runs(p, "user") /\ ReadGoesOn(p, n)

Reread(p) == Runs(p, "box") /\ ReadGoesOn(p, call[p].bytes)

-----------------------------------------------------------------------------
(* What happens to a process besides *)

\* wrapper_process of a child resumes the parent, wherever that is blocked.
ChildReturns(p) ==
  /\ state[p] = "BLOCKED"
  /\ (IF call[p].at = "box" THEN "ReaderWoken" ELSE "WaiterWoken") \in Workload
  /\ wakes < MaxWakes
  /\ wakes' = wakes + 1
  /\ state' = Resume(state, {p})
  /\ UNCHANGED <<sem, box, call, got, credit>>

\* The process is killed.  Its mutex is given up, its places in the lists
\* are not.  A process killed in the kernel would be blocked or preempted;
\* one that is on its way out of sem_wait takes its token with it.
Killed(p) ==
  /\ Runs(p, "user") \/ (state[p] = "BLOCKED" /\ "KillWaiter" \in Workload)
  /\ sem' = Unlocked(sem, p)
  /\ state' = [Resume(state, WokenByUnlock(sem, p)) EXCEPT ![p] = "FINISHED"]
  /\ Returns(p)
  /\ UNCHANGED <<box, got, credit, wakes>>

\* A new process in the same slot.
Created(p) ==
  /\ state[p] = "FINISHED"
  /\ state' = [state EXCEPT ![p] = "READY"]
  /\ UNCHANGED <<sem, box, call, got, credit, wakes>>

Init ==
  /\ state = [p \in Pid |-> "READY"]
  /\ sem = [value |-> StartValue, queue |-> EmptyQueue, mutex |-> FreeMutex]
  /\ box = [read |-> 0, write |-> 0, empty |-> MAILBOX_BUFFER_SIZE, index |-> 0,
            buffer |-> [c \in Cells |-> 0], list |-> [i \in Slots |-> NoPid]]
  /\ call = [p \in Pid |-> User]
  /\ got = [by |-> NoPid, bytes |-> <<>>]
  /\ credit = StartValue
  /\ wakes = 0
  /\ use \in {"sem", "box"}

UsesSemaphore(p) ==
  \/ sem_wait(p) \/ sem_signal(p) \/ mutex_lock(p) \/ mutex_unlock(p)
  \/ MutexLockReturns(p) \/ SemWaitReturns(p)

UsesMailbox(p) ==
  \/ Reread(p)
  \/ \E msg \in Message : write_message(p, msg)
  \/ \E n \in 0 .. MAILBOX_BUFFER_SIZE : read_message(p, n)

Next ==
  /\ UNCHANGED use
  /\ \E p \in Pid :
       \/ use = "sem" /\ UsesSemaphore(p)
       \/ use = "box" /\ UsesMailbox(p)
       \/ ChildReturns(p) \/ Killed(p) \/ Created(p)

Spec == Init /\ [][Next]_vars

-----------------------------------------------------------------------------
(* Properties *)

TypeOK ==
  /\ state \in [Pid -> {"READY", "BLOCKED", "FINISHED"}]
  /\ sem.value \in 0 .. MaxTokens /\ sem.queue \in Queue /\ sem.mutex \in MutexStruct
  /\ box.read \in Cells /\ box.write \in Cells
  /\ box.empty \in 0 .. MAILBOX_BUFFER_SIZE
  /\ box.index \in 0 .. PROCESS_QUEUE_SIZE

\* No token appears and none is lost: what was given and not yet taken is in
\* the value, or in the hands of processes on their way out of sem_wait.
\* sem_wait does not look again, so this rests on nobody else resuming the
\* waiters.
TokensSound ==
  sem.value + Cardinality({p \in Pid : Runs(p, "sem")}) = credit

\* Nobody sleeps for a token that is there, and everyone who sleeps in
\* sem_wait is in the queue, once, where the next signals find it.
SleepersInLine ==
  \A p \in Pid : state[p] = "BLOCKED" /\ call[p].at = "sem" =>
    /\ sem.value = 0
    /\ Cardinality({i \in Slots : sem.queue.slot[i] = p}) = 1

\* Nobody sleeps for bytes that are there, and everyone who sleeps in
\* read_message is in the part of the list that the next write goes through.
ReadersInList ==
  \A p \in Pid : state[p] = "BLOCKED" /\ call[p].at = "box" =>
    /\ readable_bytes < call[p].bytes
    /\ \E i \in Slots : i < box.index /\ box.list[i] = p

\* Nobody sleeps on although what it waits for is there, or where nobody
\* will look for it.
NobodyForgotten == TypeOK /\ SleepersInLine /\ ReadersInList

Counting == INSTANCE CountingSemaphore
  WITH value <- sem.value, line <- LineOf(sem.queue)

\* The semaphore implements CountingSemaphore: tokens go to waiters directly
\* and in the order of their arrival at the queue.
ServesInOrder == Counting!Spec

Bytes == INSTANCE ByteQueue
  WITH Capacity <- MAILBOX_BUFFER_SIZE, Nobody <- NoPid,
       content <- [k \in 1 .. readable_bytes |->
                     box.buffer[(box.read + k - 1) % MAILBOX_BUFFER_SIZE]]

\* The mailbox implements ByteQueue: round the ring, full or empty, with
\* several readers woken by one message and some of them too early, no byte
\* is lost, doubled, or given out of order.
KeepsBytes == Bytes!Spec

=============================================================================
