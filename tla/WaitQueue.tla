----------------------------- MODULE WaitQueue -----------------------------
(***************************************************************************)
(* The circular waiting list that a mutex (mutex.h:8-15) and a semaphore   *)
(* (sem.h:5-11) embed: an array lockedQueue of PROCESS_QUEUE_SIZE process  *)
(* ids, -1 where a slot is free, the index of the first waiter and the     *)
(* index where the next one goes.  Nothing in the code counts the waiters: *)
(* a push into a full list overwrites the oldest entry, after a message on *)
(* the screen.                                                             *)
(***************************************************************************)
EXTENDS Naturals, FiniteSets

CONSTANTS
  Pid,                 \* the slots of the process table, ready_processes[]
  NoPid,               \* the process id -1
  PROCESS_QUEUE_SIZE   \* lib.h:9, 30 in the code

ASSUME QueueAssumption ==
  /\ PROCESS_QUEUE_SIZE \in Nat \ {0}
  /\ NoPid \notin Pid

Slots == 0 .. PROCESS_QUEUE_SIZE - 1

PidOrNone == Pid \cup {NoPid}

Queue == [slot : [Slots -> PidOrNone], start : Slots, free : Slots]

EmptyQueue == [slot |-> [i \in Slots |-> NoPid], start |-> 0, free |-> 0]

\* Mutated form of Advance: the index wraps one slot too late.
AdvancePastEnd(i) == IF i = PROCESS_QUEUE_SIZE THEN 0 ELSE i + 1

\* index++; if (index == PROCESS_QUEUE_SIZE) index = 0;
Advance(i) == IF i + 1 = PROCESS_QUEUE_SIZE THEN 0 ELSE i + 1

\* Mutated form of Push: the process is stored, the free index stays.
PushInPlace(q, p) == [q EXCEPT !.slot[q.free] = p]

\* Mutated form of Push: the process goes in front of the first waiter.
PushFirst(q, p) ==
  LET i == IF q.start = 0 THEN PROCESS_QUEUE_SIZE - 1 ELSE q.start - 1
  IN  [q EXCEPT !.slot[i] = p, !.start = i]

Push(q, p) ==
  [slot |-> [q.slot EXCEPT ![q.free] = p],
   start |-> q.start, free |-> Advance(q.free)]

Front(q) == q.slot[q.start]

HasWaiter(q) == Front(q) # NoPid

\* Mutated form of Drop: the slot of the process taken out is not cleared.
DropKeepingSlot(q) == [q EXCEPT !.start = Advance(q.start)]

Drop(q) ==
  [slot |-> [q.slot EXCEPT ![q.start] = NoPid],
   start |-> Advance(q.start), free |-> q.free]

\* The processes in the list, in whatever slot.
Members(q) == {q.slot[i] : i \in Slots} \ {NoPid}

\* The line that the list stands for: the slots from the first waiter on.
LineOf(q) ==
  [k \in 1 .. Cardinality(Members(q)) |->
     q.slot[(q.start + k - 1) % PROCESS_QUEUE_SIZE]]

=============================================================================
