----------------------------- MODULE Scheduler -----------------------------
(***************************************************************************)
(* The scheduler (scheduler.c): short_term_scheduling, which every timer   *)
(* tick and every _force_irq00 runs, over the ring of module RoundRobin.   *)
(* Its loop over blocked and finished processes is taken one iteration at  *)
(* a time; nothing else happens meanwhile, interrupts are off.  What the   *)
(* running process does is reduced to the calls that change the state of a *)
(* process or put one on the stack to_queue.                               *)
(***************************************************************************)
EXTENDS RoundRobin, FiniteSets

CONSTANTS
  Priority,    \* the priorities processes are given, 0..MAX_PRIORITY in the code
  Workload     \* what programs do, see Behaviours

\* Programs may create a process, or finish with ticks of their quantum left,
\* before the scheduler has moved on from the place in the ring where it put
\* the process created before; and block when nobody else is READY.
Behaviours == {"Hasty", "AllBlocked"}

ASSUME SchedulerAssumption == Priority \subseteq Nat /\ Workload \subseteq Behaviours

VARIABLES
  ring,       \* round_robin
  to_queue,   \* the stack of processes that are not in the ring yet
  state,      \* ready_processes[p].state
  priority,   \* ready_processes[p].priority
  phase       \* "run": a process runs; "irq": it has called _force_irq00;
              \* "loop": short_term_scheduling is in its loop

vars == <<ring, to_queue, state, priority, phase>>

TypeOK ==
  /\ ring \in Ring
  /\ to_queue \in BoundedSeq(Pid, SIZE)
  /\ state \in [Pid -> {"READY", "BLOCKED", "FINISHED"}]
  /\ priority \in [Pid -> Nat]
  /\ phase \in {"run", "irq", "loop"}

-----------------------------------------------------------------------------
(* Helpers *)

\* get_current_pid
Current == peek_round_robin(ring)

Running(p) == phase = "run" /\ Current = p

InRing == {ring.buffer[n].element : n \in Nodes} \ {NoPid}

\* scheduled_processes
Scheduled == ring.nodes + Len(to_queue)

\* Nobody was put between last and current since current became current.
Settled == ring.current # NoNode => ring.buffer[ring.last].next = ring.current

LastTick == ring.current_quantum + 1 >= ring.buffer[ring.current].quantum

\* A slot that the next process may get.  There are 50 of them and 10 nodes:
\* process_pointer does not come back to a slot that has still a node.
FreeSlot(q) == state[q] = "FINISHED" /\ q \notin InRing \cup ToSet(to_queue)

\* p can stop: another process is READY, and may wake the others.
SomebodyElse(p) ==
  (\E q \in Pid \ {p} : state[q] = "READY") \/ "AllBlocked" \in Workload

-----------------------------------------------------------------------------
(* What the running process does *)

\* create_process by p in the slot q.  Bound: the ring is not full.
Create(p, q, type, n) ==
  /\ Running(p)
  /\ FreeSlot(q)
  /\ Scheduled < MAX_NODES
  /\ \/ to_queue = <<>> /\ Settled
     \/ "Hasty" \in Workload
  /\ to_queue' = enqueue_process(to_queue, q)
  /\ priority' = [priority EXCEPT ![q] = n]
  /\ IF type = "FOREGROUND" /\ ring.nodes + Len(to_queue') > 1
     THEN state' = [state EXCEPT ![q] = "READY", ![p] = "BLOCKED"] /\ phase' = "irq"
     ELSE state' = [state EXCEPT ![q] = "READY"] /\ UNCHANGED phase
  /\ UNCHANGED ring

\* mark_process_as_blocked(p), for a mutex, a semaphore or a mailbox.
Block(p) ==
  /\ Running(p)
  /\ SomebodyElse(p)
  /\ state' = [state EXCEPT ![p] = "BLOCKED"]
  /\ phase' = "irq"
  /\ UNCHANGED <<ring, to_queue, priority>>

\* resume_process(q)
Wake(p, q) ==
  /\ Running(p)
  /\ state[q] = "BLOCKED"
  /\ state' = [state EXCEPT ![q] = "READY"]
  /\ UNCHANGED <<ring, to_queue, priority, phase>>

\* mark_process_as_finished(q), of p itself or as kill.
Finish(p, q) ==
  /\ Running(p)
  /\ state[q] # "FINISHED"
  /\ p = q =>
       /\ \/ "Hasty" \in Workload
          \/ LastTick
          \/ to_queue = <<>> /\ Settled
       /\ SomebodyElse(p) \/ \A r \in Pid \ {p} : state[r] = "FINISHED"
  /\ state' = [state EXCEPT ![q] = "FINISHED"]
  /\ phase' = IF p = q THEN "irq" ELSE phase
  /\ UNCHANGED <<ring, to_queue, priority>>

\* change_priority; the node of q in the ring keeps its quantum.
Nice(p, q, n) ==
  /\ Running(p)
  /\ priority' = [priority EXCEPT ![q] = n]
  /\ UNCHANGED <<ring, to_queue, state, phase>>

-----------------------------------------------------------------------------
(* short_term_scheduling *)

\* create_ghost_process in the slot q: a new shell, of priority 1, goes into
\* the empty ring r and runs.
Ghost(r, q) ==
  /\ r.current = NoNode
  /\ state[q] = "FINISHED"
  /\ state' = [state EXCEPT ![q] = "READY"]
  /\ priority' = [priority EXCEPT ![q] = 1]
  /\ ring' = queue_round_robin(r, q, 1)
  /\ phase' = "run"

\* true_enqueue_process and the first next_round_robin, of the timer or of
\* _force_irq00.
Interrupt ==
  LET filled == true_enqueue_process(ring, to_queue, priority) IN
  /\ phase \in {"run", "irq"}
  /\ to_queue' = <<>>
  /\ \/ \E q \in Pid : Ghost(filled, q)
     \/ /\ filled.current # NoNode
        /\ ring' = next_round_robin(filled)
        /\ phase' = "loop"
        /\ UNCHANGED <<state, priority>>

Skip ==
  /\ phase = "loop"
  /\ Current # NoPid
  /\ state[Current] = "BLOCKED"
  /\ ring' = next_round_robin(ring)
  /\ UNCHANGED <<to_queue, state, priority, phase>>

Discard ==
  /\ phase = "loop"
  /\ Current # NoPid
  /\ state[Current] = "FINISHED"
  /\ ring' = dequeue_round_robin(ring)
  /\ UNCHANGED <<to_queue, state, priority, phase>>

Dispatch ==
  /\ phase = "loop"
  /\ Current # NoPid
  /\ state[Current] = "READY"
  /\ phase' = "run"
  /\ UNCHANGED <<ring, to_queue, state, priority>>

\* The last process of the ring was removed.
Restart ==
  /\ phase = "loop"
  /\ \E q \in Pid : Ghost(ring, q)
  /\ UNCHANGED to_queue

-----------------------------------------------------------------------------

Init ==
  /\ ring = EmptyRing
  /\ to_queue = <<>>
  /\ state = [p \in Pid |-> "FINISHED"]
  /\ priority = [p \in Pid |-> 0]
  /\ phase = "irq"

Program ==
  \E p, q \in Pid :
    \/ \E type \in {"FOREGROUND", "BACKGROUND"}, n \in Priority : Create(p, q, type, n)
    \/ Block(p)
    \/ Wake(p, q)
    \/ Finish(p, q)
    \/ \E n \in Priority : Nice(p, q, n)

Loop == Skip \/ Discard \/ Dispatch \/ Restart

Next == Program \/ Interrupt \/ Loop

Spec == Init /\ [][Next]_vars

\* The timer goes on ticking, and the loop runs to its end.
FairSpec == Spec /\ WF_vars(Interrupt) /\ WF_vars(Loop)

-----------------------------------------------------------------------------
(* Properties *)

\* Every process that has not finished waits in to_queue to be put into the
\* ring, or has one node that the scheduler comes to: it is never lost and
\* never scheduled twice a round.
NoProcessLost ==
  \A p \in Pid : state[p] # "FINISHED" =>
    \/ p \in ToSet(to_queue)
    \/ Cardinality({n \in Linked(ring) : ring.buffer[n].element = p}) = 1

\* The ring has its type, is closed and is what nodes says it is: the scheduler
\* comes to every used node and to no other, and last is the one before
\* current, or before the node put between them.
RingSound ==
  /\ TypeOK
  /\ ring.nodes = Cardinality(Linked(ring))
  /\ Linked(ring) = {n \in Nodes : ring.buffer[n].element # NoPid}
  /\ ring.current # NoNode =>
       /\ ring.last \in Linked(ring)
       /\ LET n == ring.buffer[ring.last].next
          IN  n = ring.current \/ ring.buffer[n].next = ring.current

\* scheduler.c, after the ring was found not to be empty: "From here there is
\* at least 1 ready process who has not finished".  With every process of the
\* ring BLOCKED the loop goes round for ever, with interrupts off.
SomebodyReady ==
  phase = "loop" =>
    \/ \E n \in Linked(ring) : state[ring.buffer[n].element] = "READY"
    \/ \A n \in Linked(ring) : state[ring.buffer[n].element] = "FINISHED"

\* A process that is READY comes to run, however the others block, finish and
\* create processes; so the loop of the scheduler, in which interrupts are
\* off, ends whenever somebody is READY.
EveryReadyRuns ==
  \A p \in Pid : state[p] = "READY" ~> (Running(p) \/ state[p] # "READY")

=============================================================================
