----------------------------- MODULE RoundRobin -----------------------------
(***************************************************************************)
(* The ring of scheduled processes (priority_round_robin.c) and the stack  *)
(* in which new processes wait to be put into it (to_queue of scheduler.c, *)
(* non_sizable_stack.c), as operators on a record and a sequence.  A node  *)
(* of the ring is an index into node_buffer; element is NoPid where the    *)
(* code has NULL.                                                          *)
(***************************************************************************)
EXTENDS Integers, SequencesExt

CONSTANTS
  Pid,
  NoPid,
  MAX_NODES,    \* priority_round_robin.c:12, 10 in the code
  SIZE          \* non_sizable_stack.h:4, 10 in the code

ASSUME RingAssumption ==
  /\ MAX_NODES \in Nat \ {0}
  /\ SIZE \in Nat \ {0}
  /\ NoPid \notin Pid

Nodes == 0 .. MAX_NODES - 1

NoNode == -1

calculate_quantum(priority) == priority + 1

Node == [element : Pid \cup {NoPid}, quantum : Nat, next : Nodes \cup {NoNode}]

Ring == [buffer : [Nodes -> Node], ptr : Nodes \cup {-1},
         current : Nodes \cup {NoNode}, last : Nodes \cup {NoNode},
         current_quantum : Int, nodes : Nat]

EmptyRing ==
  [buffer |-> [n \in Nodes |-> [element |-> NoPid, quantum |-> IF n = 0 THEN 1 ELSE 0,
                                next |-> NoNode]],
   ptr |-> -1, current |-> NoNode, last |-> NoNode,
   current_quantum |-> -1, nodes |-> 0]

-----------------------------------------------------------------------------
(* priority_round_robin.c *)

\* The first unused node from ptr on.
FreeNode(r) ==
  LET unused == {n \in Nodes : r.buffer[n].element = NoPid}
      ahead(n) == (n - r.ptr) % MAX_NODES
  IN  CHOOSE n \in unused : \A k \in unused : ahead(n) <= ahead(k)

QueueFirst(r, p, priority) ==
  [r EXCEPT
     !.buffer[0] = [element |-> p, quantum |-> calculate_quantum(priority), next |-> 0],
     !.ptr = 0, !.current = 0, !.last = 0, !.current_quantum = 0,
     !.nodes = @ + 1]

\* The new node goes between last and current; last stays where it was until
\* the ring is advanced.
QueueBetween(r, p, priority) ==
  LET n == FreeNode(r)
  IN  [r EXCEPT
         !.buffer = [@ EXCEPT
            ![n] = [element |-> p, quantum |-> calculate_quantum(priority),
                    next |-> r.current],
            ![r.last].next = n],
         !.ptr = n,
         !.nodes = @ + 1]

queue_round_robin(r, p, priority) ==
  IF r.nodes >= MAX_NODES THEN r
  ELSE IF r.current = NoNode THEN QueueFirst(r, p, priority)
  ELSE QueueBetween(r, p, priority)

\* Mutated form of dequeue_round_robin: the node is unlinked, but current
\* stays on it.
DequeueInPlace(r) ==
  LET c == r.current IN
  IF c = NoNode THEN r
  ELSE IF c = r.last
       THEN [r EXCEPT !.buffer[c].element = NoPid, !.current = NoNode,
                      !.last = NoNode, !.nodes = @ - 1]
       ELSE [r EXCEPT !.buffer = [@ EXCEPT ![c].element = NoPid,
                                           ![r.last].next = r.buffer[c].next],
                      !.current = r.last,
                      !.nodes = @ - 1]

dequeue_round_robin(r) ==
  LET c == r.current IN
  IF c = NoNode THEN r
  ELSE IF c = r.last
       THEN [r EXCEPT !.buffer[c].element = NoPid, !.current = NoNode,
                      !.last = NoNode, !.nodes = @ - 1]
       ELSE [r EXCEPT !.buffer = [@ EXCEPT ![c].element = NoPid,
                                           ![r.last].next = r.buffer[c].next],
                      !.current = r.buffer[c].next,
                      !.nodes = @ - 1]

peek_round_robin(r) ==
  IF r.current = NoNode THEN NoPid ELSE r.buffer[r.current].element

\* Mutated form of next_round_robin: last is not moved along.
NextLeavingLast(r) ==
  IF r.current = NoNode THEN r
  ELSE IF r.current_quantum + 1 >= r.buffer[r.current].quantum
       THEN [r EXCEPT !.current_quantum = 0, !.current = r.buffer[@].next]
       ELSE [r EXCEPT !.current_quantum = @ + 1]

\* Mutated form of next_round_robin: the quantum begins again for the same
\* process.
NextStaying(r) ==
  IF r.current = NoNode THEN r
  ELSE IF r.current_quantum + 1 >= r.buffer[r.current].quantum
       THEN [r EXCEPT !.current_quantum = 0]
       ELSE [r EXCEPT !.current_quantum = @ + 1]

next_round_robin(r) ==
  IF r.current = NoNode THEN r
  ELSE IF r.current_quantum + 1 >= r.buffer[r.current].quantum
       THEN [r EXCEPT !.current_quantum = 0, !.last = r.current,
                      !.current = r.buffer[@].next]
       ELSE [r EXCEPT !.current_quantum = @ + 1]

-----------------------------------------------------------------------------
(* to_queue *)

push(s, p) == IF Len(s) >= SIZE THEN s ELSE Append(s, p)

\* The process goes under the top of the stack.
enqueue_process(s, p) ==
  IF s = <<>> THEN push(s, p) ELSE push(push(Front(s), p), Last(s))

\* Everything on the stack goes into the ring, the top first.
true_enqueue_process(r, s, priority) ==
  LET put[k \in 0 .. Len(s)] ==
        IF k = 0 THEN r
        ELSE LET p == s[Len(s) + 1 - k] IN queue_round_robin(put[k - 1], p, priority[p])
  IN  put[Len(s)]

-----------------------------------------------------------------------------

\* The nodes the scheduler can come to: those that next leads to from current.
\* steps many are always enough, the ring has no more nodes.
ReachableIn(r, steps) ==
  LET reach[i \in 0 .. steps] ==
        IF i = 0 THEN {r.current} \ {NoNode}
        ELSE reach[i - 1] \cup ({r.buffer[n].next : n \in reach[i - 1]} \ {NoNode})
  IN  reach[steps]

Linked(r) == ReachableIn(r, MAX_NODES)

=============================================================================
