----------------------------- MODULE MutexFifo -----------------------------
(***************************************************************************)
(* Mutex implements FifoLock: the holder is the owner field, the line is   *)
(* lockedQueue read from the slot of the first waiter on.                  *)
(***************************************************************************)
EXTENDS Mutex, Sequences

Fifo == INSTANCE FifoLock
  WITH holder <- [m \in Mutex |-> mutex[m].owner],
       line <- [m \in Mutex |-> LineOf(mutex[m].queue)]

\* Every mutex is handed on in the order in which processes asked for it,
\* straight from one owner to the next; also when the owner is killed while
\* it holds several.  Wrapping indices, the value field and the states of
\* the processes never show.
ServesInOrder == Fifo!Spec

=============================================================================
