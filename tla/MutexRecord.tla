---------------------------- MODULE MutexRecord ----------------------------
(***************************************************************************)
(* One mutex (mutex_struct_t, mutex.h) and what unlocking does to it, the  *)
(* same in mutex_unlock and in mutex_super_unlock.                         *)
(***************************************************************************)
EXTENDS WaitQueue

MutexStruct == [value : {0, 1}, owner : PidOrNone, queue : Queue]

FreeMutex == [value |-> 0, owner |-> NoPid, queue |-> EmptyQueue]

\* Mutated form of HandOff: the first waiter is woken to compete for the
\* mutex, which is set free.
WakeOnly(x) ==
  IF HasWaiter(x.queue)
  THEN [x EXCEPT !.owner = NoPid, !.value = 0, !.queue = Drop(x.queue)]
  ELSE [x EXCEPT !.owner = NoPid, !.value = 0]

\* The first of the queue becomes the owner of the mutex, which stays taken.
HandOff(x) ==
  IF HasWaiter(x.queue)
  THEN [x EXCEPT !.owner = Front(x.queue), !.queue = Drop(x.queue)]
  ELSE [x EXCEPT !.owner = NoPid, !.value = 0]

=============================================================================
