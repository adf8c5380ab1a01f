-------------------------------- MODULE Sync --------------------------------
(***************************************************************************)
(* Mutexes and semaphores as the programs see them: what FifoLock and      *)
(* CountingSemaphore promise, which Mutex and Ipc are shown to implement   *)
(* (mutex.c:80-160, sem.c:71-118), here as operators on one mutex and one  *)
(* semaphore.  A process that stands in a line is blocked; one that was    *)
(* killed keeps its place there, and is given what it waited for.          *)
(***************************************************************************)
EXTENDS Integers, Sequences

CONSTANT NoPid   \* the process id -1

ASSUME SyncAssumption == NoPid \notin Nat

Free == [owner |-> NoPid, line |-> <<>>]

WithTokens(n) == [value |-> n, line |-> <<>>]

Stands(p, x) == \E i \in DOMAIN x.line : x.line[i] = p

\* mutex_lock by p: p has the mutex, gets it, or waits for it.
Lock(m, p) ==
  IF m.owner = p THEN m
  ELSE IF m.owner = NoPid THEN [m EXCEPT !.owner = p]
  ELSE [m EXCEPT !.line = Append(@, p)]

\* Mutated form of Unlock: whoever waits is not woken.
UnlockInSilence(m, p) == IF m.owner # p THEN m ELSE [m EXCEPT !.owner = NoPid]

\* mutex_unlock by p, and what becomes of the mutex when p is killed.
Unlock(m, p) ==
  IF m.owner # p THEN m
  ELSE IF m.line = <<>> THEN Free
  ELSE [owner |-> Head(m.line), line |-> Tail(m.line)]

\* sem_wait by p
Wait(s, p) ==
  IF s.value = 0 THEN [s EXCEPT !.line = Append(@, p)] ELSE [s EXCEPT !.value = @ - 1]

\* sem_signal
Signal(s) ==
  IF s.line = <<>> THEN [s EXCEPT !.value = @ + 1] ELSE [s EXCEPT !.line = Tail(@)]

=============================================================================
