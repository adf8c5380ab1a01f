------------------------------ MODULE FifoLock ------------------------------
(***************************************************************************)
(* What the kernel's mutexes promise, without queues of slots, process     *)
(* states or a scheduler: each has at most one holder, processes that ask  *)
(* while it is held stand in a line, and whoever has stood there longest   *)
(* is the next holder, with no moment in between at which somebody else    *)
(* could take the mutex.                                                   *)
(***************************************************************************)
EXTENDS Sequences

CONSTANTS Pid, NoPid, Mutex

VARIABLES
  holder,   \* the process that has the mutex, or NoPid
  line      \* the processes that wait for it, the first one first

vars == <<holder, line>>

InLine(p, m) == \E i \in DOMAIN line[m] : line[m][i] = p

Acquire(p, m) ==
  /\ holder[m] = NoPid
  /\ holder' = [holder EXCEPT ![m] = p]
  /\ UNCHANGED line

\* A process waits for one mutex at a time, and not for one it has.
Join(p, m) ==
  /\ holder[m] \notin {NoPid, p}
  /\ \A n \in Mutex : ~ InLine(p, n)
  /\ line' = [line EXCEPT ![m] = Append(@, p)]
  /\ UNCHANGED holder

\* A holder gives up some of its mutexes: one when it unlocks it, all of
\* them when it is finished.
Release(p, S) ==
  /\ \A m \in S : holder[m] = p
  /\ holder' = [m \in Mutex |->
       IF m \notin S THEN holder[m]
       ELSE IF line[m] = <<>> THEN NoPid ELSE Head(line[m])]
  /\ line' = [m \in Mutex |->
       IF m \in S /\ line[m] # <<>> THEN Tail(line[m]) ELSE line[m]]

Init ==
  /\ holder = [m \in Mutex |-> NoPid]
  /\ line = [m \in Mutex |-> <<>>]

Next ==
  \E p \in Pid :
    \/ \E m \in Mutex : Acquire(p, m) \/ Join(p, m)
    \/ \E S \in SUBSET Mutex : Release(p, S)

Spec == Init /\ [][Next]_vars

=============================================================================
