------------------------------ MODULE MCMutex ------------------------------
(* Instances of Mutex for TLC.                                             *)
EXTENDS MutexFifo, TLC

Symmetry == Permutations(Pid) \cup Permutations(Mutex)

=============================================================================
