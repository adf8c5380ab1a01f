------------------------------- MODULE MCIpc -------------------------------
(* Instances of Ipc for TLC.                                               *)
EXTENDS Ipc, TLC

CONSTANTS p1, p2, p3

Three == {p1, p2, p3}

Messages == {<<1>>, <<2>>, <<1, 2>>}

Symmetry == Permutations(Pid)

=============================================================================
