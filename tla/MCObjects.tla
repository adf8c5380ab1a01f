----------------------------- MODULE MCObjects -----------------------------
(* Instances of Objects for TLC.                                           *)
EXTENDS Objects, TLC

CONSTANTS a, b

Names == {a, b}

\* A mailbox takes two blocks, the others one (BLOCK_SIZE is 2).
StructSizes == [mutex |-> 1, sem |-> 2, mailbox |-> 3]

Symmetry == Permutations(Names)
=============================================================================
