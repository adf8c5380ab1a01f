------------------------- MODULE CountingSemaphore -------------------------
(***************************************************************************)
(* What the kernel's semaphores promise: a number of free tokens and a     *)
(* line of processes.  A process joins the line only when no token is      *)
(* free, and a signal gives its token to the first of the line.            *)
(***************************************************************************)
EXTENDS Naturals, Sequences

CONSTANT Pid

VARIABLES
  value,   \* the free tokens
  line     \* the processes that wait for one, the first one first

vars == <<value, line>>

Take == value > 0 /\ value' = value - 1 /\ UNCHANGED line

Join(p) == value = 0 /\ line' = Append(line, p) /\ UNCHANGED value

Give ==
  IF line = <<>> THEN value' = value + 1 /\ UNCHANGED line
                 ELSE line' = Tail(line) /\ UNCHANGED value

Init == value \in Nat /\ line = <<>>

Next == Take \/ Give \/ \E p \in Pid : Join(p)

Spec == Init /\ [][Next]_vars

=============================================================================
