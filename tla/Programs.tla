------------------------------ MODULE Programs ------------------------------
(***************************************************************************)
(* The shell runs one of its two simulations in the foreground: the        *)
(* restaurant or the philosophers (shell.c:26-27).                         *)
(***************************************************************************)
EXTENDS Restaurant, Philosophers

VARIABLE program

vars == <<program, rvars, pvars>>

Init ==
  /\ program \in {"prodcons", "philosophers"}
  /\ RestaurantInit /\ TableInit

Next ==
  \/ program = "prodcons" /\ RestaurantNext /\ UNCHANGED <<program, pvars>>
  \/ program = "philosophers" /\ TableNext /\ UNCHANGED <<program, rvars>>

\* What is not run is never enabled but for its keys, which come at will.
Spec == Init /\ [][Next]_vars /\ RestaurantFairness /\ TableFairness

-----------------------------------------------------------------------------
(* Properties *)

\* A program that has ended has finished all its processes, and no process
\* but its own.
CleansUp == NobodyLeftBehind /\ KillsItsOwn

\* While nobody is dismissed and the program is not told to end, each chef and
\* each waiter gets to do its part again and again, provided that there is one
\* of either, and every philosopher who is hungry eats.
EverybodyServed ==
  [](NobodyDismissed /\ removals = 0 /\ place[Host] # "quit") =>
    \A p \in Worker \cup Guest :
      ComesToWork(p) \/ (p \in Guest /\ place[p] = "hungry")
        ~> (p \in Worker /\ at[p] = "give") \/ (p \in Guest /\ place[p] = "eat")

=============================================================================
