------------------------------ MODULE Machine -------------------------------
(***************************************************************************)
(* The machine from power-on: the kernel is loaded and initialised, and    *)
(* load_idt, the last step, is where ticks, system calls and processes     *)
(* begin.                                                                  *)
(***************************************************************************)
EXTENDS Boot, Clock

CONSTANT Shipped   \* bound: the modules with which the machine goes on

vars == <<bvars, cvars>>

\* load_idt has switched interrupts on.
On == stage = "interrupts" /\ files = Shipped

Init == BootInit /\ ClockInit

Works(A) == On /\ A /\ UNCHANGED bvars

Next == (BootNext /\ UNCHANGED cvars) \/ Works(ClockNext)

\* A process that is scheduled again and again gets on (a quantum is many
\* instructions); ticks and seconds never end.
Spec ==
  /\ Init /\ [][Next]_vars
  /\ WF_vars(BootNext /\ UNCHANGED cvars)
  /\ SF_vars(Works(Timer)) /\ SF_vars(Works(SecondPasses))
  /\ \A p \in Process : SF_vars(Works(Step(p)))

=============================================================================
