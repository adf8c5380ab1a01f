----------------------------- MODULE Restaurant -----------------------------
(***************************************************************************)
(* The program prodcons: chefs put plates on trays, waiters take them away *)
(* (prodcons_sem.c).  The program itself reads the keys, and hires and     *)
(* dismisses; every chef and every waiter is a process of its own.  A      *)
(* process can be interrupted between any two of its system calls; what it *)
(* does between them is one step with the call that follows.               *)
(***************************************************************************)
EXTENDS Sync, FiniteSets

CONSTANTS
  TRAYS_QTY,      \* prodcons_sem.h:10, 20 in the code
  MAX_PRODCONS,   \* prodcons_sem.h:9, 10 in the code
  MaxStaff,       \* bound: processes the program creates
  MaxDismissals   \* bound: presses of DEC_CHEF and DEC_WAITER, see below

\* With three dismissals a chef that another one has taken out of the array, and
\* that was not killed for it, may come to read chefs[-1].
ASSUME RestaurantAssumption ==
  /\ TRAYS_QTY \in Nat \ {0} /\ MAX_PRODCONS \in Nat \ {0}
  /\ MaxStaff \in Nat /\ MaxDismissals \in 0 .. 2

Job == {"chef", "waiter"}

\* Chefs wait for full, the free trays, and signal empty, the plates.
Takes == [chef |-> "full", waiter |-> "empty"]
Gives == [chef |-> "empty", waiter |-> "full"]

Worker == 1 .. MaxStaff   \* in the order of their creation
Boss == 0                 \* the process that runs prodcons_restaurant: the shell

VARIABLES
  plates,
  tokens,      \* the semaphores full and empty
  mutexA,
  staff,       \* the arrays chefs and waiters, as long as chefsQty, waitersQty
  toDie,       \* chefsToDie and waitersToDie
  at,          \* where each process is
  job,         \* what each process was created to run
  victim,      \* chefToDie, waiterToDie: a local of who carries a dismissal out
  order,       \* the command the boss is busy with
  dismissals   \* presses of DEC_CHEF and DEC_WAITER

rvars == <<plates, tokens, mutexA, staff, toDie, at, job, victim, order, dismissals>>

Goes(p, place) == at' = [at EXCEPT ![p] = place]

\* p is at that place, alive, and not blocked.
Ready(p, place) ==
  /\ at[p] = place
  /\ ~ Stands(p, mutexA)
  /\ \A t \in DOMAIN tokens : ~ Stands(p, tokens[t])

Hired == {p \in Worker : at[p] # "unborn"}

-----------------------------------------------------------------------------
(* The boss *)

\* A key: every command starts by locking mutexA.
Press(c, j) ==
  /\ Ready(Boss, "keys")
  /\ order' = [do |-> c, job |-> j]
  /\ mutexA' = Lock(mutexA, Boss)
  /\ Goes(Boss, "orders")
  /\ c = "call" => Cardinality(Hired) < MaxStaff
  /\ c = "dismiss" => dismissals < MaxDismissals
  /\ dismissals' = IF c = "dismiss" THEN dismissals + 1 ELSE dismissals
  /\ UNCHANGED <<plates, tokens, staff, toDie, job, victim>>

Ordered(c) == Ready(Boss, "orders") /\ order.do = c

\* callChef and callWaiter from the lock on; the process starts at once.
Call ==
  /\ Ordered("call")
  /\ LET new == Cardinality(Hired) + 1
     IN  IF Len(staff[order.job]) >= MAX_PRODCONS
         THEN Goes(Boss, "keys") /\ UNCHANGED <<staff, job>>
         ELSE /\ at' = [at EXCEPT ![new] = "wait", ![Boss] = "keys"]
              /\ job' = [job EXCEPT ![new] = order.job]
              /\ staff' = [staff EXCEPT ![order.job] = Append(@, new)]
  /\ mutexA' = Unlock(mutexA, Boss)
  /\ UNCHANGED <<plates, tokens, toDie, victim, order, dismissals>>

\* restChef and restWaiter from the lock on: whoever comes first sees to it.
Rest ==
  /\ Ordered("dismiss")
  /\ toDie' = IF staff[order.job] = <<>> THEN toDie ELSE [toDie EXCEPT ![order.job] = @ + 1]
  /\ mutexA' = Unlock(mutexA, Boss)
  /\ Goes(Boss, "keys")
  /\ UNCHANGED <<plates, tokens, staff, job, victim, order, dismissals>>

\* kill(v) by p: v is finished where it stands, and its mutex goes on.
Kill(v, p, place) ==
  /\ at' = [[at EXCEPT ![p] = place] EXCEPT ![v] = "dead"]
  /\ mutexA' = Unlock(mutexA, v)

\* Mutated form of Terminate: the waiters are forgotten.
TerminateChefs ==
  /\ Ordered("quit")
  /\ IF victim[Boss] < Len(staff["chef"])
     THEN /\ Kill(staff["chef"][victim[Boss] + 1], Boss, "orders")
          /\ victim' = [victim EXCEPT ![Boss] = @ + 1]
     ELSE /\ mutexA' = Unlock(mutexA, Boss)
          /\ Goes(Boss, "ended")
          /\ UNCHANGED victim
  /\ UNCHANGED <<plates, tokens, staff, toDie, job, order, dismissals>>

\* terminateAll from the lock on: one kill after the other, the chefs first.
\* victim[Boss] counts them.
Terminate ==
  /\ Ordered("quit")
  /\ LET all == staff["chef"] \o staff["waiter"]
     IN  IF victim[Boss] < Len(all)
         THEN /\ Kill(all[victim[Boss] + 1], Boss, "orders")
              /\ victim' = [victim EXCEPT ![Boss] = @ + 1]
         ELSE /\ mutexA' = Unlock(mutexA, Boss)
              /\ Goes(Boss, "ended")
              /\ UNCHANGED victim
  /\ UNCHANGED <<plates, tokens, staff, toDie, job, order, dismissals>>

-----------------------------------------------------------------------------
(* Chefs and waiters: the two loops are alike *)

TakeToken(p) ==
  /\ Ready(p, "wait")
  /\ tokens' = [tokens EXCEPT ![Takes[job[p]]] = Wait(@, p)]
  /\ Goes(p, "lock")
  /\ UNCHANGED <<plates, mutexA, staff, toDie, job, victim, order, dismissals>>

EnterKitchen(p) ==
  /\ Ready(p, "lock")
  /\ mutexA' = Lock(mutexA, p)
  /\ Goes(p, "inside")
  /\ UNCHANGED <<plates, tokens, staff, toDie, job, victim, order, dismissals>>

\* Somebody of this job is to go: the token is given back.
SeeToDismissal(p) ==
  /\ Ready(p, "inside") /\ toDie[job[p]] > 0
  /\ tokens' = [tokens EXCEPT ![Takes[job[p]]] = Signal(@)]
  /\ Goes(p, "choose")
  /\ UNCHANGED <<plates, mutexA, staff, toDie, job, victim, order, dismissals>>

\* chefSuicide and waiterSuicide up to the unlock: the one who came last is
\* to go, which need not be p.
ChooseVictim(p) ==
  /\ Ready(p, "choose")
  /\ LET s == staff[job[p]]
     IN  /\ victim' = [victim EXCEPT ![p] = s[Len(s)]]
         /\ staff' = [staff EXCEPT ![job[p]] = SubSeq(s, 1, Len(s) - 1)]
  /\ toDie' = [toDie EXCEPT ![job[p]] = @ - 1]
  /\ mutexA' = Unlock(mutexA, p)
  /\ Goes(p, "kill")
  /\ UNCHANGED <<plates, tokens, job, order, dismissals>>

\* Unless it has killed itself, p goes on with the plate, without the token
\* it gave back and without the mutex.
Suicide(p) ==
  /\ Ready(p, "kill")
  /\ Kill(victim[p], p, "plate")
  /\ UNCHANGED <<plates, tokens, staff, toDie, job, victim, order, dismissals>>

Plate(p) ==
  /\ Ready(p, "plate") \/ (Ready(p, "inside") /\ toDie[job[p]] = 0)
  /\ plates' = IF job[p] = "chef" THEN plates + 1 ELSE plates - 1
  /\ Goes(p, "give")
  /\ UNCHANGED <<tokens, mutexA, staff, toDie, job, victim, order, dismissals>>

\* Mutated form of GiveToken: the waiter returns its own kind of token.
GiveWrongToken(p) ==
  /\ Ready(p, "give")
  /\ tokens' = [tokens EXCEPT !["empty"] = Signal(@)]
  /\ Goes(p, "leave")
  /\ UNCHANGED <<plates, mutexA, staff, toDie, job, victim, order, dismissals>>

GiveToken(p) ==
  /\ Ready(p, "give")
  /\ tokens' = [tokens EXCEPT ![Gives[job[p]]] = Signal(@)]
  /\ Goes(p, "leave")
  /\ UNCHANGED <<plates, mutexA, staff, toDie, job, victim, order, dismissals>>

LeaveKitchen(p) ==
  /\ Ready(p, "leave")
  /\ mutexA' = Unlock(mutexA, p)
  /\ Goes(p, "wait")
  /\ UNCHANGED <<plates, tokens, staff, toDie, job, victim, order, dismissals>>

-----------------------------------------------------------------------------

RestaurantInit ==
  /\ plates = 0
  /\ tokens = [full |-> WithTokens(TRAYS_QTY), empty |-> WithTokens(0)]
  /\ mutexA = Free
  /\ staff = [j \in Job |-> <<>>]
  /\ toDie = [j \in Job |-> 0]
  /\ at = [p \in {Boss} \cup Worker |-> IF p = Boss THEN "keys" ELSE "unborn"]
  /\ job = [p \in Worker |-> "none"]
  /\ victim = [p \in {Boss} \cup Worker |-> 0]
  /\ order = [do |-> "none", job |-> "none"]
  /\ dismissals = 0

Works(p) ==
  \/ TakeToken(p) \/ EnterKitchen(p) \/ SeeToDismissal(p) \/ ChooseVictim(p)
  \/ Suicide(p) \/ Plate(p) \/ GiveToken(p) \/ LeaveKitchen(p)

Obeys == Call \/ Rest \/ Terminate

RestaurantNext ==
  \/ \E j \in Job : Press("call", j) \/ Press("dismiss", j)
  \/ Press("quit", "chef")
  \/ Obeys
  \/ \E p \in Worker : Works(p)

\* Every process that is ready gets its turn; keys need not come.
RestaurantFairness == WF_rvars(Obeys) /\ \A p \in Worker : WF_rvars(Works(p))

-----------------------------------------------------------------------------
(* Properties *)

\* The workers of job j between taking a token and giving one, with the
\* plate done or not.
Busy(j, places) == {p \in Worker : job[p] = j /\ at[p] \in places
                                   /\ \A t \in DOMAIN tokens : ~ Stands(p, tokens[t])}

NobodyDismissed == dismissals = 0 /\ order.do # "quit"

\* The menu promises no more plates than trays (prodcons_sem.c:59).  As long
\* as nobody was dismissed, every tray and every plate is accounted for: in
\* a semaphore, or in the hands of exactly one chef or waiter.
TraysAccounted ==
  NobodyDismissed =>
    /\ plates \in 0 .. TRAYS_QTY
    /\ plates = tokens.empty.value
         + Cardinality(Busy("waiter", {"lock", "inside"})) + Cardinality(Busy("chef", {"give"}))
    /\ TRAYS_QTY - plates = tokens.full.value
         + Cardinality(Busy("chef", {"lock", "inside"})) + Cardinality(Busy("waiter", {"give"}))

\* What the menu says, whatever the user does.
PlatesOnTrays == plates <= TRAYS_QTY

\* When the program has ended, and nobody was dismissed, no chef and no
\* waiter is left behind with handles that are destroyed by then.
NobodyLeftBehind ==
  at[Boss] = "ended" /\ dismissals = 0 => \A p \in Worker : at[p] \in {"unborn", "dead"}

\* With a chef and a waiter at work, each of them looks forward to its part.
ComesToWork(p) == p \in Worker /\ at[p] # "unborn" /\ \A j \in Job : staff[j] # <<>>

=============================================================================
