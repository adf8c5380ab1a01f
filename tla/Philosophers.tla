---------------------------- MODULE Philosophers ----------------------------
(***************************************************************************)
(* The program of the dining philosophers (philosophers.c).  The program   *)
(* itself reads the keys, hires and removes; every philosopher is a        *)
(* process of its own, and works out its two chopsticks anew for every     *)
(* meal from its number and from how many philosophers there are now.  A   *)
(* process can be interrupted between any two of its system calls; what it *)
(* does between them is one step with the call that follows.               *)
(***************************************************************************)
EXTENDS Sync, FiniteSets

CONSTANTS
  MAX_PHILOSOPHERS,   \* philosophers.h:9, 10 in the code
  MaxHired,           \* bound: philosophers the program creates
  MaxRemovals         \* bound: presses of DEC_PHILO

ASSUME PhilosophersAssumption ==
  /\ MAX_PHILOSOPHERS \in Nat \ {0, 1}
  /\ MaxHired \in Nat /\ MaxRemovals \in Nat

Guest == 1 .. MaxHired   \* philosophers, in the order of their creation
Host == 0                \* the process that runs prepareTable: process 0, the shell
Chopstick == 0 .. MAX_PHILOSOPHERS - 1

VARIABLES
  quantity, assigned, toRemove,   \* philosophers_quantity, _assigned, _to_remove
  philosophers,                   \* the array of process ids, from 0
  main,                           \* main_mutex
  chop,                           \* the mutexes of the chopsticks
  place,                          \* where each process is
  number, right, left,            \* locals of each philosopher
  flags,   \* how many of flag_of_first and flag_of_second are set
  i,       \* the local of destroyAll
  calm,    \* no philosopher was hired before the last one had its number
  removals

pvars == <<quantity, assigned, toRemove, philosophers, main, chop, place,
           number, right, left, flags, i, calm, removals>>

table == <<quantity, assigned, toRemove, philosophers>>
locals == <<number, right, left>>
history == <<calm, removals>>

Moves(p, to) == place' = [place EXCEPT ![p] = to]

\* p is at that place, alive, and not blocked.
Awake(p, at) ==
  /\ place[p] = at
  /\ ~ Stands(p, main)
  /\ \A c \in Chopstick : ~ Stands(p, chop[c])

\* The caller is at a place, locks main_mutex, and goes on at
\* the other.
LockMain(p, from, to) ==
  /\ Awake(p, from)
  /\ main' = Lock(main, p)
  /\ Moves(p, to)
  /\ UNCHANGED <<table, chop, locals, i, history>>

Created == {p \in Guest : place[p] # "unborn"}

-----------------------------------------------------------------------------
(* The host *)

\* One philosopher cannot argue: the first key only resets flag_of_first.
FirstCall ==
  /\ Awake(Host, "keys") /\ flags = 2
  /\ flags' = 1
  /\ UNCHANGED <<table, main, chop, place, locals, i, history>>

\* INC_PHILO, DEC_PHILO and QUIT up to the lock.  The second INC_PHILO hires
\* the first two philosophers.
Keys ==
  \/ /\ flags = 1 /\ Cardinality(Created) < MaxHired - 1
     /\ flags' = 0
     /\ LockMain(Host, "keys", "hireFirst")
  \/ /\ flags = 0 /\ Cardinality(Created) < MaxHired
     /\ LockMain(Host, "keys", "hire") /\ UNCHANGED flags
  \/ removals < MaxRemovals /\ LockMain(Host, "keys", "letGo") /\ UNCHANGED flags
  \/ LockMain(Host, "keys", "quit") /\ UNCHANGED flags

\* hirePhilosopher from the lock on.
hirePhilosopher ==
  /\ Awake(Host, "hireFirst") \/ Awake(Host, "hire")
  /\ LET new == Cardinality(Created) + 1
         next == IF place[Host] = "hire" THEN "keys" ELSE "asleep"
     IN  IF quantity >= MAX_PHILOSOPHERS
         THEN Moves(Host, next) /\ UNCHANGED <<quantity, assigned, philosophers, calm>>
         ELSE /\ quantity' = quantity + 1
              /\ assigned' = assigned + 1
              /\ philosophers' = [philosophers EXCEPT ![assigned] = new]
              /\ place' = [place EXCEPT ![new] = "born", ![Host] = next]
              /\ calm' = (calm /\ \A p \in Created : place[p] \notin {"born", "sit"})
  /\ main' = Unlock(main, Host)
  /\ UNCHANGED <<toRemove, chop, locals, flags, i, removals>>

\* prepareTable between the two: after sleep(1) the quantity is taken back
\* to 1, which it is until the second philosopher is hired.
Correct ==
  /\ Awake(Host, "correct")
  /\ quantity' = quantity - 1
  /\ main' = Unlock(main, Host)
  /\ Moves(Host, "hireSecond")
  /\ UNCHANGED <<assigned, toRemove, philosophers, chop, locals, flags, i, history>>

StartsSecond ==
  /\ LockMain(Host, "asleep", "correct") \/ LockMain(Host, "hireSecond", "hire")
  /\ UNCHANGED flags

letGoPhilosopher ==
  /\ Awake(Host, "letGo")
  /\ toRemove' = IF quantity <= 2 THEN toRemove ELSE toRemove + 1
  /\ removals' = IF quantity <= 2 THEN removals ELSE removals + 1
  /\ main' = Unlock(main, Host)
  /\ Moves(Host, "keys")
  /\ UNCHANGED <<quantity, assigned, philosophers, chop, locals, flags, i, calm>>

\* kill(v) by p: the mutexes of v go to whoever stands in line.
Killed(v, p, to) ==
  /\ place' = [[place EXCEPT ![p] = to] EXCEPT ![v] = "dead"]
  /\ chop' = [c \in Chopstick |-> Unlock(chop[c], v)]
  /\ main' = Unlock(main, v)

\* destroyAll from the lock on, one kill after the other: quantity of them,
\* whether so many were hired or not.
destroyAll ==
  /\ Awake(Host, "quit")
  /\ IF i < quantity
     THEN Killed(philosophers[i], Host, "quit") /\ i' = i + 1
     ELSE /\ main' = Unlock(main, Host)
          /\ Moves(Host, "ended")
          /\ UNCHANGED <<chop, i>>
  /\ UNCHANGED <<table, locals, flags, history>>

-----------------------------------------------------------------------------
(* A philosopher *)

\* The number is what philosophers_assigned is when the process gets there.
Sit(p) ==
  /\ Awake(p, "sit")
  /\ number' = [number EXCEPT ![p] = assigned]
  /\ main' = Unlock(main, p)
  /\ Moves(p, "hungry")
  /\ UNCHANGED <<table, chop, right, left, flags, i, history>>

\* removePhilosopher up to the kill: the last one of the array goes, which
\* may be p itself.
removePhilosopher(p) ==
  /\ Awake(p, "choose") /\ toRemove > 0
  /\ quantity' = quantity - 1
  /\ toRemove' = toRemove - 1
  /\ assigned' = assigned - 1
  /\ Killed(philosophers[quantity - 1], p, "removed")
  /\ UNCHANGED <<philosophers, locals, flags, i, history>>

\* main_mutex is given up at the end of removePhilosopher; what follows in
\* the loop is done without it.
Removed(p) ==
  /\ Awake(p, "removed")
  /\ main' = Unlock(main, p)
  /\ Moves(p, "chooseFreely")
  /\ UNCHANGED <<table, chop, locals, flags, i, history>>

RightOf(n, q) == n % q
LeftOf(n, q) == (q + n - 1) % q

Choose(p) ==
  /\ Awake(p, "chooseFreely") \/ (Awake(p, "choose") /\ toRemove = 0)
  /\ right' = [right EXCEPT ![p] = RightOf(number[p], quantity)]
  /\ left' = [left EXCEPT ![p] = LeftOf(number[p], quantity)]
  /\ main' = Unlock(main, p)
  /\ Moves(p, "first")
  /\ UNCHANGED <<table, chop, number, flags, i, history>>

\* Mutated form of First: everybody starts with the right one.
RightFirst(p) == right[p]

\* Odd numbers start with the right one, even numbers with the left one.
First(p) == IF number[p] % 2 = 1 THEN right[p] ELSE left[p]

\* Mutated form of Second: the second chopstick is the first once more.
SecondAgain(p) == First(p)

Second(p) == IF First(p) = right[p] THEN left[p] ELSE right[p]

LockChop(p, c, from, to) ==
  /\ Awake(p, from)
  /\ chop' = [chop EXCEPT ![c] = Lock(@, p)]
  /\ Moves(p, to)
  /\ UNCHANGED <<table, main, locals, flags, i, history>>

UnlockChop(p, c, from, to) ==
  /\ Awake(p, from)
  /\ chop' = [chop EXCEPT ![c] = Unlock(@, p)]
  /\ Moves(p, to)
  /\ UNCHANGED <<table, main, locals, flags, i, history>>

Rise(p) ==
  /\ Awake(p, "rise")
  /\ main' = Unlock(main, p)
  /\ Moves(p, "hungry")
  /\ UNCHANGED <<table, chop, locals, flags, i, history>>

Dines(p) ==
  \/ (LockMain(p, "born", "sit") \/ LockMain(p, "hungry", "choose")
      \/ LockMain(p, "eat", "finished")) /\ UNCHANGED flags
  \/ Sit(p) \/ removePhilosopher(p) \/ Removed(p) \/ Choose(p)
  \/ LockChop(p, First(p), "first", "second")
  \/ LockChop(p, Second(p), "second", "eat")
  \/ UnlockChop(p, right[p], "finished", "putRight")
  \/ UnlockChop(p, left[p], "putRight", "rise")
  \/ Rise(p)

-----------------------------------------------------------------------------

TableInit ==
  /\ quantity = 1 /\ assigned = 0 /\ toRemove = 0
  /\ philosophers = [c \in Chopstick |-> 0]
  /\ main = Free
  /\ chop = [c \in Chopstick |-> Free]
  /\ place = [p \in {Host} \cup Guest |-> IF p = Host THEN "keys" ELSE "unborn"]
  /\ number = [p \in Guest |-> 0]
  /\ right = [p \in Guest |-> 0]
  /\ left = [p \in Guest |-> 0]
  /\ flags = 2 /\ i = 0
  /\ calm = TRUE /\ removals = 0

Serves == hirePhilosopher \/ StartsSecond \/ Correct \/ letGoPhilosopher \/ destroyAll

TableNext == FirstCall \/ Keys \/ Serves \/ \E p \in Guest : Dines(p)

\* Every process that is ready gets its turn; keys need not come.
TableFairness == WF_pvars(Serves) /\ \A p \in Guest : WF_pvars(Dines(p))

-----------------------------------------------------------------------------
(* Properties *)

Blocked(p) ==
  place[p] # "dead" /\ (Stands(p, main) \/ \E c \in Chopstick : Stands(p, chop[c]))

\* Whoever p is in line behind.
WaitsFor(p, q) ==
  /\ Blocked(p)
  /\ \/ Stands(p, main) /\ main.owner = q
     \/ \E c \in Chopstick : Stands(p, chop[c]) /\ chop[c].owner = q

\* No deadlock, as the comment at philosophers.c:101-107 has it: there are never
\* processes each of which waits for another of them.
NoCircularWait ==
  \A S \in (SUBSET {p \in Guest \cup {Host} : Blocked(p)}) \ {{}} :
    \E p \in S : \A q \in S : ~ WaitsFor(p, q)

\* Nobody was hired before the last one hired had its number, or at least
\* nobody was told to go.
Orderly == calm \/ removals = 0

\* Then there is no deadlock, whoever is hired or removed meanwhile and however
\* old the count is from which the chopsticks were worked out.
TableFlows == Orderly => NoCircularWait

\* Who eats has both chopsticks, which are two unless the first philosopher
\* is alone, or looked at the quantity just when prepareTable had taken it
\* back to 1.
EatsWithBoth ==
  \A p \in Guest : Awake(p, "eat") =>
    /\ chop[right[p]].owner = p /\ chop[left[p]].owner = p
    /\ Orderly /\ right[p] = left[p] => number[p] = 1 /\ right[p] = 0

\* No two philosophers have the same number as long as nobody is hired
\* before the last one hired has looked for its own.
NumbersDistinct ==
  calm => \A p, q \in Guest :
            place[p] \notin {"unborn", "born", "sit", "dead"}
            /\ place[q] \notin {"unborn", "born", "sit", "dead"}
            /\ number[p] = number[q] => p = q

\* Every philosopher sits in a place of its own, and eats with two chopsticks.
TableShared == EatsWithBoth /\ NumbersDistinct

\* The program kills nobody but its philosophers, once it has hired some,
\* and when it has ended none of them is left.  (Told to end before that, it
\* kills process 0, which philosophers[0] names: the shell, itself.)
KillsItsOwn ==
  /\ Created # {} => place[Host] # "dead"
  /\ place[Host] = "ended" => \A p \in Guest : place[p] \in {"unborn", "dead"}

=============================================================================
