--------------------------- MODULE ProgramsProofs ---------------------------
(***************************************************************************)
(* The two simulations.  The restaurant, for any number of processes,      *)
(* trays and places in the arrays: every tray and every plate is accounted *)
(* for, and a program that ends leaves nobody behind.  The philosophers,   *)
(* for any size of the table and any number of processes and removals:     *)
(* nobody waits in a circle, who eats has both chopsticks, and the program *)
(* kills nobody but its own.  First, what a step does to the line of a     *)
(* mutex or semaphore of Sync.                                             *)
(***************************************************************************)
EXTENDS Programs, SequenceTheorems, FiniteSetTheorems, TLAPS

-----------------------------------------------------------------------------
(* The lines of mutexes and semaphores *)

InLine(q, l) == \E k \in DOMAIN l : l[k] = q

NobodyTwice(l) == \A j, k \in DOMAIN l : l[j] = l[k] => j = k

(* One more at the end of a line.                                          *)
LEMMA JoinLine ==
  ASSUME NEW S, NEW l \in Seq(S), NobodyTwice(l), NEW p \in S, ~ InLine(p, l)
  PROVE  /\ Append(l, p) \in Seq(S) /\ NobodyTwice(Append(l, p))
         /\ \A q : InLine(q, Append(l, p)) <=> InLine(q, l) \/ q = p
<1> DEFINE r == Append(l, p)
<1>1. /\ r \in Seq(S) /\ Len(l) \in Nat
      /\ \A k \in 1 .. Len(l) : r[k] = l[k]
      /\ r[Len(l) + 1] = p
      /\ DOMAIN l = 1 .. Len(l) /\ DOMAIN r = 1 .. Len(l) + 1
  BY AppendProperties
<1> HIDE DEF r
<1>2. NobodyTwice(r)
  BY <1>1 DEF NobodyTwice, InLine
<1>3. ASSUME NEW q PROVE InLine(q, r) <=> InLine(q, l) \/ q = p
  BY <1>1 DEF InLine
<1> QED BY <1>1, <1>2, <1>3 DEF r

(* One less at the head of a line.                                         *)
LEMMA LeaveLine ==
  ASSUME NEW S, NEW l \in Seq(S), NobodyTwice(l), l # <<>>
  PROVE  /\ Head(l) \in S /\ InLine(Head(l), l)
         /\ Tail(l) \in Seq(S) /\ NobodyTwice(Tail(l))
         /\ \A q : InLine(q, Tail(l)) <=> InLine(q, l) /\ q # Head(l)
<1> DEFINE r == Tail(l)  h == Head(l)
<1>1. Len(l) \in Nat /\ Len(l) > 0 /\ DOMAIN l = 1 .. Len(l)
  BY EmptySeq
<1>2. h \in S /\ h = l[1] /\ 1 \in DOMAIN l
  BY <1>1
<1>3. /\ r \in Seq(S) /\ Len(r) = Len(l) - 1 /\ DOMAIN r = 1 .. Len(l) - 1
      /\ \A k \in 1 .. Len(l) - 1 : r[k] = l[k + 1]
  <2>1. /\ r \in Seq(S) /\ Len(r) = Len(l) - 1
        /\ \A k \in 1 .. Len(r) : r[k] = l[k + 1]
    BY HeadTailProperties
  <2> QED BY <2>1
<1> HIDE DEF r, h
<1>4. NobodyTwice(r)
  BY <1>1, <1>3 DEF NobodyTwice
<1>5. ASSUME NEW q PROVE InLine(q, r) <=> InLine(q, l) /\ q # h
  <2>1. ASSUME NEW k \in DOMAIN r, r[k] = q
        PROVE  (\E j \in DOMAIN l : l[j] = q) /\ q # h
    <3>1. k + 1 \in DOMAIN l /\ l[k + 1] = q /\ k + 1 # 1
      BY <1>1, <1>3, <2>1
    <3> QED BY <1>2, <3>1 DEF NobodyTwice
  <2>2. ASSUME NEW k \in DOMAIN l, l[k] = q, q # h
        PROVE  \E j \in DOMAIN r : r[j] = q
    <3>1. k # 1 /\ k - 1 \in DOMAIN r /\ r[k - 1] = l[(k - 1) + 1] /\ (k - 1) + 1 = k
      BY <1>1, <1>2, <1>3, <2>2
    <3> QED BY <2>2, <3>1
  <2> QED BY <2>1, <2>2 DEF InLine
<1> QED BY <1>2, <1>3, <1>4, <1>5 DEF InLine, r, h

\* A mutex of processes of S: one that is free has no line, and its owner
\* does not stand in it.
Sound(m, S) ==
  /\ m = [owner |-> m.owner, line |-> m.line]
  /\ m.owner \in S \cup {NoPid} /\ m.line \in Seq(S)
  /\ m.owner = NoPid => m.line = <<>>
  /\ ~ Stands(m.owner, m)
  /\ NobodyTwice(m.line)

(* mutex_lock by a process that does not wait for the mutex already.       *)
LEMMA LockSound ==
  ASSUME NEW S, NoPid \notin S, NEW p \in S, NEW m, Sound(m, S), ~ Stands(p, m)
  PROVE  /\ Sound(Lock(m, p), S)
         /\ Lock(m, p).owner = IF m.owner = NoPid THEN p ELSE m.owner
         /\ \A q : Stands(q, Lock(m, p)) <=>
                     Stands(q, m) \/ (q = p /\ m.owner # NoPid /\ m.owner # p)
<1>1. m = [owner |-> m.owner, line |-> m.line] /\ m.line \in Seq(S)
  BY DEF Sound
<1>2. CASE m.owner = p
  BY <1>2 DEF Lock
<1>3. CASE m.owner = NoPid
  <2>1. Lock(m, p) = [owner |-> p, line |-> <<>>]
    BY <1>1, <1>3 DEF Lock, Sound
  <2>2. \A q : ~ Stands(q, Lock(m, p)) /\ ~ Stands(q, m)
    BY <1>3, <2>1 DEF Stands, Sound
  <2>3. <<>> \in Seq(S) /\ NobodyTwice(<<>>)
    BY DEF NobodyTwice
  <2> QED BY <1>3, <2>1, <2>2, <2>3 DEF Sound
<1>4. CASE m.owner # p /\ m.owner # NoPid
  <2> DEFINE r == Append(m.line, p)
  <2>1. Lock(m, p) = [owner |-> m.owner, line |-> r]
    BY <1>1, <1>4 DEF Lock
  <2>2. /\ r \in Seq(S) /\ NobodyTwice(r)
        /\ \A q : InLine(q, r) <=> InLine(q, m.line) \/ q = p
    BY <1>1, JoinLine DEF Sound, Stands, InLine
  <2> HIDE DEF r
  <2>3. \A q : Stands(q, Lock(m, p)) <=> Stands(q, m) \/ q = p
    BY <2>1, <2>2 DEF Stands, InLine
  <2> QED BY <1>4, <2>1, <2>2, <2>3 DEF Sound
<1> QED BY <1>2, <1>3, <1>4

(* mutex_unlock, or the death of the owner: the first in line is next.     *)
LEMMA UnlockSound ==
  ASSUME NEW S, NoPid \notin S, NEW p \in S, NEW m, Sound(m, S)
  PROVE  /\ Sound(Unlock(m, p), S)
         /\ m.owner # p => Unlock(m, p) = m
         /\ m.owner = p =>
              /\ Unlock(m, p).owner = NoPid \/ Stands(Unlock(m, p).owner, m)
              /\ Unlock(m, p).owner # p
              /\ \A q : Stands(q, Unlock(m, p)) <=>
                          Stands(q, m) /\ q # Unlock(m, p).owner
<1> DEFINE l == m.line
<1>1. m = [owner |-> m.owner, line |-> l] /\ l \in Seq(S)
  BY DEF Sound
<1>2. CASE m.owner # p
  BY <1>2 DEF Unlock
<1>3. CASE m.owner = p /\ l = <<>>
  <2>1. Unlock(m, p) = [owner |-> NoPid, line |-> <<>>]
    BY <1>3 DEF Unlock, Free
  <2>2. \A q : ~ Stands(q, Unlock(m, p)) /\ ~ Stands(q, m)
    BY <1>3, <2>1 DEF Stands
  <2>3. <<>> \in Seq(S) /\ NobodyTwice(<<>>)
    BY DEF NobodyTwice
  <2> QED BY <1>3, <2>1, <2>2, <2>3 DEF Sound
<1>4. CASE m.owner = p /\ l # <<>>
  <2> DEFINE r == Tail(l)  h == Head(l)
  <2>1. Unlock(m, p) = [owner |-> h, line |-> r]
    BY <1>4 DEF Unlock
  <2>2. /\ h \in S /\ r \in Seq(S) /\ NobodyTwice(r) /\ InLine(h, l)
        /\ \A q : InLine(q, r) <=> InLine(q, l) /\ q # h
    BY <1>1, <1>4, LeaveLine DEF Sound
  <2> HIDE DEF r, h
  <2>3. \A q : /\ Stands(q, m) <=> InLine(q, l)
               /\ Stands(q, Unlock(m, p)) <=> InLine(q, r)
    BY <2>1 DEF Stands, InLine
  <2>4. Stands(h, m) /\ h # NoPid /\ h # p
    BY <1>4, <2>2, <2>3 DEF Sound
  <2>5. Unlock(m, p).owner = h /\ Unlock(m, p).line = r
    BY <2>1
  <2>6. Sound(Unlock(m, p), S)
    BY <2>1, <2>2, <2>3, <2>4, <2>5 DEF Sound
  <2>7. \A q : Stands(q, Unlock(m, p)) <=> Stands(q, m) /\ q # h
    BY <2>2, <2>3
  <2> QED BY <1>4, <2>4, <2>5, <2>6, <2>7
<1> QED BY <1>2, <1>3, <1>4

\* A semaphore of processes of S: nobody stands in line while a token is free.
Fair(s, S) ==
  /\ s = [value |-> s.value, line |-> s.line]
  /\ s.value \in Nat /\ s.line \in Seq(S) /\ NobodyTwice(s.line)
  /\ s.value > 0 => s.line = <<>>

(* sem_wait by a process that does not wait already.                       *)
LEMMA WaitFair ==
  ASSUME NEW S, NEW p \in S, NEW s, Fair(s, S), ~ Stands(p, s)
  PROVE  /\ Fair(Wait(s, p), S)
         /\ \/ /\ s.value = 0 /\ Wait(s, p).value = 0
               /\ \A q : Stands(q, Wait(s, p)) <=> Stands(q, s) \/ q = p
            \/ /\ s.value > 0 /\ Wait(s, p).value = s.value - 1
               /\ \A q : Stands(q, Wait(s, p)) <=> Stands(q, s)
<1>1. /\ s = [value |-> s.value, line |-> s.line] /\ s.line \in Seq(S)
      /\ s.value \in Nat
  BY DEF Fair
<1>2. CASE s.value = 0
  <2> DEFINE r == Append(s.line, p)
  <2>1. Wait(s, p) = [value |-> 0, line |-> r]
    BY <1>1, <1>2 DEF Wait
  <2>a. ~ InLine(p, s.line) /\ NobodyTwice(s.line)
    BY DEF Fair, Stands, InLine
  <2>2. /\ r \in Seq(S) /\ NobodyTwice(r)
        /\ \A q : InLine(q, r) <=> InLine(q, s.line) \/ q = p
    BY <1>1, <2>a, JoinLine
  <2> HIDE DEF r
  <2>3. \A q : Stands(q, Wait(s, p)) <=> Stands(q, s) \/ q = p
    BY <2>1, <2>2 DEF Stands, InLine
  <2> QED BY <1>2, <2>1, <2>2, <2>3 DEF Fair
<1>3. CASE s.value # 0
  <2>1. Wait(s, p) = [value |-> s.value - 1, line |-> s.line] /\ s.value > 0
    BY <1>1, <1>3 DEF Wait
  <2>2. \A q : Stands(q, Wait(s, p)) <=> Stands(q, s)
    BY <2>1 DEF Stands
  <2>3. Fair(Wait(s, p), S)
    BY <1>1, <2>1 DEF Fair
  <2> QED BY <2>1, <2>2, <2>3
<1> QED BY <1>2, <1>3

(* sem_signal gives the token to the first in line, or counts it.          *)
LEMMA SignalFair ==
  ASSUME NEW S, NEW s, Fair(s, S)
  PROVE  /\ Fair(Signal(s), S)
         /\ \/ /\ Signal(s).value = s.value + 1
               /\ \A q : ~ Stands(q, s) /\ ~ Stands(q, Signal(s))
            \/ /\ Signal(s).value = s.value
               /\ \E h \in S : /\ Stands(h, s)
                               /\ \A q : Stands(q, Signal(s)) <=> Stands(q, s) /\ q # h
<1>1. /\ s = [value |-> s.value, line |-> s.line] /\ s.line \in Seq(S)
      /\ s.value \in Nat /\ NobodyTwice(s.line)
  BY DEF Fair
<1>2. CASE s.line = <<>>
  <2>1. Signal(s) = [value |-> s.value + 1, line |-> <<>>]
    BY <1>1, <1>2 DEF Signal
  <2>2. \A q : ~ Stands(q, s) /\ ~ Stands(q, Signal(s))
    BY <1>2, <2>1 DEF Stands
  <2>3. Fair(Signal(s), S)
    BY <1>1, <1>2, <2>1 DEF Fair
  <2> QED BY <2>1, <2>2, <2>3
<1>3. CASE s.line # <<>>
  <2> DEFINE r == Tail(s.line)  h == Head(s.line)
  <2>1. Signal(s) = [value |-> s.value, line |-> r]
    BY <1>1, <1>3 DEF Signal
  <2>2. /\ h \in S /\ r \in Seq(S) /\ NobodyTwice(r) /\ InLine(h, s.line)
        /\ \A q : InLine(q, r) <=> InLine(q, s.line) /\ q # h
    BY <1>1, <1>3, LeaveLine
  <2> HIDE DEF r, h
  <2>3. \A q : /\ Stands(q, s) <=> InLine(q, s.line)
               /\ Stands(q, Signal(s)) <=> InLine(q, r)
    BY <2>1 DEF Stands, InLine
  <2>4. Fair(Signal(s), S)
    <3>1. ~ (s.value > 0)
      BY <1>3 DEF Fair
    <3> QED BY <1>1, <2>1, <2>2, <3>1 DEF Fair
  <2>5. Stands(h, s) /\ \A q : Stands(q, Signal(s)) <=> Stands(q, s) /\ q # h
    BY <2>2, <2>3
  <2>6. Signal(s).value = s.value
    BY <2>1
  <2> QED BY <2>2, <2>4, <2>5, <2>6
<1> QED BY <1>2, <1>3

-----------------------------------------------------------------------------
(* The restaurant, as long as nobody is dismissed                          *)

Tokens == {"full", "empty"}

\* The waiting of a worker takes place at most at one semaphore; the sets of
\* those on their way with a token, and with a plate to hand over.
Waits(p) == \E t \in Tokens : Stands(p, tokens[t])
Before(j) == Busy(j, {"lock", "inside"})
After(j) == Busy(j, {"give"})

Kitchens ==
  /\ plates \in Int
  /\ tokens = [t \in Tokens |-> tokens[t]] /\ \A t \in Tokens : Fair(tokens[t], Worker)
  /\ toDie = [j \in Job |-> 0]
  /\ at = [p \in {Boss} \cup Worker |-> at[p]]
  /\ at[Boss] \in {"keys", "orders", "ended"}
  /\ \A p \in Worker :
       at[p] \in {"unborn", "wait", "lock", "inside", "give", "leave", "dead"}
  /\ job \in [Worker -> Job \cup {"none"}]
  /\ victim = [p \in {Boss} \cup Worker |-> victim[p]] /\ victim[Boss] \in Nat

\* Orders are carried out one at a time, and after the last one there is
\* none.
Orders ==
  /\ at[Boss] = "orders" => order.do \in {"call", "quit"} /\ order.job \in Job
  /\ order.do = "quit" => at[Boss] \in {"orders", "ended"}
  /\ at[Boss] = "ended" => order.do = "quit"

\* Everybody at work is in the array of its job.
Staffed ==
  /\ staff \in [Job -> Seq(Worker)]
  /\ \A p \in Worker : at[p] \notin {"unborn", "dead"} =>
       /\ job[p] \in Job
       /\ \E k \in DOMAIN staff[job[p]] : staff[job[p]][k] = p

\* Whoever is counted by victim[Boss] is dead; nobody else dies.
All == staff["chef"] \o staff["waiter"]

Killings ==
  /\ \A k \in DOMAIN All : k <= victim[Boss] => at[All[k]] = "dead"
  /\ at[Boss] = "ended" => victim[Boss] >= Len(All)

\* Until the program is told to end, the processes are created in order, and
\* the trays and the plates are accounted for.
Serving ==
  /\ \A p \in Worker : at[p] # "dead"
  /\ victim[Boss] = 0
  /\ \E h \in 0 .. MaxStaff :
       Hired = 1 .. h /\ (at[Boss] = "orders" => h < MaxStaff)
  /\ \A p \in Worker, t \in Tokens :
       Stands(p, tokens[t]) => at[p] = "lock" /\ Takes[job[p]] = t
  /\ plates = tokens["empty"].value
               + (Cardinality(Before("waiter")) + Cardinality(After("chef")))
  /\ TRAYS_QTY - plates = tokens["full"].value
               + (Cardinality(Before("chef")) + Cardinality(After("waiter")))

Peace == Kitchens /\ Orders /\ Staffed /\ Killings /\ (order.do # "quit" => Serving)

RestaurantInv == dismissals \in Nat /\ (dismissals = 0 => Peace)

-----------------------------------------------------------------------------

\* Each job takes of one semaphore and gives to the other.
LEMMA JobTokens ==
  /\ \A j \in Job : Takes[j] \in Tokens /\ Gives[j] \in Tokens /\ Takes[j] # Gives[j]
  /\ Takes["chef"] = "full" /\ Takes["waiter"] = "empty"
  /\ Gives["chef"] = "empty" /\ Gives["waiter"] = "full"
BY DEF Takes, Gives, Job, Tokens

\* Who is busy, in the terms of the invariant.
LEMMA WhoIsBusy ==
  ASSUME Kitchens, NEW j, NEW places, NEW q
  PROVE  q \in Busy(j, places) <=>
           q \in Worker /\ job[q] = j /\ at[q] \in places /\ ~ Waits(q)
BY DEF Busy, Waits, Kitchens, Tokens

\* The sets of the busy are finite, and grow and shrink by one.
LEMMA BusyCount ==
  ASSUME NEW j, NEW places
  PROVE  /\ IsFiniteSet(Busy(j, places)) /\ Cardinality(Busy(j, places)) \in Nat
         /\ \A p : p \notin Busy(j, places) =>
              Cardinality(Busy(j, places) \cup {p}) = Cardinality(Busy(j, places)) + 1
         /\ \A p \in Busy(j, places) :
              Cardinality(Busy(j, places) \ {p}) = Cardinality(Busy(j, places)) - 1
<1>1. IsFiniteSet(Worker)
  BY FS_Interval, RestaurantAssumption DEF Worker
<1>2. Busy(j, places) \subseteq Worker
  BY DEF Busy
<1>3. IsFiniteSet(Busy(j, places)) /\ Cardinality(Busy(j, places)) \in Nat
  BY <1>1, <1>2, FS_Subset, FS_CardinalityType
<1> QED BY <1>3, FS_AddElement, FS_RemoveElement

\* Nobody else is disturbed: what is asked of the places, the orders and the
\* arrays after a step of one worker from one place of its loop to the next.
Steps(p, from, to) ==
  /\ p \in Worker /\ at[p] = from
  /\ from \in {"wait", "lock", "inside", "give", "leave"}
  /\ to \in {"wait", "lock", "inside", "give", "leave"}
  /\ Goes(p, to)
  /\ UNCHANGED <<staff, toDie, job, victim, order>>

\* Such a step, as far as the semaphores and the trays are not concerned.
LEMMA WorkerMoves ==
  ASSUME Peace, NEW p, NEW from, NEW to, Steps(p, from, to)
  PROVE  /\ at'[p] = to /\ \A q \in {Boss} \cup Worker : q # p => at'[q] = at[q]
         /\ Orders' /\ Staffed' /\ Killings'
         /\ at' = [q \in {Boss} \cup Worker |-> at'[q]]
         /\ at'[Boss] \in {"keys", "orders", "ended"}
         /\ \A q \in Worker :
              at'[q] \in {"unborn", "wait", "lock", "inside", "give", "leave", "dead"}
         /\ job[p] \in Job
         /\ order.do # "quit" =>
              /\ \A q \in Worker : at'[q] # "dead"
              /\ \E h \in 0 .. MaxStaff :
                   Hired' = 1 .. h /\ (at'[Boss] = "orders" => h < MaxStaff)
<1>1. /\ at' = [at EXCEPT ![p] = to] /\ p \in Worker /\ Boss \notin Worker
      /\ at = [q \in {Boss} \cup Worker |-> at[q]]
  BY DEF Steps, Goes, Peace, Kitchens, Worker, Boss
<1>2. /\ at'[p] = to /\ \A q \in {Boss} \cup Worker : q # p => at'[q] = at[q]
      /\ at' = [q \in {Boss} \cup Worker |-> at'[q]]
  BY <1>1
<1>3. \A q \in Worker : at'[q] = "dead" <=> at[q] = "dead"
  BY <1>1, <1>2 DEF Steps
<1>4. \A q \in Worker : at'[q] = "unborn" <=> at[q] = "unborn"
  BY <1>1, <1>2 DEF Steps
<1>5. at'[Boss] = at[Boss]
  BY <1>1, <1>2
<1>6. Orders'
  BY <1>5 DEF Peace, Orders, Steps
<1>7. Staffed' /\ job[p] \in Job
  BY <1>3, <1>4, <1>1 DEF Peace, Staffed, Steps
<1>8. All' = All /\ All \in Seq(Worker)
  <2>1. staff["chef"] \in Seq(Worker) /\ staff["waiter"] \in Seq(Worker)
    BY DEF Peace, Staffed, Job
  <2> QED BY <2>1 DEF All, Steps
<1>9. Killings'
  <2>1. \A k \in DOMAIN All : All[k] \in Worker
    BY <1>8
  <2> QED BY <1>3, <1>5, <1>8, <2>1 DEF Peace, Killings, Steps
<1>10. Hired' = Hired
  BY <1>4 DEF Hired
<1>11. order.do # "quit" =>
         /\ \A q \in Worker : at'[q] # "dead"
         /\ \E h \in 0 .. MaxStaff :
              Hired' = 1 .. h /\ (at'[Boss] = "orders" => h < MaxStaff)
  BY <1>3, <1>5, <1>10 DEF Peace, Serving
<1> QED BY <1>1, <1>2, <1>5, <1>6, <1>7, <1>9, <1>11 DEF Peace, Kitchens, Steps

\* In front of the kitchen: the token is taken, or the worker stands in line.
LEMMA TakeTokenPeace ==
  ASSUME Peace, NEW p \in Worker, TakeToken(p)
  PROVE  Peace'
<1> DEFINE t == Takes[job[p]]  s == tokens[t]
<1>1. Steps(p, "wait", "lock")
  BY DEF TakeToken, Ready, Steps
<1>2. job[p] \in Job /\ at[p] = "wait" /\ ~ Stands(p, tokens[t]) /\ t \in Tokens
  <2>1. job[p] \in Job
    BY <1>1, WorkerMoves
  <2> QED BY <2>1, JobTokens DEF TakeToken, Ready, Peace, Kitchens
<1>3. Fair(s, Worker) /\ ~ Stands(p, s)
  BY <1>2 DEF Peace, Kitchens
<1>4. /\ tokens' = [tokens EXCEPT ![t] = Wait(s, p)]
      /\ tokens = [u \in Tokens |-> tokens[u]]
      /\ \A u \in Tokens : Fair(tokens[u], Worker)
  BY DEF TakeToken, Peace, Kitchens
<1>5. /\ tokens'[t] = Wait(s, p) /\ \A u \in Tokens : u # t => tokens'[u] = tokens[u]
      /\ tokens' = [u \in Tokens |-> tokens'[u]]
  BY <1>2, <1>4
<1>6. /\ Fair(Wait(s, p), Worker)
      /\ \/ /\ s.value = 0 /\ Wait(s, p).value = 0
            /\ \A q : Stands(q, Wait(s, p)) <=> Stands(q, s) \/ q = p
         \/ /\ s.value > 0 /\ Wait(s, p).value = s.value - 1
            /\ \A q : Stands(q, Wait(s, p)) <=> Stands(q, s)
  BY <1>3, WaitFair
<1>7. plates' = plates /\ plates \in Int /\ order' = order /\ job' = job /\ victim' = victim
  BY DEF TakeToken, Peace, Kitchens
<1>8. Kitchens'
  <2>1. \A u \in Tokens : Fair(tokens'[u], Worker)
    BY <1>4, <1>5, <1>6
  <2> QED BY <1>1, <1>5, <2>1, WorkerMoves DEF Kitchens, Peace, TakeToken
<1>9. ASSUME order.do # "quit" PROVE Serving'
  <2>1. Serving /\ Kitchens
    BY <1>9 DEF Peace
  <2>2. /\ at'[p] = "lock" /\ \A q \in {Boss} \cup Worker : q # p => at'[q] = at[q]
    BY <1>1, WorkerMoves
  <2>3. \A q \in Worker, u \in Tokens :
          Stands(q, tokens'[u]) => at'[q] = "lock" /\ Takes[job[q]] = u
    BY <1>5, <1>6, <2>1, <2>2 DEF Serving
  <2>4. \A j, places : Busy(j, places)' =
          {q \in Worker : job[q] = j /\ at'[q] \in places
                            /\ \A u \in Tokens : ~ Stands(q, tokens'[u])}
    BY <1>5, <1>7 DEF Busy
  <2>5. \A j, places : Busy(j, places) =
          {q \in Worker : job[q] = j /\ at[q] \in places
                            /\ \A u \in Tokens : ~ Stands(q, tokens[u])}
    BY <1>4 DEF Busy
  <2>6. \A q \in Worker : q # p =>
          \A j, places : q \in Busy(j, places)' <=> q \in Busy(j, places)
    <3>1. \A q \in Worker, u \in Tokens : q # p =>
            (Stands(q, tokens'[u]) <=> Stands(q, tokens[u]))
      BY <1>5, <1>6
    <3> QED BY <3>1, <2>2, <2>4, <2>5
  <2>7. /\ \A j : After(j)' = After(j) /\ p \notin Before(j)
        /\ \A j : j # job[p] => Before(j)' = Before(j)
    <3>1. \A j : /\ p \notin Busy(j, {"give"})' /\ p \notin Busy(j, {"give"})
                 /\ p \notin Busy(j, {"lock", "inside"})
                 /\ j # job[p] => p \notin Busy(j, {"lock", "inside"})'
      BY <1>2, <2>2, <2>4, <2>5
    <3>2. \A j, places : Busy(j, places) \subseteq Worker /\ Busy(j, places)' \subseteq Worker
      BY <2>4, <2>5
    <3> QED BY <3>1, <3>2, <2>6 DEF After, Before
  <2>8. ASSUME NEW j, j = job[p]
        PROVE  \/ s.value = 0 /\ tokens'[t].value = 0 /\ Before(j)' = Before(j)
               \/ /\ s.value > 0 /\ tokens'[t].value = s.value - 1
                  /\ Before(j)' = Before(j) \cup {p}
    <3>0. /\ Before(j) \subseteq Worker /\ Before(j)' \subseteq Worker
          /\ p \notin Before(j)
          /\ \A q \in Worker : q # p => (q \in Before(j)' <=> q \in Before(j))
          /\ p \in Before(j)' <=> \A u \in Tokens : ~ Stands(p, tokens'[u])
      BY <2>2, <2>4, <2>5, <2>6, <2>7, <2>8 DEF Before
    <3>1. CASE /\ s.value = 0 /\ Wait(s, p).value = 0
               /\ \A q : Stands(q, Wait(s, p)) <=> Stands(q, s) \/ q = p
      <4>1. Stands(p, tokens'[t])
        BY <3>1, <1>5
      <4>2. Before(j)' = Before(j)
        BY <3>0, <4>1, <1>2
      <4> QED BY <3>1, <4>2, <1>5
    <3>2. CASE /\ s.value > 0 /\ Wait(s, p).value = s.value - 1
               /\ \A q : Stands(q, Wait(s, p)) <=> Stands(q, s)
      <4>1. \A u \in Tokens : ~ Stands(p, tokens[u])
        BY <2>1, <1>2 DEF Serving
      <4>2. \A u \in Tokens : ~ Stands(p, tokens'[u])
        BY <4>1, <3>2, <1>5
      <4>3. Before(j)' = Before(j) \cup {p}
        BY <3>0, <4>2
      <4> QED BY <3>2, <4>3, <1>5
    <3> QED BY <3>1, <3>2, <1>6
  <2>9. /\ plates = tokens'["empty"].value
                     + (Cardinality(Before("waiter")') + Cardinality(After("chef")'))
        /\ TRAYS_QTY - plates = tokens'["full"].value
                     + (Cardinality(Before("chef")') + Cardinality(After("waiter")'))
    <3> DEFINE E == tokens["empty"].value
               F == tokens["full"].value
               BW == Cardinality(Before("waiter"))
               BC == Cardinality(Before("chef"))
               AW == Cardinality(After("waiter"))
               AC == Cardinality(After("chef"))
    <3>1. /\ BW \in Nat /\ BC \in Nat /\ AW \in Nat /\ AC \in Nat
          /\ \A j : Cardinality(Before(j) \cup {p}) = Cardinality(Before(j)) + 1
      BY BusyCount, <2>7 DEF Before, After
    <3>2. E \in Nat /\ F \in Nat /\ TRAYS_QTY \in Nat
      BY <1>4, RestaurantAssumption DEF Fair, Tokens
    <3>3. plates = E + (BW + AC) /\ TRAYS_QTY - plates = F + (BC + AW)
      BY <2>1 DEF Serving
    <3>4. CASE job[p] = "chef" /\ t = "full"
      <4>1. tokens'["empty"].value = E /\ Before("waiter")' = Before("waiter")
        BY <3>4, <1>5, <2>7 DEF Tokens
      <4>2. tokens'["full"].value + Cardinality(Before("chef")') = F + BC
        <5>1. \/ F = 0 /\ tokens'["full"].value = 0 /\ Before("chef")' = Before("chef")
              \/ /\ tokens'["full"].value = F - 1
                 /\ Before("chef")' = Before("chef") \cup {p}
          BY <2>8, <3>4
        <5>2. Cardinality(Before("chef") \cup {p}) = BC + 1
          BY <3>1
        <5> HIDE DEF BC, F
        <5> QED BY <5>1, <5>2, <3>1, <3>2 DEF BC
      <4>3. tokens'["full"].value \in Nat /\ Cardinality(Before("chef")') \in Nat
        <5>1. tokens'["full"].value \in Nat
          BY <1>8 DEF Kitchens, Fair, Tokens
        <5>2. IsFiniteSet(Before("chef")) /\ IsFiniteSet(Before("chef")')
          BY BusyCount, <3>4, <2>8, FS_AddElement DEF Before
        <5> QED BY <5>1, <5>2, FS_CardinalityType
      <4> HIDE DEF E, F, BW, BC, AW, AC
      <4> QED BY <3>1, <3>2, <3>3, <4>1, <4>2, <4>3, <2>7 DEF BW, AW, AC
    <3>5. CASE job[p] = "waiter" /\ t = "empty"
      <4>1. tokens'["full"].value = F /\ Before("chef")' = Before("chef")
        BY <3>5, <1>5, <2>7 DEF Tokens
      <4>2. tokens'["empty"].value + Cardinality(Before("waiter")') = E + BW
        <5>1. \/ E = 0 /\ tokens'["empty"].value = 0 /\ Before("waiter")' = Before("waiter")
              \/ /\ tokens'["empty"].value = E - 1
                 /\ Before("waiter")' = Before("waiter") \cup {p}
          BY <2>8, <3>5
        <5>2. Cardinality(Before("waiter") \cup {p}) = BW + 1
          BY <3>1
        <5> HIDE DEF BW, E
        <5> QED BY <5>1, <5>2, <3>1, <3>2 DEF BW
      <4>3. tokens'["empty"].value \in Nat /\ Cardinality(Before("waiter")') \in Nat
        <5>1. tokens'["empty"].value \in Nat
          BY <1>8 DEF Kitchens, Fair, Tokens
        <5>2. IsFiniteSet(Before("waiter")) /\ IsFiniteSet(Before("waiter")')
          BY BusyCount, <3>5, <2>8, FS_AddElement DEF Before
        <5> QED BY <5>1, <5>2, FS_CardinalityType
      <4> HIDE DEF E, F, BW, BC, AW, AC
      <4> QED BY <3>1, <3>2, <3>3, <4>1, <4>2, <4>3, <2>7 DEF BC, AW, AC
    <3> QED BY <3>4, <3>5, <1>2, JobTokens DEF Job
  <2> QED
    BY <1>1, <1>7, <1>9, <2>1, <2>3, <2>9, WorkerMoves DEF Serving
<1> QED BY <1>1, <1>7, <1>8, <1>9, WorkerMoves DEF Peace

\* The sets of the busy, spelled out, now and after a step that leaves the
\* semaphores alone.
LEMMA BusySets ==
  ASSUME Kitchens
  PROVE  /\ \A j, places : Busy(j, places) =
              {q \in Worker : job[q] = j /\ at[q] \in places
                                /\ \A u \in Tokens : ~ Stands(q, tokens[u])}
         /\ UNCHANGED <<tokens, job>> =>
              \A j, places : Busy(j, places)' =
                {q \in Worker : job[q] = j /\ at'[q] \in places
                                  /\ \A u \in Tokens : ~ Stands(q, tokens[u])}
BY DEF Kitchens, Busy

\* Into the kitchen and out of it: no set and no semaphore changes.
LEMMA DoorPeace ==
  ASSUME Peace, NEW p \in Worker, EnterKitchen(p) \/ LeaveKitchen(p)
  PROVE  Peace'
<1>1. \/ Steps(p, "lock", "inside")
      \/ Steps(p, "leave", "wait")
  BY DEF EnterKitchen, LeaveKitchen, Ready, Steps
<1>2. PICK from, to : /\ Steps(p, from, to)
                      /\ \/ from = "lock" /\ to = "inside"
                         \/ from = "leave" /\ to = "wait"
  <2>1. CASE Steps(p, "lock", "inside")
    BY <2>1
  <2>2. CASE Steps(p, "leave", "wait")
    BY <2>2
  <2> QED BY <1>1, <2>1, <2>2
<1>3. /\ UNCHANGED <<plates, tokens>> /\ \A t \in Tokens : ~ Stands(p, tokens[t])
  BY DEF EnterKitchen, LeaveKitchen, Ready, Peace, Kitchens
<1>4. UNCHANGED <<staff, toDie, job, victim, order>>
  BY <1>2 DEF Steps
<1>5. Kitchens'
  BY <1>2, <1>3, <1>4, WorkerMoves DEF Kitchens, Peace
<1>6. ASSUME order.do # "quit" PROVE Serving'
  <2>1. Serving /\ Kitchens
    BY <1>6 DEF Peace
  <2>2. /\ at'[p] = to /\ at[p] = from
        /\ \A q \in {Boss} \cup Worker : q # p => at'[q] = at[q]
    BY <1>2, WorkerMoves DEF Steps
  <2>3. \A j : Before(j)' = Before(j) /\ After(j)' = After(j)
    <3>1. \A j, places :
            /\ Busy(j, places) =
                 {q \in Worker : job[q] = j /\ at[q] \in places
                                   /\ \A u \in Tokens : ~ Stands(q, tokens[u])}
            /\ Busy(j, places)' =
                 {q \in Worker : job[q] = j /\ at'[q] \in places
                                   /\ \A u \in Tokens : ~ Stands(q, tokens[u])}
      BY <2>1, <1>3, <1>4, BusySets
    <3>2. \A q \in Worker : /\ at[q] \in {"lock", "inside"} <=> at'[q] \in {"lock", "inside"}
                            /\ at[q] \in {"give"} <=> at'[q] \in {"give"}
      BY <2>2, <1>2
    <3> QED BY <3>1, <3>2 DEF Before, After
  <2>4. \A q \in Worker, t \in Tokens :
          Stands(q, tokens'[t]) => at'[q] = "lock" /\ Takes[job'[q]] = t
    BY <2>1, <2>2, <1>3, <1>4 DEF Serving
  <2> QED
    BY <2>1, <2>3, <2>4, <1>2, <1>3, <1>4, <1>6, WorkerMoves DEF Serving
<1> QED BY <1>2, <1>4, <1>5, <1>6, WorkerMoves DEF Peace

\* The plate: the worker passes from those before to those after it.
LEMMA PlatePeace ==
  ASSUME Peace, NEW p \in Worker, Plate(p)
  PROVE  Peace'
<1>1. /\ Steps(p, "inside", "give")
      /\ plates' = IF job[p] = "chef" THEN plates + 1 ELSE plates - 1
      /\ UNCHANGED tokens /\ \A t \in Tokens : ~ Stands(p, tokens[t])
  BY DEF Plate, Ready, Steps, Peace, Kitchens
<1>2. UNCHANGED <<staff, toDie, job, victim, order>> /\ job[p] \in Job
  BY <1>1, WorkerMoves DEF Steps
<1>3. Kitchens'
  BY <1>1, <1>2, WorkerMoves DEF Kitchens, Peace
<1>4. ASSUME order.do # "quit" PROVE Serving'
  <2>1. Serving /\ Kitchens
    BY <1>4 DEF Peace
  <2>2. /\ at'[p] = "give" /\ at[p] = "inside"
        /\ \A q \in {Boss} \cup Worker : q # p => at'[q] = at[q]
    BY <1>1, WorkerMoves DEF Steps
  <2>3. \A j : /\ j # job[p] => Before(j)' = Before(j) /\ After(j)' = After(j)
               /\ j = job[p] => /\ p \in Before(j) /\ Before(j)' = Before(j) \ {p}
                                /\ p \notin After(j) /\ After(j)' = After(j) \cup {p}
    <3>1. \A j, places :
            /\ Busy(j, places) =
                 {q \in Worker : job[q] = j /\ at[q] \in places
                                   /\ \A u \in Tokens : ~ Stands(q, tokens[u])}
            /\ Busy(j, places)' =
                 {q \in Worker : job[q] = j /\ at'[q] \in places
                                   /\ \A u \in Tokens : ~ Stands(q, tokens[u])}
      BY <2>1, <1>1, <1>2, BusySets
    <3>2. ASSUME NEW j
          PROVE  /\ Before(j) \subseteq Worker /\ Before(j)' \subseteq Worker
                 /\ After(j) \subseteq Worker /\ After(j)' \subseteq Worker
                 /\ \A q \in Worker : q # p =>
                      /\ q \in Before(j) <=> q \in Before(j)'
                      /\ q \in After(j) <=> q \in After(j)'
                 /\ p \in Before(j) <=> j = job[p]
                 /\ p \in After(j)' <=> j = job[p]
                 /\ p \notin After(j) /\ p \notin Before(j)'
      BY <2>2, <1>1, <3>1 DEF Before, After
    <3> QED BY <3>2
  <2>4. \A q \in Worker, t \in Tokens :
          Stands(q, tokens'[t]) => at'[q] = "lock" /\ Takes[job'[q]] = t
    BY <2>1, <2>2, <1>1, <1>2 DEF Serving
  <2>5. /\ plates' = tokens["empty"].value
                     + (Cardinality(Before("waiter")') + Cardinality(After("chef")'))
        /\ TRAYS_QTY - plates' = tokens["full"].value
                     + (Cardinality(Before("chef")') + Cardinality(After("waiter")'))
    <3> DEFINE E == tokens["empty"].value
               F == tokens["full"].value
               BW == Cardinality(Before("waiter"))
               BC == Cardinality(Before("chef"))
               AW == Cardinality(After("waiter"))
               AC == Cardinality(After("chef"))
    <3>1. /\ BW \in Nat /\ BC \in Nat /\ AW \in Nat /\ AC \in Nat
          /\ \A j : /\ p \in Before(j) => Cardinality(Before(j) \ {p}) = Cardinality(Before(j)) - 1
                    /\ p \notin After(j) => Cardinality(After(j) \cup {p}) = Cardinality(After(j)) + 1
      BY BusyCount DEF Before, After
    <3>2. E \in Nat /\ F \in Nat /\ TRAYS_QTY \in Nat
      BY <2>1, RestaurantAssumption DEF Fair, Tokens, Kitchens
    <3>3. plates = E + (BW + AC) /\ TRAYS_QTY - plates = F + (BC + AW)
      BY <2>1 DEF Serving
    <3>4. CASE job[p] = "chef"
      <4>1. /\ Cardinality(Before("chef")') = BC - 1 /\ Cardinality(After("chef")') = AC + 1
            /\ Cardinality(Before("waiter")') = BW /\ Cardinality(After("waiter")') = AW
        BY <3>4, <3>1, <2>3
      <4>2. plates' = plates + 1
        BY <3>4, <1>1
      <4> HIDE DEF E, F, BW, BC, AW, AC
      <4> QED BY <3>1, <3>2, <3>3, <4>1, <4>2 DEF E, F
    <3>5. CASE job[p] = "waiter"
      <4>1. /\ Cardinality(Before("waiter")') = BW - 1 /\ Cardinality(After("waiter")') = AW + 1
            /\ Cardinality(Before("chef")') = BC /\ Cardinality(After("chef")') = AC
        BY <3>5, <3>1, <2>3
      <4>2. plates' = plates - 1
        BY <3>5, <1>1
      <4> HIDE DEF E, F, BW, BC, AW, AC
      <4> QED BY <3>1, <3>2, <3>3, <4>1, <4>2 DEF E, F
    <3> QED BY <3>4, <3>5, <1>2 DEF Job
  <2> QED
    BY <2>1, <2>4, <2>5, <1>1, <1>2, <1>4, WorkerMoves DEF Serving
<1> QED BY <1>1, <1>2, <1>3, <1>4, WorkerMoves DEF Peace

\* The token that is given away is counted, or it is the first in line who
\* has it now: the worker is no longer after the plate, the other before.
LEMMA GiveTokenPeace ==
  ASSUME Peace, NEW p \in Worker, GiveToken(p)
  PROVE  Peace'
<1> DEFINE t == Gives[job[p]]  s == tokens[t]
<1>1. Steps(p, "give", "leave")
  BY DEF GiveToken, Ready, Steps
<1>2. job[p] \in Job /\ at[p] = "give" /\ t \in Tokens
      /\ \A u \in Tokens : ~ Stands(p, tokens[u])
  <2>1. job[p] \in Job
    BY <1>1, WorkerMoves
  <2> QED BY <2>1, JobTokens DEF GiveToken, Ready, Peace, Kitchens
<1>4. /\ tokens' = [tokens EXCEPT ![t] = Signal(s)]
      /\ tokens = [u \in Tokens |-> tokens[u]]
      /\ \A u \in Tokens : Fair(tokens[u], Worker)
  BY DEF GiveToken, Peace, Kitchens
<1>5. /\ tokens'[t] = Signal(s) /\ \A u \in Tokens : u # t => tokens'[u] = tokens[u]
      /\ tokens' = [u \in Tokens |-> tokens'[u]]
  BY <1>2, <1>4
<1>6. /\ Fair(Signal(s), Worker)
      /\ \/ /\ Signal(s).value = s.value + 1
            /\ \A q : ~ Stands(q, s) /\ ~ Stands(q, Signal(s))
         \/ /\ Signal(s).value = s.value
            /\ \E h \in Worker :
                 /\ Stands(h, s)
                 /\ \A q : Stands(q, Signal(s)) <=> Stands(q, s) /\ q # h
  <2>1. Fair(s, Worker)
    BY <1>2, <1>4
  <2> HIDE DEF s
  <2> QED BY <2>1, SignalFair
<1>7. plates' = plates /\ plates \in Int /\ UNCHANGED <<order, job, victim, staff, toDie>>
  BY DEF GiveToken, Peace, Kitchens
<1>8. Kitchens'
  <2>1. \A u \in Tokens : Fair(tokens'[u], Worker)
    BY <1>4, <1>5, <1>6
  <2> QED BY <1>1, <1>5, <1>7, <2>1, WorkerMoves DEF Kitchens, Peace
<1>9. ASSUME order.do # "quit" PROVE Serving'
  <2>1. Serving /\ Kitchens
    BY <1>9 DEF Peace
  <2>2. /\ at'[p] = "leave" /\ \A q \in {Boss} \cup Worker : q # p => at'[q] = at[q]
    BY <1>1, WorkerMoves
  <2>3. \A q \in Worker, u \in Tokens : Stands(q, tokens'[u]) => Stands(q, tokens[u])
    BY <1>5, <1>6
  <2>4. \A q \in Worker, u \in Tokens :
          Stands(q, tokens'[u]) => at'[q] = "lock" /\ Takes[job'[q]] = u
    BY <1>2, <1>7, <2>1, <2>2, <2>3 DEF Serving
  <2>5. \A j, places :
          /\ Busy(j, places) =
               {q \in Worker : job[q] = j /\ at[q] \in places
                                 /\ \A u \in Tokens : ~ Stands(q, tokens[u])}
          /\ Busy(j, places)' =
               {q \in Worker : job[q] = j /\ at'[q] \in places
                                 /\ \A u \in Tokens : ~ Stands(q, tokens'[u])}
    BY <1>4, <1>5, <1>7 DEF Busy
  <2>6. ASSUME NEW j
        PROVE  /\ Before(j) \subseteq Worker /\ Before(j)' \subseteq Worker
               /\ After(j) \subseteq Worker /\ After(j)' \subseteq Worker
               /\ p \notin Before(j) /\ p \notin Before(j)' /\ p \notin After(j)'
               /\ p \in After(j) <=> j = job[p]
    BY <1>2, <2>2, <2>5 DEF Before, After
  <2>7. ASSUME NEW q \in Worker, q # p, NEW j,
               \A u \in Tokens : Stands(q, tokens'[u]) <=> Stands(q, tokens[u])
        PROVE  /\ q \in Before(j)' <=> q \in Before(j)
               /\ q \in After(j)' <=> q \in After(j)
    BY <2>2, <2>5, <2>7 DEF Before, After
  <2>8. ASSUME NEW q \in Worker, NEW j, \E u \in Tokens : Stands(q, tokens[u])
        PROVE  q \notin After(j)' /\ q \notin After(j)
    <3>1. at[q] = "lock"
      BY <2>1, <2>8 DEF Serving
    <3> QED BY <3>1, <2>2, <2>5, <2>8 DEF After
  <2>9. \A j : /\ j # job[p] => After(j)' = After(j)
               /\ j = job[p] => p \in After(j) /\ After(j)' = After(j) \ {p}
    <3>1. ASSUME NEW q \in Worker, q # p, NEW j
          PROVE  q \in After(j)' <=> q \in After(j)
      <4>1. CASE \E u \in Tokens : Stands(q, tokens[u])
        BY <4>1, <2>8
      <4>2. CASE \A u \in Tokens : ~ Stands(q, tokens[u])
        BY <4>2, <2>3, <2>7, <3>1
      <4> QED BY <4>1, <4>2
    <3> QED BY <3>1, <2>6
  <2>10. \/ /\ tokens'[t].value = s.value + 1
            /\ \A j : Before(j)' = Before(j)
         \/ /\ tokens'[t].value = s.value
            /\ \E h \in Worker :
                 /\ job[h] \in Job /\ Takes[job[h]] = t
                 /\ \A j : /\ j # job[h] => Before(j)' = Before(j)
                           /\ j = job[h] => h \notin Before(j) /\ Before(j)' = Before(j) \cup {h}
    <3>1. CASE /\ Signal(s).value = s.value + 1
               /\ \A q : ~ Stands(q, s) /\ ~ Stands(q, Signal(s))
      <4>1. \A q \in Worker, u \in Tokens : Stands(q, tokens'[u]) <=> Stands(q, tokens[u])
        BY <3>1, <1>5
      <4>2. \A j : Before(j)' = Before(j)
        BY <4>1, <2>6, <2>7
      <4> QED BY <3>1, <4>2, <1>5
    <3>2. ASSUME Signal(s).value = s.value,
                 NEW h \in Worker, Stands(h, s),
                 \A q : Stands(q, Signal(s)) <=> Stands(q, s) /\ q # h
          PROVE  /\ tokens'[t].value = s.value
                 /\ job[h] \in Job /\ Takes[job[h]] = t
                 /\ \A j : /\ j # job[h] => Before(j)' = Before(j)
                           /\ j = job[h] => h \notin Before(j) /\ Before(j)' = Before(j) \cup {h}
      <4>1. at[h] = "lock" /\ Takes[job[h]] = t /\ h # p /\ at'[h] = "lock"
        BY <3>2, <1>2, <2>1, <2>2 DEF Serving
      <4>2. job[h] \in Job
        BY <4>1 DEF Peace, Staffed
      <4>3. \A q \in Worker, u \in Tokens : q # h =>
              (Stands(q, tokens'[u]) <=> Stands(q, tokens[u]))
        BY <3>2, <1>5
      <4>4. \A u \in Tokens : ~ Stands(h, tokens'[u])
        <5>1. \A u \in Tokens : Stands(h, tokens[u]) => u = t
          BY <4>1, <2>1 DEF Serving
        <5> QED BY <5>1, <3>2, <2>3, <1>5
      <4>5. ASSUME NEW j
            PROVE  h \notin Before(j) /\ (h \in Before(j)' <=> j = job[h])
        BY <4>1, <4>4, <3>2, <1>2, <2>5 DEF Before
      <4>6. \A j : /\ j # job[h] => Before(j)' = Before(j)
                   /\ j = job[h] => h \notin Before(j) /\ Before(j)' = Before(j) \cup {h}
        <5>1. ASSUME NEW q \in Worker, q # h, NEW j
              PROVE  q \in Before(j)' <=> q \in Before(j)
          <6>1. CASE q = p
            BY <6>1, <2>6
          <6>2. CASE q # p
            BY <6>2, <4>3, <2>7, <5>1
          <6> QED BY <6>1, <6>2
        <5> QED BY <5>1, <4>5, <2>6
      <4>7. tokens'[t].value = s.value
        BY <3>2, <1>5
      <4> HIDE DEF s, t
      <4> QED BY <4>1, <4>2, <4>6, <4>7
    <3> QED BY <3>1, <3>2, <1>6

  <2>11. /\ plates = tokens'["empty"].value
                     + (Cardinality(Before("waiter")') + Cardinality(After("chef")'))
         /\ TRAYS_QTY - plates = tokens'["full"].value
                     + (Cardinality(Before("chef")') + Cardinality(After("waiter")'))
    <3> DEFINE E == tokens["empty"].value
               F == tokens["full"].value
               BW == Cardinality(Before("waiter"))
               BC == Cardinality(Before("chef"))
               AW == Cardinality(After("waiter"))
               AC == Cardinality(After("chef"))
    <3>1. /\ BW \in Nat /\ BC \in Nat /\ AW \in Nat /\ AC \in Nat
          /\ \A j, h : h \notin Before(j) =>
               Cardinality(Before(j) \cup {h}) = Cardinality(Before(j)) + 1
          /\ \A j : p \in After(j) => Cardinality(After(j) \ {p}) = Cardinality(After(j)) - 1
      BY BusyCount DEF Before, After
    <3>2. E \in Nat /\ F \in Nat /\ TRAYS_QTY \in Nat
      BY <1>4, RestaurantAssumption DEF Fair, Tokens
    <3>3. plates = E + (BW + AC) /\ TRAYS_QTY - plates = F + (BC + AW)
      BY <2>1 DEF Serving
    <3>4. CASE job[p] = "chef"
      <4>0. t = "empty"
        BY <3>4, JobTokens
      <4>1. /\ tokens'["full"].value = F
            /\ Cardinality(After("chef")') = AC - 1 /\ Cardinality(After("waiter")') = AW
        BY <4>0, <3>1, <3>4, <1>5, <2>9 DEF Tokens
      <4>2. /\ Cardinality(Before("chef")') = BC
            /\ \/ tokens'["empty"].value = E + 1 /\ Cardinality(Before("waiter")') = BW
               \/ tokens'["empty"].value = E /\ Cardinality(Before("waiter")') = BW + 1
        <5>1. CASE tokens'[t].value = s.value + 1 /\ \A j : Before(j)' = Before(j)
          BY <5>1, <4>0
        <5>2. ASSUME tokens'[t].value = s.value, NEW h \in Worker,
                     job[h] \in Job, Takes[job[h]] = t,
                     \A j : /\ j # job[h] => Before(j)' = Before(j)
                            /\ j = job[h] => h \notin Before(j)
                                             /\ Before(j)' = Before(j) \cup {h}
              PROVE  /\ tokens'["empty"].value = E
                     /\ Cardinality(Before("waiter")') = BW + 1
                     /\ Cardinality(Before("chef")') = BC
          <6>1. job[h] = "waiter"
            BY <5>2, <4>0, JobTokens DEF Job
          <6> QED BY <5>2, <6>1, <4>0, <3>1
        <5> QED BY <5>1, <5>2, <2>10
      <4> HIDE DEF E, F, BW, BC, AW, AC
      <4> QED BY <3>1, <3>2, <3>3, <4>1, <4>2
    <3>5. CASE job[p] = "waiter"
      <4>0. t = "full"
        BY <3>5, JobTokens
      <4>1. /\ tokens'["empty"].value = E
            /\ Cardinality(After("waiter")') = AW - 1 /\ Cardinality(After("chef")') = AC
        BY <4>0, <3>1, <3>5, <1>5, <2>9 DEF Tokens
      <4>2. /\ Cardinality(Before("waiter")') = BW
            /\ \/ tokens'["full"].value = F + 1 /\ Cardinality(Before("chef")') = BC
               \/ tokens'["full"].value = F /\ Cardinality(Before("chef")') = BC + 1
        <5>1. CASE tokens'[t].value = s.value + 1 /\ \A j : Before(j)' = Before(j)
          BY <5>1, <4>0
        <5>2. ASSUME tokens'[t].value = s.value, NEW h \in Worker,
                     job[h] \in Job, Takes[job[h]] = t,
                     \A j : /\ j # job[h] => Before(j)' = Before(j)
                            /\ j = job[h] => h \notin Before(j)
                                             /\ Before(j)' = Before(j) \cup {h}
              PROVE  /\ tokens'["full"].value = F
                     /\ Cardinality(Before("chef")') = BC + 1
                     /\ Cardinality(Before("waiter")') = BW
          <6>1. job[h] = "chef"
            BY <5>2, <4>0, JobTokens DEF Job
          <6> QED BY <5>2, <6>1, <4>0, <3>1
        <5> QED BY <5>1, <5>2, <2>10
      <4> HIDE DEF E, F, BW, BC, AW, AC
      <4> QED BY <3>1, <3>2, <3>3, <4>1, <4>2
    <3> QED BY <3>4, <3>5, <1>2 DEF Job
  <2> QED
    BY <2>1, <2>4, <2>11, <1>1, <1>7, <1>9, WorkerMoves DEF Serving
<1> QED BY <1>1, <1>7, <1>8, <1>9, WorkerMoves DEF Peace

\* The boss hears of nothing while it carries out the last order.
LEMMA PressPeace ==
  ASSUME Peace, NEW c \in {"call", "quit"}, NEW j \in Job, Press(c, j)
  PROVE  Peace'
<1>1. /\ at[Boss] = "keys" /\ order' = [do |-> c, job |-> j]
      /\ at' = [at EXCEPT ![Boss] = "orders"]
      /\ UNCHANGED <<plates, tokens, staff, toDie, job, victim>>
      /\ c = "call" => Cardinality(Hired) < MaxStaff
      /\ at = [q \in {Boss} \cup Worker |-> at[q]] /\ Boss \notin Worker
  BY DEF Press, Ready, Goes, Peace, Kitchens, Boss, Worker
<1>2. /\ order.do # "quit" /\ Serving /\ Kitchens
  BY <1>1 DEF Peace, Orders
<1>3. /\ at'[Boss] = "orders" /\ \A q \in Worker : at'[q] = at[q]
      /\ at' = [q \in {Boss} \cup Worker |-> at'[q]]
  BY <1>1
<1>4. Kitchens'
  BY <1>1, <1>2, <1>3 DEF Kitchens
<1>5. Orders' /\ Staffed'
  BY <1>1, <1>3 DEF Peace, Orders, Staffed
<1>6. Killings'
  <2>1. All' = All /\ All \in Seq(Worker)
    <3>1. staff["chef"] \in Seq(Worker) /\ staff["waiter"] \in Seq(Worker)
      BY DEF Peace, Staffed, Job
    <3> QED BY <3>1, <1>1 DEF All
  <2>2. \A k \in DOMAIN All : ~ (k <= 0)
    BY <2>1
  <2> QED BY <2>1, <2>2, <1>1, <1>2, <1>3 DEF Killings, Serving
<1>7. ASSUME order'.do # "quit" PROVE Serving'
  <2>1. c = "call"
    BY <1>7, <1>1
  <2>2. PICK h \in 0 .. MaxStaff : Hired = 1 .. h
    BY <1>2 DEF Serving
  <2>3. h < MaxStaff
    <3>1. Cardinality(1 .. h) = h
      BY FS_Interval, <2>2, RestaurantAssumption
    <3> QED BY <3>1, <2>1, <2>2, <1>1
  <2>4. Hired' = 1 .. h
    BY <1>3, <2>2 DEF Hired
  <2>5. \A k, places : Busy(k, places)' = Busy(k, places)
    BY <1>1, <1>3 DEF Busy
  <2>6. \A k : Before(k)' = Before(k) /\ After(k)' = After(k)
    BY <2>5 DEF Before, After
  <2> QED BY <1>1, <1>2, <1>3, <2>3, <2>4, <2>6 DEF Serving
<1> QED BY <1>4, <1>5, <1>6, <1>7 DEF Peace

\* Somebody new goes to the door of the kitchen, and into the array.
LEMMA CallPeace ==
  ASSUME Peace, Call
  PROVE  Peace'
<1>1. /\ at[Boss] = "orders" /\ order.do = "call" /\ order.job \in Job
      /\ UNCHANGED <<plates, tokens, toDie, victim, order>>
      /\ Serving /\ Kitchens
      /\ at = [q \in {Boss} \cup Worker |-> at[q]] /\ Boss \notin Worker
  BY DEF Call, Ordered, Ready, Peace, Orders, Boss, Worker, Kitchens
<1>2. PICK h \in 0 .. MaxStaff : Hired = 1 .. h /\ h < MaxStaff
  BY <1>1 DEF Serving
<1>3. Cardinality(Hired) = h
  BY FS_Interval, <1>2, RestaurantAssumption
<1>4. CASE at' = [at EXCEPT ![Boss] = "keys"] /\ UNCHANGED <<staff, job>>
  <2>1. /\ at'[Boss] = "keys" /\ \A q \in Worker : at'[q] = at[q]
        /\ at' = [q \in {Boss} \cup Worker |-> at'[q]]
    BY <1>1, <1>4
  <2>2. Kitchens' /\ Orders' /\ Staffed'
    <3>1. Kitchens'
      BY <1>1, <1>4, <2>1 DEF Kitchens
    <3>2. Orders'
      BY <1>1, <2>1 DEF Orders
    <3>3. Staffed'
      BY <1>4, <2>1 DEF Staffed, Peace
    <3> QED BY <3>1, <3>2, <3>3
  <2>3. All' = All /\ All \in Seq(Worker)
    <3>1. staff["chef"] \in Seq(Worker) /\ staff["waiter"] \in Seq(Worker)
      BY DEF Peace, Staffed, Job
    <3> QED BY <3>1, <1>4 DEF All
  <2>4. Killings'
    <3>1. \A k \in DOMAIN All : ~ (k <= 0)
      BY <2>3
    <3> QED BY <2>3, <3>1, <1>1, <2>1 DEF Killings, Serving
  <2>5. \A k, places : Busy(k, places)' = Busy(k, places)
    BY <1>1, <1>4, <2>1 DEF Busy
  <2>6. \A k : Before(k)' = Before(k) /\ After(k)' = After(k)
    BY <2>5 DEF Before, After
  <2>7. Hired' = Hired
    BY <2>1 DEF Hired
  <2>8. Serving'
    BY <1>1, <1>2, <1>4, <2>1, <2>6, <2>7 DEF Serving
  <2> QED BY <2>2, <2>4, <2>8 DEF Peace
<1>5. CASE /\ at' = [at EXCEPT ![h + 1] = "wait", ![Boss] = "keys"]
           /\ job' = [job EXCEPT ![h + 1] = order.job]
           /\ staff' = [staff EXCEPT ![order.job] = Append(@, h + 1)]
  <2> DEFINE new == h + 1
  <2>1. new \in Worker /\ new # Boss /\ at[new] = "unborn"
        /\ \A q \in Worker : at[q] = "unborn" <=> q \notin 1 .. h
    <3>1. new \in Worker /\ new \notin 1 .. h /\ new # Boss
      BY <1>2, RestaurantAssumption DEF Worker, Boss
    <3> QED BY <3>1, <1>2 DEF Hired
  <2> HIDE DEF new
  <2>2. /\ at' = [at EXCEPT ![new] = "wait", ![Boss] = "keys"]
        /\ job' = [job EXCEPT ![new] = order.job]
        /\ staff' = [staff EXCEPT ![order.job] = Append(@, new)]
    BY <1>5 DEF new
  <2>3. /\ at'[Boss] = "keys" /\ at'[new] = "wait"
        /\ \A q \in Worker : q # new => at'[q] = at[q]
        /\ at' = [q \in {Boss} \cup Worker |-> at'[q]]
    BY <1>1, <2>1, <2>2
  <2>4. /\ job' \in [Worker -> Job \cup {"none"}] /\ job'[new] = order.job
        /\ \A q \in Worker : q # new => job'[q] = job[q]
    BY <1>1, <2>1, <2>2 DEF Kitchens
  <2>5. Kitchens'
    BY <1>1, <2>1, <2>3, <2>4 DEF Kitchens
  <2>6. /\ staff \in [Job -> Seq(Worker)] /\ staff' \in [Job -> Seq(Worker)]
        /\ staff'[order.job] = Append(staff[order.job], new)
        /\ \A j \in Job : j # order.job => staff'[j] = staff[j]
    <3>1. staff \in [Job -> Seq(Worker)]
      BY DEF Peace, Staffed
    <3>2. Append(staff[order.job], new) \in Seq(Worker)
      BY <3>1, <1>1, <2>1
    <3> QED BY <3>1, <3>2, <1>1, <2>2
  <2>7. ASSUME NEW q \in Worker, at'[q] \notin {"unborn", "dead"}
        PROVE  /\ job'[q] \in Job
               /\ \E k \in DOMAIN staff'[job'[q]] : staff'[job'[q]][k] = q
    <3>1. CASE q = new
      <4>1. /\ Len(staff[order.job]) + 1 \in DOMAIN Append(staff[order.job], new)
            /\ Append(staff[order.job], new)[Len(staff[order.job]) + 1] = new
        BY <2>1, <2>6, <1>1
      <4> QED BY <3>1, <4>1, <2>4, <2>6, <1>1
    <3>2. CASE q # new
      <4>1. PICK k \in DOMAIN staff[job[q]] : job[q] \in Job /\ staff[job[q]][k] = q
        BY <3>2, <2>3, <2>7 DEF Peace, Staffed
      <4>2. k \in DOMAIN staff'[job[q]] /\ staff'[job[q]][k] = q
        <5>1. CASE job[q] = order.job
          <6>1. staff[order.job] \in Seq(Worker)
            BY <2>6, <1>1
          <6> QED BY <5>1, <6>1, <4>1, <2>6, <2>1
        <5>2. CASE job[q] # order.job
          BY <5>2, <4>1, <2>6
        <5> QED BY <5>1, <5>2
      <4> QED BY <3>2, <4>1, <4>2, <2>4
    <3> QED BY <3>1, <3>2
  <2>8. Staffed' /\ Orders'
    BY <2>6, <2>7, <2>3, <1>1 DEF Staffed, Orders
  <2>9. Killings'
    <3>1. All' \in Seq(Worker)
      <4>1. staff'["chef"] \in Seq(Worker) /\ staff'["waiter"] \in Seq(Worker)
        BY <2>6 DEF Job
      <4> QED BY <4>1 DEF All
    <3>2. victim'[Boss] = 0
      BY <1>1 DEF Serving
    <3> QED BY <3>1, <3>2, <2>3 DEF Killings
  <2>10. Hired' = 1 .. h + 1
    <3>1. \A q \in Worker : at'[q] # "unborn" <=> q \in 1 .. h \/ q = new
      BY <2>1, <2>3
    <3>2. 1 .. h + 1 \subseteq Worker
      BY <1>2, RestaurantAssumption DEF Worker
    <3>3. \A q \in Worker : q \in 1 .. h \/ q = new <=> q \in 1 .. h + 1
      BY <1>2, RestaurantAssumption DEF Worker, new
    <3> QED BY <3>1, <3>2, <3>3 DEF Hired
  <2>11. \A k : Before(k)' = Before(k) /\ After(k)' = After(k)
    <3>1. \A k, places : Busy(k, places)' =
            {q \in Worker : job'[q] = k /\ at'[q] \in places
                              /\ \A u \in DOMAIN tokens : ~ Stands(q, tokens[u])}
      BY <1>1 DEF Busy
    <3>2. \A k, places : Busy(k, places) =
            {q \in Worker : job[q] = k /\ at[q] \in places
                              /\ \A u \in DOMAIN tokens : ~ Stands(q, tokens[u])}
      BY DEF Busy
    <3>3. \A q \in Worker : \A k :
            /\ job'[q] = k /\ at'[q] \in {"lock", "inside"} <=> job[q] = k /\ at[q] \in {"lock", "inside"}
            /\ job'[q] = k /\ at'[q] \in {"give"} <=> job[q] = k /\ at[q] \in {"give"}
      BY <2>1, <2>3, <2>4
    <3> QED BY <3>1, <3>2, <3>3 DEF Before, After
  <2>12. \A q \in Worker, t \in Tokens :
           Stands(q, tokens'[t]) => at'[q] = "lock" /\ Takes[job'[q]] = t
    BY <1>1, <2>1, <2>3, <2>4 DEF Serving
  <2>13. Serving'
    <3>1. h + 1 \in 0 .. MaxStaff
      BY <1>2, RestaurantAssumption
    <3> QED BY <1>1, <2>1, <2>3, <2>10, <2>11, <2>12, <3>1 DEF Serving
  <2> QED BY <2>5, <2>8, <2>9, <2>13 DEF Peace
<1> QED BY <1>3, <1>4, <1>5 DEF Call, Goes

\* One process of the arrays after the other is killed; then the program is
\* at its end.
LEMMA TerminatePeace ==
  ASSUME Peace, Terminate
  PROVE  Peace'
<1>1. /\ at[Boss] = "orders" /\ order.do = "quit"
      /\ UNCHANGED <<plates, tokens, staff, toDie, job, order>>
      /\ at = [q \in {Boss} \cup Worker |-> at[q]] /\ Boss \notin Worker
      /\ Kitchens /\ Orders /\ Staffed /\ Killings
  BY DEF Terminate, Ordered, Ready, Peace, Boss, Worker, Kitchens
<1>2. All' = All /\ All \in Seq(Worker)
  <2>1. staff["chef"] \in Seq(Worker) /\ staff["waiter"] \in Seq(Worker)
    BY <1>1 DEF Staffed, Job
  <2> QED BY <2>1, <1>1 DEF All
<1>3. victim[Boss] \in Nat /\ victim = [q \in {Boss} \cup Worker |-> victim[q]]
  BY <1>1 DEF Kitchens
<1>4. CASE /\ victim[Boss] < Len(All)
           /\ Kill(All[victim[Boss] + 1], Boss, "orders")
           /\ victim' = [victim EXCEPT ![Boss] = @ + 1]
  <2> DEFINE v == All[victim[Boss] + 1]
  <2>1. v \in Worker
    BY <1>2, <1>3, <1>4
  <2>2. at' = [[at EXCEPT ![Boss] = "orders"] EXCEPT ![v] = "dead"]
    BY <1>4 DEF Kill
  <2>3. /\ at'[v] = "dead" /\ at'[Boss] = "orders"
        /\ \A q \in Worker : q # v => at'[q] = at[q]
        /\ at' = [q \in {Boss} \cup Worker |-> at'[q]]
    <3> HIDE DEF v
    <3> QED BY <1>1, <2>1, <2>2
  <2>4. victim'[Boss] = victim[Boss] + 1 /\ victim' = [q \in {Boss} \cup Worker |-> victim'[q]]
    BY <1>3, <1>4
  <2>5. Kitchens'
    <3> HIDE DEF v
    <3> QED BY <1>1, <1>3, <2>1, <2>3, <2>4 DEF Kitchens
  <2>6. Orders' /\ Staffed'
    <3> HIDE DEF v
    <3>1. Orders'
      BY <1>1, <2>3 DEF Orders
    <3>2. Staffed'
      BY <1>1, <2>1, <2>3 DEF Staffed
    <3> QED BY <3>1, <3>2
  <2>7. Killings'
    <3> SUFFICES ASSUME NEW k \in DOMAIN All, k <= victim[Boss] + 1
                 PROVE  at'[All[k]] = "dead"
      BY <1>2, <2>3, <2>4 DEF Killings
    <3>1. All[k] \in Worker /\ k \in Nat
      BY <1>2
    <3>2. CASE k <= victim[Boss]
      <4>1. at[All[k]] = "dead"
        BY <3>2, <1>1 DEF Killings
      <4> HIDE DEF v
      <4> QED BY <4>1, <3>1, <2>3
    <3>3. CASE k = victim[Boss] + 1
      BY <3>3, <2>3
    <3> QED BY <3>1, <3>2, <3>3, <1>3
  <2> QED BY <1>1, <2>5, <2>6, <2>7 DEF Peace
<1>5. CASE ~ (victim[Boss] < Len(All)) /\ Goes(Boss, "ended") /\ UNCHANGED victim
  <2>1. /\ at'[Boss] = "ended" /\ \A q \in Worker : at'[q] = at[q]
        /\ at' = [q \in {Boss} \cup Worker |-> at'[q]]
    BY <1>1, <1>5 DEF Goes
  <2>2. Kitchens'
    BY <1>1, <1>5, <2>1 DEF Kitchens
  <2>3. Orders' /\ Staffed'
    BY <1>1, <2>1 DEF Orders, Staffed
  <2>4. Killings'
    <3>1. \A k \in DOMAIN All : All[k] \in Worker
      BY <1>2
    <3>2. victim[Boss] >= Len(All)
      BY <1>2, <1>3, <1>5
    <3> QED BY <1>1, <1>2, <1>5, <2>1, <3>1, <3>2 DEF Killings
  <2> QED BY <1>1, <2>2, <2>3, <2>4 DEF Peace
<1> QED BY <1>4, <1>5 DEF Terminate, All

-----------------------------------------------------------------------------

\* The invariant holds when prodcons_restaurant begins,
LEMMA RestaurantStarts == RestaurantInit => RestaurantInv
<1> SUFFICES ASSUME RestaurantInit PROVE RestaurantInv
  OBVIOUS
<1>1. /\ at[Boss] = "keys" /\ \A q \in Worker : at[q] = "unborn"
      /\ at = [q \in {Boss} \cup Worker |-> at[q]]
      /\ victim = [q \in {Boss} \cup Worker |-> victim[q]] /\ victim[Boss] = 0
      /\ job \in [Worker -> Job \cup {"none"}]
      /\ staff = [j \in Job |-> <<>>]
      /\ order.do = "none" /\ dismissals = 0 /\ plates = 0
  BY DEF RestaurantInit, Boss, Worker
<1>2. /\ tokens = [t \in Tokens |-> tokens[t]]
      /\ tokens["full"] = [value |-> TRAYS_QTY, line |-> <<>>]
      /\ tokens["empty"] = [value |-> 0, line |-> <<>>]
  BY DEF RestaurantInit, Tokens, WithTokens
<1>3. \A t \in Tokens : Fair(tokens[t], Worker) /\ \A q : ~ Stands(q, tokens[t])
  <2>1. \A t \in Tokens : tokens[t].line = <<>> /\ tokens[t].value \in Nat
                          /\ tokens[t] = [value |-> tokens[t].value, line |-> tokens[t].line]
    BY <1>2, RestaurantAssumption DEF Tokens
  <2>2. NobodyTwice(<<>>) /\ <<>> \in Seq(Worker)
    BY DEF NobodyTwice
  <2>3. \A t \in Tokens : Fair(tokens[t], Worker)
    BY <2>1, <2>2 DEF Fair
  <2>4. ASSUME NEW t \in Tokens, NEW q PROVE ~ Stands(q, tokens[t])
    <3> DEFINE x == tokens[t]
    <3>1. x.line = <<>>
      BY <2>1
    <3> HIDE DEF x
    <3>2. ~ Stands(q, x)
      BY <3>1 DEF Stands
    <3> QED BY <3>2 DEF x
  <2> QED BY <2>3, <2>4
<1>4. Kitchens
  BY <1>1, <1>2, <1>3 DEF Kitchens, RestaurantInit
<1>5. Orders /\ Staffed
  BY <1>1 DEF Orders, Staffed
<1>6. All = <<>>
  BY <1>1 DEF All, Job
<1>7. Killings
  BY <1>1, <1>6 DEF Killings
<1>8. Serving
  <2>1. Hired = {}
    BY <1>1 DEF Hired
  <2>2. 1 .. 0 = {} /\ 0 \in 0 .. MaxStaff
    BY RestaurantAssumption
  <2>3. \A j, places : "unborn" \notin places => Busy(j, places) = {}
    BY <1>1 DEF Busy
  <2>4. \A j : Before(j) = {} /\ After(j) = {}
    BY <2>3 DEF Before, After
  <2>5. /\ plates = tokens["empty"].value
                     + (Cardinality(Before("waiter")) + Cardinality(After("chef")))
        /\ TRAYS_QTY - plates = tokens["full"].value
                     + (Cardinality(Before("chef")) + Cardinality(After("waiter")))
    <3>1. tokens["full"].value = TRAYS_QTY /\ tokens["empty"].value = 0
      BY <1>2
    <3>2. \A j : Cardinality(Before(j)) = 0 /\ Cardinality(After(j)) = 0
      BY <2>4, FS_EmptySet
    <3> QED BY <1>1, <3>1, <3>2, RestaurantAssumption
  <2>6. \E h \in 0 .. MaxStaff : Hired = 1 .. h
    BY <2>1, <2>2
  <2> QED BY <1>1, <1>3, <2>5, <2>6 DEF Serving
<1> QED BY <1>1, <1>4, <1>5, <1>7, <1>8 DEF RestaurantInv, Peace

\* is kept by every step,
LEMMA RestaurantStep ==
  ASSUME RestaurantInv, RestaurantNext
  PROVE  RestaurantInv'
<1>1. /\ dismissals' \in Nat /\ (dismissals' = 0 => dismissals = 0)
      /\ dismissals \in Nat
  <2>1. dismissals \in Nat
    BY DEF RestaurantInv
  <2>2. dismissals' = dismissals \/ dismissals' = dismissals + 1
    <3>1. CASE \E j \in Job : Press("call", j) \/ Press("dismiss", j)
      BY <3>1 DEF Press
    <3>2. CASE Press("quit", "chef")
      BY <3>2 DEF Press
    <3>3. CASE Obeys
      BY <3>3 DEF Obeys, Call, Rest, Terminate
    <3>4. ASSUME NEW p \in Worker, Works(p) PROVE dismissals' = dismissals
      BY <3>4 DEF Works, TakeToken, EnterKitchen, SeeToDismissal, ChooseVictim, Suicide,
         Plate, GiveToken, LeaveKitchen
    <3> QED BY <3>1, <3>2, <3>3, <3>4 DEF RestaurantNext
  <2> QED BY <2>1, <2>2
<1> SUFFICES ASSUME dismissals' = 0, Peace PROVE Peace'
  BY <1>1 DEF RestaurantInv
<1>2. CASE \E j \in Job : Press("call", j) \/ Press("dismiss", j)
  <2>1. \A j \in Job : ~ Press("dismiss", j)
    BY <1>1 DEF Press
  <2> QED BY <1>2, <2>1, PressPeace
<1>3. CASE Press("quit", "chef")
  BY <1>3, PressPeace DEF Job
<1>4. CASE Obeys
  <2>1. ~ Rest
    BY DEF Rest, Ordered, Ready, Peace, Orders
  <2> QED BY <1>4, <2>1, CallPeace, TerminatePeace DEF Obeys
<1>5. ASSUME NEW p \in Worker, Works(p) PROVE Peace'
  <2>1. at[p] \notin {"choose", "kill", "plate"}
    BY DEF Peace, Kitchens
  <2>2. ~ ChooseVictim(p) /\ ~ Suicide(p)
    BY <2>1 DEF ChooseVictim, Suicide, Ready
  <2>3. ~ SeeToDismissal(p)
    <3>1. SeeToDismissal(p) => at[p] = "inside" /\ toDie[job[p]] > 0
      BY DEF SeeToDismissal, Ready
    <3>2. at[p] = "inside" => toDie[job[p]] = 0
      BY DEF Peace, Kitchens, Staffed
    <3> QED BY <3>1, <3>2
  <2> QED BY <1>5, <2>2, <2>3, TakeTokenPeace, DoorPeace, PlatePeace, GiveTokenPeace DEF Works
<1> QED BY <1>2, <1>3, <1>4, <1>5 DEF RestaurantNext

\* and while the other program runs.
LEMMA RestaurantRests ==
  ASSUME RestaurantInv, UNCHANGED rvars
  PROVE  RestaurantInv'
<1>1. UNCHANGED <<plates, tokens, mutexA, staff, toDie, at, job, victim, order, dismissals>>
  BY DEF rvars
<1>2. /\ \A j, places : Busy(j, places)' = Busy(j, places)
      /\ Hired' = Hired /\ All' = All
  BY <1>1 DEF Busy, Hired, All
<1>3. \A j : Before(j)' = Before(j) /\ After(j)' = After(j)
  BY <1>2 DEF Before, After
<1>4. Kitchens => Kitchens'
  BY <1>1 DEF Kitchens
<1>5. (Orders => Orders') /\ (Staffed => Staffed')
  BY <1>1 DEF Orders, Staffed
<1>6. Killings => Killings'
  BY <1>1, <1>2 DEF Killings
<1>7. Serving => Serving'
  BY <1>1, <1>2, <1>3 DEF Serving
<1> QED BY <1>1, <1>4, <1>5, <1>6, <1>7 DEF RestaurantInv, Peace

\* Every tray is with a token or with a process, every plate on one.
LEMMA AllAccounted == RestaurantInv => TraysAccounted
<1> SUFFICES ASSUME RestaurantInv, NobodyDismissed PROVE
      /\ plates \in 0 .. TRAYS_QTY
      /\ plates = tokens.empty.value
           + Cardinality(Busy("waiter", {"lock", "inside"})) + Cardinality(Busy("chef", {"give"}))
      /\ TRAYS_QTY - plates = tokens.full.value
           + Cardinality(Busy("chef", {"lock", "inside"})) + Cardinality(Busy("waiter", {"give"}))
  BY DEF TraysAccounted
<1> DEFINE E == tokens["empty"].value
           F == tokens["full"].value
           BW == Cardinality(Busy("waiter", {"lock", "inside"}))
           BC == Cardinality(Busy("chef", {"lock", "inside"}))
           AW == Cardinality(Busy("waiter", {"give"}))
           AC == Cardinality(Busy("chef", {"give"}))
<1>1. Serving /\ Kitchens
  BY DEF NobodyDismissed, RestaurantInv, Peace
<1>2. BW \in Nat /\ BC \in Nat /\ AW \in Nat /\ AC \in Nat
  BY BusyCount
<1>3. E \in Nat /\ F \in Nat /\ TRAYS_QTY \in Nat /\ plates \in Int
  BY <1>1, RestaurantAssumption DEF Fair, Tokens, Kitchens
<1>4. plates = E + (BW + AC) /\ TRAYS_QTY - plates = F + (BC + AW)
  BY <1>1 DEF Serving, Before, After
<1>5. tokens.empty.value = E /\ tokens.full.value = F
  OBVIOUS
<1>6. plates \in 0 .. TRAYS_QTY /\ plates = E + BW + AC /\ TRAYS_QTY - plates = F + BC + AW
  <2> HIDE DEF E, F, BW, BC, AW, AC
  <2> QED BY <1>2, <1>3, <1>4
<1> QED BY <1>5, <1>6

\* A program that has ended has finished all of its processes.
LEMMA NobodyStays == RestaurantInv => NobodyLeftBehind
<1> SUFFICES ASSUME RestaurantInv, at[Boss] = "ended", dismissals = 0, NEW p \in Worker,
                    at[p] \notin {"unborn", "dead"}
             PROVE  FALSE
  BY DEF NobodyLeftBehind
<1>1. Kitchens /\ Staffed /\ Killings
  BY DEF RestaurantInv, Peace
<1>2. PICK k \in DOMAIN staff[job[p]] : job[p] \in Job /\ staff[job[p]][k] = p
  BY <1>1 DEF Staffed
<1>3. staff["chef"] \in Seq(Worker) /\ staff["waiter"] \in Seq(Worker)
  BY <1>1 DEF Staffed, Job
<1>4. \E m \in DOMAIN All : All[m] = p
  <2> DEFINE c == staff["chef"]  w == staff["waiter"]
  <2>0. c \in Seq(Worker) /\ w \in Seq(Worker) /\ All = c \o w
    BY <1>3 DEF All
  <2>1. CASE job[p] = "chef"
    <3>1. k \in DOMAIN c /\ c[k] = p
      BY <2>1, <1>2
    <3> HIDE DEF c, w
    <3>2. k \in DOMAIN (c \o w) /\ (c \o w)[k] = p
      BY <2>0, <3>1
    <3> QED BY <2>0, <3>2
  <2>2. CASE job[p] = "waiter"
    <3>1. k \in DOMAIN w /\ w[k] = p
      BY <2>2, <1>2
    <3> HIDE DEF c, w
    <3>2. Len(c) + k \in DOMAIN (c \o w) /\ (c \o w)[Len(c) + k] = p
      BY <2>0, <3>1
    <3> QED BY <2>0, <3>2
  <2> QED BY <2>1, <2>2, <1>2 DEF Job
<1>5. PICK m \in DOMAIN All : All[m] = p
  BY <1>4
<1>6. m <= victim[Boss]
  <2>1. All \in Seq(Worker)
    BY <1>3 DEF All
  <2> QED BY <2>1, <1>1, <1>5 DEF Killings, Kitchens
<1> QED BY <1>1, <1>5, <1>6 DEF Killings

\* Every tray and every plate is accounted for.
THEOREM TraysAccountedHolds == Spec => []TraysAccounted
<1>1. Init => RestaurantInv
  BY RestaurantStarts DEF Init
<1>2. RestaurantInv /\ [Next]_vars => RestaurantInv'
  <2> SUFFICES ASSUME RestaurantInv, [Next]_vars PROVE RestaurantInv'
    OBVIOUS
  <2>1. RestaurantNext \/ UNCHANGED rvars
    BY DEF Next, vars
  <2> QED BY <2>1, RestaurantStep, RestaurantRests
<1>3. RestaurantInv => TraysAccounted
  BY AllAccounted
<1> QED BY <1>1, <1>2, <1>3, PTL DEF Spec

-----------------------------------------------------------------------------
(* The table: what holds of the array, the numbers and the chopsticks      *)
(* chosen, whoever has which mutex.                                        *)

GuestPlaces ==
  {"unborn", "born", "sit", "hungry", "choose", "removed", "chooseFreely",
   "first", "second", "eat", "finished", "putRight", "rise", "dead"}

HostPlaces ==
  {"keys", "hireFirst", "asleep", "correct", "hireSecond", "hire", "letGo",
   "quit", "ended", "dead"}

\* Where the two chopsticks have been chosen.
AtMeal == {"first", "second", "eat", "finished", "putRight", "rise"}

Alive(p) == place[p] \notin {"unborn", "dead"}
Seated(p) == place[p] \notin {"unborn", "born", "sit", "dead"}
Standing(p) == place[p] \in {"born", "sit"}

TableTypes ==
  /\ quantity \in 0 .. MAX_PHILOSOPHERS /\ assigned \in 0 .. MAX_PHILOSOPHERS
  /\ toRemove \in Nat /\ removals \in Nat /\ i \in Nat
  /\ philosophers \in [Chopstick -> Guest \cup {Host}]
  /\ flags \in 0 .. 2 /\ calm \in BOOLEAN
  /\ number \in [Guest -> Nat]
  /\ right \in [Guest -> Chopstick] /\ left \in [Guest -> Chopstick]
  /\ place = [p \in {Host} \cup Guest |-> place[p]]
  /\ \A p \in Guest : place[p] \in GuestPlaces
  /\ place[Host] \in HostPlaces

\* What the host is at tells how quantity and assigned compare, how many may
\* still be hired, and that nobody is removed before two are at the table.
Hiring ==
  /\ \E h \in 0 .. MaxHired :
       /\ Created = 1 .. h
       /\ place[Host] = "hireFirst" => h + 2 <= MaxHired
       /\ place[Host] \in {"asleep", "correct", "hireSecond", "hire"} => h + 1 <= MaxHired
  /\ removals = 0 => toRemove = 0
  /\ flags # 0 \/ place[Host] = "hireFirst" =>
       /\ Created = {} /\ quantity = 1 /\ assigned = 0 /\ removals = 0
       /\ \A c \in Chopstick : philosophers[c] = Host
  /\ flags # 0 => place[Host] \in {"keys", "letGo", "quit", "ended", "dead"}
  /\ place[Host] \in {"asleep", "correct"} => quantity = 2 /\ assigned = 1
  /\ place[Host] = "hireSecond" => quantity = 1 /\ assigned = 1
  /\ place[Host] \in {"asleep", "correct", "hireSecond"} => removals = 0 /\ flags = 0
  /\ flags = 0 /\ place[Host] \notin {"hireFirst", "asleep", "correct"} => quantity = assigned
  /\ place[Host] = "dead" => flags # 0

\* Everybody alive is in the array, once.
Seating ==
  /\ \A k \in Chopstick : k < assigned => philosophers[k] \in Created
  /\ \A k, l \in Chopstick :
       k < assigned /\ l < assigned /\ philosophers[k] = philosophers[l] => k = l
  /\ \A p \in Guest : Alive(p) => \E k \in Chopstick : k < assigned /\ philosophers[k] = p

\* The local of destroyAll counts the dead.
Ends ==
  /\ i > 0 => place[Host] \in {"quit", "ended", "dead"}
  /\ \A k \in Chopstick : k < i /\ k < assigned => place[philosophers[k]] = "dead"
  /\ place[Host] = "ended" => i >= quantity

\* The number of a philosopher is its place in the array, counted from 1, as
\* long as the last one hired had sat down before the next one was hired.
Numbers ==
  /\ \A p \in Guest : Seated(p) => number[p] > 0 /\ (removals = 0 => number[p] <= assigned)
  /\ calm => \A k \in Chopstick : k < assigned =>
       /\ Standing(philosophers[k]) => k = assigned - 1
       /\ Seated(philosophers[k]) => number[philosophers[k]] = k + 1

\* The chopsticks were chosen for some quantity, however old.
Chosen(p) ==
  \E q \in 1 .. MAX_PHILOSOPHERS :
    /\ right[p] = RightOf(number[p], q) /\ left[p] = LeftOf(number[p], q)
    /\ Orderly => number[p] <= q

Sticks == \A p \in Guest : place[p] \in AtMeal => Chosen(p)

TableInv == TableTypes /\ Hiring /\ Seating /\ Ends /\ Numbers /\ Sticks

-----------------------------------------------------------------------------

\* Process ids: the host is none of the philosophers, and none of them is NoPid.
LEMMA Seats ==
  /\ Host \notin Guest /\ Guest \subseteq Nat /\ Host \in Nat /\ NoPid \notin {Host} \cup Guest
  /\ 0 \in Chopstick /\ Chopstick \subseteq Nat
  /\ \A k \in Nat : k \in Chopstick <=> k < MAX_PHILOSOPHERS
BY PhilosophersAssumption, SyncAssumption DEF Guest, Host, Chopstick

\* A step of one philosopher, from one live place to another.
Dining(p, a, b) ==
  /\ p \in Guest /\ place[p] = a /\ place' = [place EXCEPT ![p] = b]
  /\ a \in GuestPlaces \ {"unborn", "dead"} /\ b \in GuestPlaces \ {"unborn", "dead"}
  /\ a \in {"born", "sit"} <=> b \in {"born", "sit"}
  /\ b \in AtMeal => a \in AtMeal
  /\ UNCHANGED <<table, locals, flags, i, history>>

\* What a step of a philosopher does to the places.
LEMMA GuestPlace ==
  ASSUME TableTypes, NEW p \in Guest, NEW b, place' = [place EXCEPT ![p] = b]
  PROVE  /\ place'[p] = b /\ place'[Host] = place[Host]
         /\ \A q \in {Host} \cup Guest : q # p => place'[q] = place[q]
         /\ place' = [q \in {Host} \cup Guest |-> place'[q]]
BY Seats DEF TableTypes

\* ... and one of the host.
LEMMA HostPlace ==
  ASSUME TableTypes, NEW b, place' = [place EXCEPT ![Host] = b]
  PROVE  /\ place'[Host] = b /\ \A q \in Guest : place'[q] = place[q]
         /\ place' = [q \in {Host} \cup Guest |-> place'[q]]
BY Seats DEF TableTypes

\* Such a step keeps the invariant of the table.
LEMMA GuestMoves ==
  ASSUME TableInv, NEW p, NEW a, NEW b, Dining(p, a, b)
  PROVE  TableInv'
<1>1. /\ TableTypes /\ Hiring /\ Seating /\ Ends /\ Numbers /\ Sticks
      /\ p \in Guest /\ place[p] = a /\ a \in GuestPlaces /\ b \in GuestPlaces
      /\ a \notin {"unborn", "dead"} /\ b \notin {"unborn", "dead"}
      /\ UNCHANGED <<quantity, assigned, toRemove, philosophers, number, right, left,
                     flags, i, calm, removals>>
  BY DEF TableInv, Dining, table, locals, history
<1>2. /\ place'[p] = b /\ place'[Host] = place[Host]
      /\ \A q \in {Host} \cup Guest : q # p => place'[q] = place[q]
      /\ place' = [q \in {Host} \cup Guest |-> place'[q]]
  BY <1>1, GuestPlace DEF Dining
<1>3. \A q \in Guest :
        /\ place'[q] = "unborn" <=> place[q] = "unborn"
        /\ place'[q] = "dead" <=> place[q] = "dead"
        /\ place'[q] \in {"born", "sit"} <=> place[q] \in {"born", "sit"}
        /\ place'[q] \in AtMeal => place[q] \in AtMeal
  BY <1>1, <1>2 DEF Dining
<1>4. TableTypes'
  BY <1>1, <1>2 DEF TableTypes
<1>5. Created' = Created
  BY <1>3 DEF Created
<1>6. Hiring'
  BY <1>1, <1>2, <1>5 DEF Hiring
<1>7. Seating'
  BY <1>1, <1>3, <1>5 DEF Seating, Alive
<1>8. \A k \in Chopstick : k < assigned => philosophers[k] \in Guest
  BY <1>1 DEF Seating, Created
<1>9. Ends'
  BY <1>1, <1>2, <1>3, <1>8 DEF Ends
<1>10. \A q \in Guest : (Seated(q)' <=> Seated(q)) /\ (Standing(q)' <=> Standing(q))
  BY <1>3 DEF Seated, Standing
<1>11. Numbers'
  BY <1>1, <1>8, <1>10 DEF Numbers
<1>12. Sticks'
  BY <1>1, <1>3 DEF Sticks, Chosen, Orderly
<1> QED BY <1>4, <1>6, <1>7, <1>9, <1>11, <1>12 DEF TableInv

\* A step of the host after which the array and the guests are as before.
LEMMA HostMoves ==
  ASSUME TableInv, NEW b \in HostPlaces, place' = [place EXCEPT ![Host] = b],
         UNCHANGED <<assigned, philosophers, number, right, left, calm>>,
         removals' = removals \/ removals' = removals + 1
  PROVE  /\ Seating' /\ Numbers' /\ Sticks' /\ Created' = Created
         /\ removals' \in Nat /\ (removals' = 0 => removals = 0)
         /\ place' = [q \in {Host} \cup Guest |-> place'[q]]
         /\ place'[Host] = b /\ \A p \in Guest : place'[p] = place[p]
         /\ \A k \in Chopstick : k < assigned => philosophers[k] \in Guest
<1>1. /\ TableTypes /\ Seating /\ Numbers /\ Sticks
      /\ UNCHANGED <<assigned, philosophers, number, right, left, calm>>
  BY DEF TableInv
<1>2. /\ place'[Host] = b /\ \A q \in Guest : place'[q] = place[q]
      /\ place' = [q \in {Host} \cup Guest |-> place'[q]]
  BY <1>1, HostPlace
<1>3. Created' = Created
  BY <1>2 DEF Created
<1>4. Seating'
  BY <1>1, <1>2, <1>3 DEF Seating, Alive
<1>5. \A k \in Chopstick : k < assigned => philosophers[k] \in Guest
  BY <1>1 DEF Seating, Created
<1>6. removals' \in Nat /\ (removals' = 0 => removals = 0) /\ (Orderly' => Orderly)
  BY <1>1 DEF TableTypes, Orderly
<1>7. Numbers'
  BY <1>1, <1>2, <1>5, <1>6 DEF Numbers, Seated, Standing
<1>8. Sticks'
  BY <1>1, <1>2, <1>6 DEF Sticks, Chosen
<1> QED BY <1>2, <1>3, <1>4, <1>5, <1>6, <1>7, <1>8

\* The host at its keys, and between the first two calls.
LEMMA FirstCallTable == ASSUME TableInv, FirstCall PROVE TableInv'
<1>1. /\ UNCHANGED <<quantity, assigned, toRemove, philosophers, place, number, right, left,
                     i, calm, removals>>
      /\ flags = 2 /\ flags' = 1
  BY DEF FirstCall, table, locals, history
<1>2. Created' = Created
  BY <1>1 DEF Created
<1>3. TableTypes'
  BY <1>1 DEF TableInv, TableTypes
<1>4. Hiring'
  BY <1>1, <1>2 DEF TableInv, Hiring
<1>5. Seating' /\ Ends'
  BY <1>1, <1>2 DEF TableInv, Seating, Alive, Ends
<1>6. Numbers' /\ Sticks'
  BY <1>1 DEF TableInv, Numbers, Seated, Standing, Sticks, Chosen, Orderly
<1> QED BY <1>3, <1>4, <1>5, <1>6 DEF TableInv

\* INC_PHILO, DEC_PHILO and QUIT, up to the lock.
LEMMA KeysTable == ASSUME TableInv, Keys PROVE TableInv'
<1>0. TableTypes /\ Hiring /\ Ends
  BY DEF TableInv
<1>1. PICK b \in {"hireFirst", "hire", "letGo", "quit"} :
        /\ place[Host] = "keys" /\ place' = [place EXCEPT ![Host] = b]
        /\ UNCHANGED <<table, locals, i, history>>
        /\ b = "hireFirst" => flags = 1 /\ Cardinality(Created) < MaxHired - 1 /\ flags' = 0
        /\ b # "hireFirst" => flags' = flags
        /\ b = "hire" => flags = 0 /\ Cardinality(Created) < MaxHired
  BY Zenon DEF Keys, LockMain, Moves, Awake
<1>2. /\ place' = [place EXCEPT ![Host] = b] /\ place[Host] = "keys" /\ b \in HostPlaces
      /\ UNCHANGED <<quantity, assigned, toRemove, philosophers, number, right, left,
                     i, calm, removals>>
  BY <1>1 DEF table, locals, history, HostPlaces
<1>3. /\ Seating' /\ Numbers' /\ Sticks' /\ Created' = Created
      /\ place' = [q \in {Host} \cup Guest |-> place'[q]]
      /\ place'[Host] = b /\ \A p \in Guest : place'[p] = place[p]
      /\ \A k \in Chopstick : k < assigned => philosophers[k] \in Guest
  BY <1>2, HostMoves DEF TableInv
<1>4. TableTypes'
  <2>1. flags' \in 0 .. 2
    BY <1>0, <1>1 DEF TableTypes
  <2> QED BY <1>0, <1>2, <1>3, <2>1 DEF TableTypes
<1>5. Hiring'
  <2>1. PICK h \in 0 .. MaxHired : Created = 1 .. h
    BY <1>0 DEF Hiring
  <2>2. Cardinality(Created) = h
    <3>1. Cardinality(1 .. h) = h
      BY <2>1, FS_Interval, PhilosophersAssumption
    <3> QED BY <2>1, <3>1
  <2>3. /\ b = "hireFirst" => h + 2 <= MaxHired
        /\ b = "hire" => h + 1 <= MaxHired
        /\ b \notin {"asleep", "correct", "hireSecond"}
    <3>1. MaxHired \in Nat /\ h \in Nat
      BY <2>1, PhilosophersAssumption
    <3> QED BY <1>1, <2>2, <3>1
  <2>4. \E g \in 0 .. MaxHired :
          /\ Created' = 1 .. g
          /\ place'[Host] = "hireFirst" => g + 2 <= MaxHired
          /\ place'[Host] \in {"asleep", "correct", "hireSecond", "hire"} => g + 1 <= MaxHired
    BY <1>3, <2>1, <2>3
  <2>5. CASE b = "hireFirst"
    <3>1. flags = 1 /\ flags' = 0 /\ place[Host] = "keys"
      BY <1>1, <1>2, <2>5
    <3>2. /\ Created' = {} /\ quantity' = 1 /\ assigned' = 0 /\ removals' = 0
          /\ \A c \in Chopstick : philosophers'[c] = Host
          /\ removals' = 0 => toRemove' = 0
      BY <1>0, <1>2, <1>3, <3>1 DEF Hiring
    <3> QED BY <1>3, <2>4, <2>5, <3>1, <3>2 DEF Hiring
  <2>6. CASE b # "hireFirst"
    BY <1>0, <1>1, <1>2, <1>3, <2>4, <2>6 DEF Hiring
  <2> QED BY <2>5, <2>6
<1>6. Ends'
  <2>1. i = 0
    BY <1>0, <1>2 DEF Ends, TableTypes
  <2>2. i' = 0 /\ place'[Host] # "ended" /\ \A k \in Chopstick : ~ (k < 0)
    BY <1>1, <1>2, <1>3, <2>1, Seats
  <2> QED BY <2>2 DEF Ends
<1> QED BY <1>3, <1>4, <1>5, <1>6 DEF TableInv

\* prepareTable locks main_mutex between the first two calls.
LEMMA StartsSecondTable == ASSUME TableInv, StartsSecond PROVE TableInv'
<1>0. TableTypes /\ Hiring /\ Ends
  BY DEF TableInv
<1>1. PICK b \in {"correct", "hire"} :
        /\ place[Host] = IF b = "correct" THEN "asleep" ELSE "hireSecond"
        /\ place' = [place EXCEPT ![Host] = b]
        /\ UNCHANGED <<table, locals, i, history, flags>>
  BY DEF StartsSecond, LockMain, Moves, Awake
<1>2. /\ place' = [place EXCEPT ![Host] = b] /\ b \in HostPlaces
      /\ place[Host] = IF b = "correct" THEN "asleep" ELSE "hireSecond"
      /\ UNCHANGED <<quantity, assigned, toRemove, philosophers, number, right, left,
                     i, calm, removals, flags>>
  BY <1>1 DEF table, locals, history, HostPlaces
<1>3. /\ Seating' /\ Numbers' /\ Sticks' /\ Created' = Created
      /\ place' = [q \in {Host} \cup Guest |-> place'[q]]
      /\ place'[Host] = b /\ \A p \in Guest : place'[p] = place[p]
      /\ \A k \in Chopstick : k < assigned => philosophers[k] \in Guest
  BY <1>2, HostMoves DEF TableInv
<1>4. TableTypes'
  BY <1>0, <1>1, <1>2, <1>3 DEF TableTypes
<1>5. Hiring'
  BY <1>0, <1>1, <1>2, <1>3 DEF Hiring
<1>6. Ends'
  <2>1. i = 0
    BY <1>0, <1>2 DEF Ends, TableTypes
  <2>2. i' = 0 /\ place'[Host] # "ended" /\ \A k \in Chopstick : ~ (k < 0)
    BY <1>1, <1>2, <1>3, <2>1, Seats
  <2> QED BY <2>2 DEF Ends
<1> QED BY <1>3, <1>4, <1>5, <1>6 DEF TableInv

\* prepareTable takes the quantity back to 1.
LEMMA CorrectTable == ASSUME TableInv, Correct PROVE TableInv'
<1>0. TableTypes /\ Hiring /\ Ends
  BY DEF TableInv
<1>1. /\ place' = [place EXCEPT ![Host] = "hireSecond"] /\ "hireSecond" \in HostPlaces
      /\ place[Host] = "correct" /\ quantity' = quantity - 1
      /\ UNCHANGED <<assigned, toRemove, philosophers, number, right, left,
                     i, calm, removals, flags>>
  BY DEF Correct, Awake, Moves, locals, history, HostPlaces
<1>2. quantity = 2 /\ assigned = 1 /\ quantity' = 1 /\ quantity' \in 0 .. MAX_PHILOSOPHERS
  <2>1. quantity = 2 /\ assigned = 1 /\ quantity' = 1
    BY <1>0, <1>1 DEF Hiring
  <2> QED BY <2>1, PhilosophersAssumption
<1>3. /\ Seating' /\ Numbers' /\ Sticks' /\ Created' = Created
      /\ place' = [q \in {Host} \cup Guest |-> place'[q]]
      /\ place'[Host] = "hireSecond" /\ \A p \in Guest : place'[p] = place[p]
      /\ \A k \in Chopstick : k < assigned => philosophers[k] \in Guest
  BY <1>1, HostMoves DEF TableInv
<1>4. TableTypes'
  BY <1>0, <1>1, <1>2, <1>3 DEF TableTypes
<1>5. Hiring'
  BY <1>0, <1>1, <1>2, <1>3 DEF Hiring
<1>6. Ends'
  BY <1>0, <1>1, <1>3 DEF Ends, TableTypes
<1> QED BY <1>3, <1>4, <1>5, <1>6 DEF TableInv

\* letGoPhilosopher asks for a removal when there are more than two.
LEMMA LetGoTable == ASSUME TableInv, letGoPhilosopher PROVE TableInv'
<1>0. TableTypes /\ Hiring /\ Ends
  BY DEF TableInv
<1>1. /\ place' = [place EXCEPT ![Host] = "keys"] /\ "keys" \in HostPlaces /\ place[Host] = "letGo"
      /\ \/ toRemove' = toRemove /\ removals' = removals
         \/ quantity > 2 /\ toRemove' = toRemove + 1 /\ removals' = removals + 1
      /\ UNCHANGED <<quantity, assigned, philosophers, number, right, left, i, calm, flags>>
  <2>1. quantity \in Int
    BY <1>0 DEF TableTypes
  <2>2. /\ toRemove' = IF quantity <= 2 THEN toRemove ELSE toRemove + 1
        /\ removals' = IF quantity <= 2 THEN removals ELSE removals + 1
    BY DEF letGoPhilosopher
  <2>3. \/ toRemove' = toRemove /\ removals' = removals
        \/ quantity > 2 /\ toRemove' = toRemove + 1 /\ removals' = removals + 1
    BY <2>1, <2>2
  <2> QED BY <2>3 DEF letGoPhilosopher, Awake, Moves, locals, HostPlaces
<1>3. /\ Seating' /\ Numbers' /\ Sticks' /\ Created' = Created
      /\ place' = [q \in {Host} \cup Guest |-> place'[q]]
      /\ place'[Host] = "keys" /\ \A p \in Guest : place'[p] = place[p]
      /\ \A k \in Chopstick : k < assigned => philosophers[k] \in Guest
      /\ removals' \in Nat /\ (removals' = 0 => removals = 0)
  BY <1>1, HostMoves DEF TableInv
<1>4. TableTypes'
  <2>1. toRemove' \in Nat
    BY <1>0, <1>1 DEF TableTypes
  <2> QED BY <1>0, <1>1, <1>3, <2>1 DEF TableTypes
<1>5. Hiring'
  <2>1. removals' = 0 => toRemove' = 0 /\ removals = 0
    BY <1>0, <1>1, <1>3 DEF Hiring, TableTypes
  <2>2. flags # 0 => removals' = 0
    BY <1>0, <1>1 DEF Hiring
  <2> QED BY <1>0, <1>1, <1>3, <2>1, <2>2 DEF Hiring
<1>6. Ends'
  BY <1>0, <1>1, <1>3 DEF Ends, TableTypes
<1> QED BY <1>3, <1>4, <1>5, <1>6 DEF TableInv

\* One more philosopher: the first process id not used yet goes to the end of
\* the array.
LEMMA HireTable == ASSUME TableInv, hirePhilosopher PROVE TableInv'
<1>0. TableTypes /\ Hiring /\ Seating /\ Ends /\ Numbers /\ Sticks
  BY DEF TableInv
<1> DEFINE next == IF place[Host] = "hire" THEN "keys" ELSE "asleep"
<1>1. /\ place[Host] \in {"hireFirst", "hire"}
      /\ UNCHANGED <<toRemove, number, right, left, flags, i, removals>>
  BY DEF hirePhilosopher, Awake, locals
<1>2. next \in HostPlaces /\ next \in {"keys", "asleep"}
  BY DEF HostPlaces
<1>3. PICK h \in 0 .. MaxHired :
        /\ Created = 1 .. h /\ h + 1 <= MaxHired
        /\ place[Host] = "hireFirst" => h + 2 <= MaxHired
  <2>1. PICK h \in 0 .. MaxHired :
          /\ Created = 1 .. h
          /\ place[Host] = "hireFirst" => h + 2 <= MaxHired
          /\ place[Host] \in {"asleep", "correct", "hireSecond", "hire"} => h + 1 <= MaxHired
    BY <1>0 DEF Hiring
  <2>2. MaxHired \in Nat /\ h \in Nat
    BY <2>1, PhilosophersAssumption
  <2>3. h + 1 <= MaxHired
    BY <1>1, <2>1, <2>2
  <2> QED BY <2>1, <2>3
<1>4. Cardinality(Created) = h /\ h \in Nat /\ MaxHired \in Nat
  <2>1. Cardinality(1 .. h) = h /\ h \in Nat /\ MaxHired \in Nat
    BY <1>3, FS_Interval, PhilosophersAssumption
  <2> QED BY <1>3, <2>1
<1>5. i = 0
  BY <1>0, <1>1 DEF Ends, TableTypes
<1>6. Ends'
  <2>1. place'[Host] = next
    <3>1. CASE quantity >= MAX_PHILOSOPHERS
      BY <3>1, <1>0, HostPlace DEF hirePhilosopher, Moves
    <3>2. CASE ~ (quantity >= MAX_PHILOSOPHERS)
      <4>1. place' = [place EXCEPT ![h + 1] = "born", ![Host] = next]
        BY <3>2, <1>4 DEF hirePhilosopher
      <4> HIDE DEF next
      <4> QED BY <4>1, <1>0 DEF TableTypes
    <3> QED BY <3>1, <3>2
  <2>2. i' = 0 /\ place'[Host] # "ended" /\ \A k \in Chopstick : ~ (k < 0)
    BY <1>1, <1>2, <1>5, <2>1, Seats
  <2> QED BY <2>2 DEF Ends
<1>7. CASE quantity >= MAX_PHILOSOPHERS
  <2>1. /\ place' = [place EXCEPT ![Host] = next]
        /\ UNCHANGED <<quantity, assigned, philosophers, calm>>
    BY <1>7 DEF hirePhilosopher, Moves
  <2>2. place[Host] = "hire" /\ next = "keys"
    <3>1. place[Host] # "hireFirst"
      <4>1. place[Host] = "hireFirst" => quantity = 1
        BY <1>0 DEF Hiring
      <4> QED BY <4>1, <1>7, PhilosophersAssumption
    <3> QED BY <3>1, <1>1
  <2>3. /\ Seating' /\ Numbers' /\ Sticks' /\ Created' = Created
        /\ place' = [q \in {Host} \cup Guest |-> place'[q]]
        /\ place'[Host] = "keys" /\ \A p \in Guest : place'[p] = place[p]
    BY <1>1, <1>2, <2>1, <2>2, HostMoves
  <2>4. TableTypes'
    BY <1>0, <1>1, <2>1, <2>3 DEF TableTypes, HostPlaces
  <2>5. Hiring'
    BY <1>0, <1>1, <2>1, <2>2, <2>3 DEF Hiring
  <2> QED BY <1>6, <2>3, <2>4, <2>5 DEF TableInv
<1>8. CASE ~ (quantity >= MAX_PHILOSOPHERS)
  <2> DEFINE new == h + 1
  <2>1. /\ place' = [place EXCEPT ![new] = "born", ![Host] = next]
        /\ quantity' = quantity + 1 /\ assigned' = assigned + 1
        /\ philosophers' = [philosophers EXCEPT ![assigned] = new]
        /\ calm' = (calm /\ \A p \in Created : place[p] \notin {"born", "sit"})
    BY <1>8, <1>4 DEF hirePhilosopher
  <2>2. new \in Guest /\ new # Host /\ new \notin Created
    BY <1>3, <1>4 DEF Guest, Host
  <2>3. \A p \in Guest : p \in Created <=> place[p] # "unborn"
    BY DEF Created
  <2>4. 1 .. h + 1 = Created \cup {new}
    BY <1>3, <1>4
  <2> HIDE DEF new, next
  <2>5. /\ place'[Host] = next /\ place'[new] = "born"
        /\ \A p \in Guest : p # new => place'[p] = place[p]
        /\ place' = [q \in {Host} \cup Guest |-> place'[q]]
    BY <1>0, <2>1, <2>2, Seats DEF TableTypes
  <2>6. Created' = 1 .. h + 1
    <3>1. \A p \in Guest : p \in Created' <=> p \in Created \/ p = new
      BY <2>2, <2>3, <2>5 DEF Created
    <3>2. Created \subseteq Guest /\ Created' \subseteq Guest
      BY DEF Created
    <3> QED BY <3>1, <3>2, <2>2, <2>4
  <2>7. assigned \in Chopstick /\ quantity \in Nat /\ assigned \in Nat
    <3>1. assigned <= quantity /\ quantity \in Nat /\ assigned \in Nat /\ quantity < MAX_PHILOSOPHERS
      BY <1>0, <1>1, <1>8, PhilosophersAssumption DEF Hiring, TableTypes
    <3> QED BY <3>1, PhilosophersAssumption DEF Chopstick
  <2>8. /\ philosophers' \in [Chopstick -> Guest \cup {Host}]
        /\ philosophers'[assigned] = new
        /\ \A k \in Chopstick : k # assigned => philosophers'[k] = philosophers[k]
    BY <1>0, <2>1, <2>2, <2>7 DEF TableTypes
  <2>9. TableTypes'
    <3>1. quantity' \in 0 .. MAX_PHILOSOPHERS /\ assigned' \in 0 .. MAX_PHILOSOPHERS
      BY <1>0, <1>8, <2>1, <2>7, PhilosophersAssumption DEF TableTypes, Chopstick
    <3>2. /\ \A p \in Guest : place'[p] \in GuestPlaces
          /\ place'[Host] \in HostPlaces
      BY <1>0, <1>2, <2>5 DEF TableTypes, GuestPlaces
    <3>3. calm' \in BOOLEAN
      BY <2>1
    <3> QED BY <1>0, <1>1, <2>5, <2>8, <3>1, <3>2, <3>3 DEF TableTypes
  <2>10. /\ \A k \in Chopstick : k < assigned => philosophers[k] \in Created
         /\ \A k \in Chopstick : k < assigned' => k < assigned \/ k = assigned
         /\ \A k \in Chopstick : k < assigned => k # assigned /\ k < assigned'
         /\ assigned < assigned'
    <3>1. \A k \in Chopstick : k \in Nat
      BY Seats
    <3> QED BY <1>0, <2>1, <2>7, <3>1 DEF Seating
  <2>11. Seating'
    <3>1. \A k \in Chopstick : k < assigned' => philosophers'[k] \in Created \cup {new}
      BY <2>8, <2>10
    <3>2. \A k, l \in Chopstick :
            k < assigned' /\ l < assigned' /\ philosophers'[k] = philosophers'[l] => k = l
      BY <1>0, <2>2, <2>8, <2>10 DEF Seating
    <3>3. ASSUME NEW p \in Guest, Alive(p)'
          PROVE  \E k \in Chopstick : k < assigned' /\ philosophers'[k] = p
      <4>1. CASE p = new
        BY <4>1, <2>7, <2>8, <2>10
      <4>2. CASE p # new
        <5>1. Alive(p)
          BY <3>3, <4>2, <2>5 DEF Alive
        <5>2. PICK k \in Chopstick : k < assigned /\ philosophers[k] = p
          BY <5>1, <1>0 DEF Seating
        <5> QED BY <5>2, <2>8, <2>10
      <4> QED BY <4>1, <4>2
    <3>4. Created' = Created \cup {new}
      BY <2>4, <2>6
    <3> QED BY <3>1, <3>2, <3>3, <3>4 DEF Seating
  <2>12. Numbers'
    <3>1. ASSUME NEW p \in Guest, Seated(p)'
          PROVE  number'[p] > 0 /\ (removals' = 0 => number'[p] <= assigned')
      <4>1. Seated(p)
        BY <3>1, <2>5 DEF Seated
      <4>2. number[p] > 0 /\ (removals = 0 => number[p] <= assigned) /\ number[p] \in Nat
        BY <4>1, <1>0 DEF Numbers, TableTypes
      <4> QED BY <4>2, <1>1, <2>1, <2>7
    <3>2. ASSUME calm', NEW k \in Chopstick, k < assigned'
          PROVE  /\ place'[philosophers'[k]] \in {"born", "sit"} => k = assigned' - 1
                 /\ place'[philosophers'[k]] \notin {"unborn", "born", "sit", "dead"}
                      => number'[philosophers'[k]] = k + 1
      <4>1. CASE k = assigned
        <5>1. philosophers'[k] = new /\ place'[new] = "born" /\ k = assigned' - 1
          BY <4>1, <2>1, <2>5, <2>7, <2>8
        <5> QED BY <5>1
      <4>2. CASE k < assigned
        <5>1. /\ philosophers'[k] = philosophers[k] /\ philosophers[k] \in Created
              /\ philosophers[k] # new /\ philosophers[k] \in Guest
          BY <4>2, <2>2, <2>8, <2>10 DEF Created
        <5>2. place'[philosophers[k]] = place[philosophers[k]] /\ calm
              /\ place[philosophers[k]] \notin {"born", "sit"}
          BY <5>1, <3>2, <2>1, <2>5
        <5>3. Seated(philosophers[k]) => number[philosophers[k]] = k + 1
          BY <4>2, <5>2, <1>0 DEF Numbers
        <5> QED BY <5>1, <5>2, <5>3, <1>1 DEF Seated
      <4> QED BY <3>2, <4>1, <4>2, <2>10
    <3> QED BY <3>1, <3>2 DEF Numbers, Seated, Standing
  <2>13. Sticks'
    <3>1. Orderly' => Orderly
      BY <1>1, <2>1 DEF Orderly
    <3>2. \A p \in Guest : place'[p] \in AtMeal => place[p] \in AtMeal
      BY <2>5 DEF AtMeal
    <3> QED BY <1>0, <1>1, <3>1, <3>2 DEF Sticks, Chosen
  <2>14. Hiring'
    <3>1. \E g \in 0 .. MaxHired :
            /\ Created' = 1 .. g
            /\ place'[Host] = "hireFirst" => g + 2 <= MaxHired
            /\ place'[Host] \in {"asleep", "correct", "hireSecond", "hire"} => g + 1 <= MaxHired
      <4>1. h + 1 \in 0 .. MaxHired
        BY <1>3, <1>4
      <4>2. /\ place'[Host] = "hireFirst" => (h + 1) + 2 <= MaxHired
            /\ place'[Host] \in {"asleep", "correct", "hireSecond", "hire"} => (h + 1) + 1 <= MaxHired
        <5>1. place'[Host] = "asleep" => place[Host] = "hireFirst"
          BY <1>1, <2>5 DEF next
        <5> QED BY <5>1, <1>2, <1>3, <1>4, <2>5
      <4> QED BY <4>1, <4>2, <2>6
    <3>2. flags = 0 /\ (place[Host] = "hireFirst" => quantity = 1 /\ assigned = 0 /\ removals = 0)
      BY <1>0, <1>1 DEF Hiring
    <3>3. \/ place[Host] = "hireFirst" /\ place'[Host] = "asleep"
          \/ place[Host] = "hire" /\ place'[Host] = "keys"
      BY <1>1, <2>5 DEF next
    <3>4. place[Host] = "hire" => quantity = assigned
      BY <1>0, <3>2 DEF Hiring
    <3>5. /\ place'[Host] = "asleep" => quantity' = 2 /\ assigned' = 1 /\ removals' = 0
          /\ place'[Host] = "keys" => quantity' = assigned'
          /\ place'[Host] \in {"asleep", "keys"} /\ flags' = 0
      BY <1>1, <2>1, <3>2, <3>3, <3>4
    <3>6. removals' = 0 => toRemove' = 0
      BY <1>0, <1>1 DEF Hiring
    <3> QED BY <3>1, <3>5, <3>6 DEF Hiring
  <2> QED BY <1>6, <2>9, <2>11, <2>12, <2>13, <2>14 DEF TableInv
<1> QED BY <1>7, <1>8

\* The end of the program: one of the array after the other is killed.
LEMMA DestroyTable == ASSUME TableInv, destroyAll PROVE TableInv'
<1>0. TableTypes /\ Hiring /\ Seating /\ Ends /\ Numbers /\ Sticks
  BY DEF TableInv
<1>1. /\ place[Host] = "quit"
      /\ UNCHANGED <<quantity, assigned, toRemove, philosophers, number, right, left, flags,
                     calm, removals>>
  BY DEF destroyAll, Awake, table, locals, history
<1>2. /\ i \in Nat /\ quantity \in Nat /\ (flags = 0 => quantity = assigned)
  BY <1>0, <1>1 DEF TableTypes, Hiring
<1>3. CASE i < quantity
  <2> DEFINE v == philosophers[i]
  <2>1. /\ place' = [[place EXCEPT ![Host] = "quit"] EXCEPT ![v] = "dead"] /\ i' = i + 1
    BY <1>3 DEF destroyAll, Killed
  <2>2. i \in Chopstick /\ v \in Guest \cup {Host}
    BY <1>0, <1>2, <1>3, PhilosophersAssumption DEF TableTypes, Chopstick
  <2>3. flags # 0 => v = Host /\ Created = {} /\ assigned = 0
    BY <1>0, <2>2 DEF Hiring
  <2>4. flags = 0 => v \in Created /\ v \in Guest /\ v # Host
    <3>1. flags = 0 => i < assigned
      BY <1>2, <1>3
    <3> QED BY <1>0, <2>2, <3>1, Seats DEF Seating, Created
  <2> HIDE DEF v
  <2>5. /\ place'[v] = "dead" /\ \A q \in {Host} \cup Guest : q # v => place'[q] = place[q]
        /\ place' = [q \in {Host} \cup Guest |-> place'[q]]
    BY <1>0, <1>1, <2>1, <2>2, Seats DEF TableTypes
  <2>6. \A q \in Guest : place'[q] = "unborn" <=> place[q] = "unborn"
    BY <2>3, <2>4, <2>5, Seats DEF Created
  <2>7. Created' = Created
    BY <2>6 DEF Created
  <2>8. /\ flags = 0 => place'[Host] = "quit"
        /\ flags # 0 => place'[Host] = "dead"
    BY <1>1, <2>3, <2>4, <2>5
  <2>9. TableTypes'
    <3>1. i' \in Nat
      BY <1>2, <2>1
    <3>2. place'[Host] \in HostPlaces /\ \A q \in Guest : place'[q] \in GuestPlaces
      BY <1>0, <2>5, <2>8 DEF TableTypes, HostPlaces, GuestPlaces
    <3> QED BY <1>0, <1>1, <2>5, <3>1, <3>2 DEF TableTypes
  <2>10. Hiring'
    BY <1>0, <1>1, <2>7, <2>8 DEF Hiring
  <2>11. Seating'
    <3>1. \A q \in Guest : Alive(q)' => Alive(q)
      BY <2>5 DEF Alive
    <3> QED BY <1>0, <1>1, <2>7, <3>1 DEF Seating
  <2>12. \A k \in Chopstick : k < assigned => philosophers[k] \in Guest
    BY <1>0 DEF Seating, Created
  <2>13. Ends'
    <3>1. ASSUME NEW k \in Chopstick, k < i + 1, k < assigned
          PROVE  place'[philosophers[k]] = "dead"
      <4>1. k \in Nat /\ philosophers[k] \in Guest
        BY <3>1, <2>12, Seats
      <4>2. CASE k = i
        BY <4>2, <2>5 DEF v
      <4>3. CASE k < i
        <5>1. place[philosophers[k]] = "dead"
          BY <4>3, <3>1, <1>0 DEF Ends
        <5> QED BY <5>1, <4>1, <2>5
      <4> QED BY <4>1, <4>2, <4>3, <3>1, <1>2
    <3>2. place'[Host] \in {"quit", "dead"}
      BY <1>0, <2>8 DEF TableTypes
    <3> QED BY <1>1, <2>1, <3>1, <3>2 DEF Ends
  <2>14. \A q \in Guest : (Seated(q)' => Seated(q)) /\ (Standing(q)' => Standing(q))
    BY <2>5 DEF Seated, Standing
  <2>15. Numbers'
    BY <1>0, <1>1, <2>12, <2>14 DEF Numbers
  <2>16. Sticks'
    <3>1. \A q \in Guest : place'[q] \in AtMeal => place[q] \in AtMeal
      BY <2>5 DEF AtMeal
    <3> QED BY <1>0, <1>1, <3>1 DEF Sticks, Chosen, Orderly
  <2> QED BY <2>9, <2>10, <2>11, <2>13, <2>15, <2>16 DEF TableInv
<1>4. CASE ~ (i < quantity)
  <2>1. /\ place' = [place EXCEPT ![Host] = "ended"] /\ i' = i /\ "ended" \in HostPlaces
    BY <1>4 DEF destroyAll, Moves, HostPlaces
  <2>2. /\ Seating' /\ Numbers' /\ Sticks' /\ Created' = Created
        /\ place' = [q \in {Host} \cup Guest |-> place'[q]]
        /\ place'[Host] = "ended" /\ \A p \in Guest : place'[p] = place[p]
        /\ \A k \in Chopstick : k < assigned => philosophers[k] \in Guest
    BY <1>1, <2>1, HostMoves
  <2>3. TableTypes'
    BY <1>0, <1>1, <2>1, <2>2 DEF TableTypes
  <2>4. Hiring'
    BY <1>0, <1>1, <2>2 DEF Hiring
  <2>5. Ends'
    <3>1. i >= quantity
      BY <1>2, <1>4
    <3> QED BY <1>0, <1>1, <2>1, <2>2, <3>1 DEF Ends
  <2> QED BY <2>2, <2>3, <2>4, <2>5 DEF TableInv
<1> QED BY <1>3, <1>4

\* The number is taken.
LEMMA SitTable == ASSUME TableInv, NEW p \in Guest, Sit(p) PROVE TableInv'
<1>0. TableTypes /\ Hiring /\ Seating /\ Ends /\ Numbers /\ Sticks
  BY DEF TableInv
<1>1. /\ place[p] = "sit" /\ place' = [place EXCEPT ![p] = "hungry"]
      /\ number' = [number EXCEPT ![p] = assigned]
      /\ UNCHANGED <<quantity, assigned, toRemove, philosophers, right, left, flags, i,
                     calm, removals>>
  BY DEF Sit, Awake, Moves, table, history
<1>2. /\ place'[p] = "hungry" /\ place'[Host] = place[Host]
      /\ \A q \in {Host} \cup Guest : q # p => place'[q] = place[q]
      /\ place' = [q \in {Host} \cup Guest |-> place'[q]]
  BY <1>0, <1>1, GuestPlace
<1>3. /\ number' \in [Guest -> Nat] /\ number'[p] = assigned
      /\ \A q \in Guest : q # p => number'[q] = number[q]
      /\ assigned \in Nat
  BY <1>0, <1>1, PhilosophersAssumption DEF TableTypes
<1>4. \A q \in Guest : /\ place'[q] = "unborn" <=> place[q] = "unborn"
                       /\ place'[q] = "dead" <=> place[q] = "dead"
                       /\ place'[q] \in AtMeal <=> place[q] \in AtMeal /\ q # p
  BY <1>1, <1>2 DEF AtMeal
<1>5. PICK m \in Chopstick : m < assigned /\ philosophers[m] = p
  BY <1>0, <1>1 DEF Seating, Alive
<1>6. assigned > 0
  BY <1>3, <1>5, Seats
<1>7. \A k \in Chopstick : k < assigned => philosophers[k] \in Guest
  BY <1>0 DEF Seating, Created
<1>8. Created' = Created
  BY <1>4 DEF Created
<1>9. TableTypes'
  BY <1>0, <1>1, <1>2, <1>3 DEF TableTypes, GuestPlaces
<1>10. Hiring'
  BY <1>0, <1>1, <1>2, <1>8 DEF Hiring
<1>11. Seating' /\ Ends'
  <2>1. Seating'
    BY <1>0, <1>1, <1>4, <1>8 DEF Seating, Alive
  <2>2. Ends'
    BY <1>0, <1>1, <1>2, <1>4, <1>7 DEF Ends
  <2> QED BY <2>1, <2>2
<1>12. Numbers'
  <2>1. ASSUME NEW q \in Guest, Seated(q)'
        PROVE  number'[q] > 0 /\ (removals' = 0 => number'[q] <= assigned')
    <3>1. CASE q = p
      BY <3>1, <1>1, <1>3, <1>6
    <3>2. CASE q # p
      <4>1. Seated(q)
        BY <2>1, <3>2, <1>2 DEF Seated
      <4> QED BY <4>1, <3>2, <1>0, <1>1, <1>3 DEF Numbers
    <3> QED BY <3>1, <3>2
  <2>2. ASSUME calm', NEW k \in Chopstick, k < assigned'
        PROVE  /\ place'[philosophers[k]] \in {"born", "sit"} => k = assigned' - 1
               /\ place'[philosophers[k]] \notin {"unborn", "born", "sit", "dead"}
                    => number'[philosophers[k]] = k + 1
    <3>1. calm /\ k < assigned /\ assigned' = assigned /\ k \in Nat
      BY <2>2, <1>1, Seats
    <3>2. CASE philosophers[k] = p
      <4>1. k = assigned - 1
        BY <3>1, <3>2, <1>0, <1>1 DEF Numbers, Standing
      <4> QED BY <3>1, <3>2, <4>1, <1>3
    <3>3. CASE philosophers[k] # p
      BY <3>1, <3>3, <1>0, <1>2, <1>3, <1>7 DEF Numbers, Standing, Seated
    <3> QED BY <3>2, <3>3
  <2> QED BY <2>1, <2>2, <1>1 DEF Numbers, Seated, Standing
<1>13. Sticks'
  BY <1>0, <1>1, <1>3, <1>4 DEF Sticks, Chosen, Orderly
<1> QED BY <1>9, <1>10, <1>11, <1>12, <1>13 DEF TableInv

\* A remainder is below what is divided by.
LEMMA Remainder ==
  ASSUME NEW n \in Nat, NEW q \in Nat, q > 0
  PROVE  n % q \in 0 .. q - 1
BY Z3

\* With somebody alive, the quantity covers all of the array.
LEMMA QuantityCovers ==
  ASSUME TableInv, NEW p \in Guest, Alive(p)
  PROVE  /\ flags = 0 /\ assigned > 0 /\ assigned <= quantity
         /\ assigned \in Nat /\ quantity \in 1 .. MAX_PHILOSOPHERS
         /\ removals > 0 => quantity = assigned
<1>0. TableTypes /\ Hiring /\ Seating
  BY DEF TableInv
<1>1. PICK m \in Chopstick : m < assigned /\ philosophers[m] = p
  BY <1>0 DEF Seating
<1>2. assigned > 0 /\ assigned \in Nat /\ quantity \in 0 .. MAX_PHILOSOPHERS /\ quantity \in Nat
  BY <1>0, <1>1, Seats, PhilosophersAssumption DEF TableTypes
<1>3. flags = 0 /\ place[Host] # "hireFirst"
  BY <1>0, <1>2 DEF Hiring
<1>4. \/ quantity = assigned
      \/ quantity = 2 /\ assigned = 1 /\ removals = 0
  BY <1>0, <1>3 DEF Hiring
<1> QED BY <1>2, <1>3, <1>4

\* The chopsticks are worked out for the quantity there is now.
LEMMA ChooseTable == ASSUME TableInv, NEW p \in Guest, Choose(p) PROVE TableInv'
<1>0. TableTypes /\ Hiring /\ Seating /\ Ends /\ Numbers /\ Sticks
  BY DEF TableInv
<1> DEFINE r == RightOf(number[p], quantity)  l == LeftOf(number[p], quantity)
<1>1. /\ place[p] \in {"choose", "chooseFreely"} /\ place' = [place EXCEPT ![p] = "first"]
      /\ right' = [right EXCEPT ![p] = r] /\ left' = [left EXCEPT ![p] = l]
      /\ UNCHANGED <<quantity, assigned, toRemove, philosophers, number, flags, i,
                     calm, removals>>
  BY DEF Choose, Awake, Moves, table, history
<1>2. /\ place'[p] = "first" /\ place'[Host] = place[Host]
      /\ \A q \in {Host} \cup Guest : q # p => place'[q] = place[q]
      /\ place' = [q \in {Host} \cup Guest |-> place'[q]]
  BY <1>0, <1>1, GuestPlace
<1>3. Seated(p) /\ Alive(p)
  BY <1>1 DEF Seated, Alive
<1>4. /\ assigned > 0 /\ assigned <= quantity /\ assigned \in Nat
      /\ quantity \in 1 .. MAX_PHILOSOPHERS /\ quantity \in Nat
  BY <1>3, QuantityCovers, PhilosophersAssumption
<1>5. r \in Chopstick /\ l \in Chopstick
  <2>1. number[p] \in Nat /\ quantity + number[p] - 1 \in Nat /\ quantity > 0
    BY <1>0, <1>4, PhilosophersAssumption DEF TableTypes
  <2>2. r \in 0 .. quantity - 1 /\ l \in 0 .. quantity - 1
    BY <2>1, <1>4, Remainder DEF RightOf, LeftOf
  <2> HIDE DEF r, l
  <2> QED BY <2>2, <1>4, PhilosophersAssumption DEF Chopstick
<1>6. Orderly => number[p] <= quantity
  <2>1. removals = 0 => number[p] <= assigned
    BY <1>0, <1>3 DEF Numbers
  <2>2. calm => number[p] <= assigned
    <3>1. PICK m \in Chopstick : m < assigned /\ philosophers[m] = p
      BY <1>0, <1>3 DEF Seating
    <3>2. calm => number[p] = m + 1
      BY <1>0, <1>3, <3>1 DEF Numbers
    <3> QED BY <3>1, <3>2, <1>4, Seats
  <2>3. number[p] \in Nat
    BY <1>0 DEF TableTypes
  <2> QED BY <2>1, <2>2, <2>3, <1>4 DEF Orderly
<1>7. /\ right' \in [Guest -> Chopstick] /\ left' \in [Guest -> Chopstick]
      /\ right'[p] = r /\ left'[p] = l
      /\ \A q \in Guest : q # p => right'[q] = right[q] /\ left'[q] = left[q]
  <2> HIDE DEF r, l
  <2> QED BY <1>0, <1>1, <1>5 DEF TableTypes
<1>8. Chosen(p)'
  <2>1. /\ right'[p] = RightOf(number'[p], quantity) /\ left'[p] = LeftOf(number'[p], quantity)
        /\ Orderly' => number'[p] <= quantity
    BY <1>1, <1>6, <1>7 DEF Orderly
  <2> QED BY <2>1, <1>4 DEF Chosen, RightOf, LeftOf
<1> HIDE DEF r, l
<1>9. \A q \in Guest : /\ place'[q] = "unborn" <=> place[q] = "unborn"
                       /\ place'[q] = "dead" <=> place[q] = "dead"
                       /\ place'[q] \in {"born", "sit"} <=> place[q] \in {"born", "sit"}
                       /\ q # p => place'[q] = place[q]
  BY <1>1, <1>2
<1>10. Created' = Created
  BY <1>9 DEF Created
<1>11. \A k \in Chopstick : k < assigned => philosophers[k] \in Guest
  BY <1>0 DEF Seating, Created
<1>12. TableTypes'
  BY <1>0, <1>1, <1>2, <1>7 DEF TableTypes, GuestPlaces
<1>13. Hiring'
  BY <1>0, <1>1, <1>2, <1>10 DEF Hiring
<1>14. Seating' /\ Ends'
  <2>1. Seating'
    BY <1>0, <1>1, <1>9, <1>10 DEF Seating, Alive
  <2>2. Ends'
    BY <1>0, <1>1, <1>2, <1>9, <1>11 DEF Ends
  <2> QED BY <2>1, <2>2
<1>15. Numbers'
  <2>1. \A q \in Guest : (Seated(q)' <=> Seated(q)) /\ (Standing(q)' <=> Standing(q))
    BY <1>9 DEF Seated, Standing
  <2> QED BY <1>0, <1>1, <1>11, <2>1 DEF Numbers
<1>16. Sticks'
  <2> SUFFICES ASSUME NEW q \in Guest, place'[q] \in AtMeal PROVE Chosen(q)'
    BY DEF Sticks
  <2>1. CASE q = p
    BY <2>1, <1>8
  <2>2. CASE q # p
    <3>1. Chosen(q)
      BY <2>2, <1>0, <1>9 DEF Sticks
    <3> QED BY <3>1, <2>2, <1>1, <1>7 DEF Chosen, Orderly
  <2> QED BY <2>1, <2>2
<1> QED BY <1>12, <1>13, <1>14, <1>15, <1>16 DEF TableInv

\* The last of the array is removed, which is killed.
LEMMA RemoveTable == ASSUME TableInv, NEW p \in Guest, removePhilosopher(p) PROVE TableInv'
<1>0. TableTypes /\ Hiring /\ Seating /\ Ends /\ Numbers /\ Sticks
  BY DEF TableInv
<1> DEFINE v == philosophers[quantity - 1]
<1>1. /\ place[p] = "choose" /\ toRemove > 0
      /\ quantity' = quantity - 1 /\ toRemove' = toRemove - 1 /\ assigned' = assigned - 1
      /\ place' = [[place EXCEPT ![p] = "removed"] EXCEPT ![v] = "dead"]
      /\ UNCHANGED <<philosophers, number, right, left, flags, i, calm, removals>>
  BY DEF removePhilosopher, Awake, Killed, locals, history
<1>2. Alive(p)
  BY <1>1 DEF Alive
<1>3. removals > 0 /\ removals \in Nat /\ toRemove \in Nat /\ toRemove' \in Nat
  BY <1>0, <1>1 DEF TableTypes, Hiring
<1>4. /\ flags = 0 /\ assigned > 0 /\ quantity = assigned /\ assigned \in Nat
      /\ assigned <= MAX_PHILOSOPHERS
  BY <1>2, <1>3, QuantityCovers, PhilosophersAssumption
<1>5. /\ assigned - 1 \in Chopstick /\ v \in Created /\ v \in Guest /\ v # Host
      /\ v = philosophers[assigned - 1]
  <2>1. assigned - 1 \in Chopstick /\ assigned - 1 < assigned
    BY <1>4, PhilosophersAssumption DEF Chopstick
  <2>2. v = philosophers[assigned - 1]
    BY <1>4
  <2>3. philosophers[assigned - 1] \in Created
    BY <1>0, <2>1 DEF Seating
  <2> HIDE DEF v
  <2> QED BY <2>1, <2>2, <2>3, Seats DEF Created
<1> HIDE DEF v
<1>6. /\ place'[v] = "dead" /\ (p # v => place'[p] = "removed")
      /\ \A q \in {Host} \cup Guest : q # v /\ q # p => place'[q] = place[q]
      /\ place' = [q \in {Host} \cup Guest |-> place'[q]]
      /\ place'[Host] = place[Host]
  BY <1>0, <1>1, <1>5, Seats DEF TableTypes
<1>7. \A q \in Guest : /\ place'[q] = "unborn" <=> place[q] = "unborn"
                       /\ place[q] = "dead" => place'[q] = "dead"
                       /\ place'[q] = "dead" => place[q] = "dead" \/ q = v
                       /\ place'[q] \in {"born", "sit"} => place[q] \in {"born", "sit"}
                       /\ place'[q] \in AtMeal => place[q] \in AtMeal
                       /\ Seated(q)' => Seated(q)
  BY <1>1, <1>5, <1>6 DEF AtMeal, Created, Seated
<1>8. Created' = Created
  BY <1>7 DEF Created
<1>9. \A k \in Chopstick : /\ k < assigned => philosophers[k] \in Guest
                           /\ k < assigned' <=> k < assigned /\ k # assigned - 1
  <2>1. \A k \in Chopstick : k < assigned' <=> k < assigned /\ k # assigned - 1
    BY <1>1, <1>4, Seats
  <2> QED BY <1>0, <2>1 DEF Seating, Created
<1>10. TableTypes'
  <2>1. quantity' \in 0 .. MAX_PHILOSOPHERS /\ assigned' \in 0 .. MAX_PHILOSOPHERS
    BY <1>1, <1>4, PhilosophersAssumption
  <2>2. \A q \in Guest : place'[q] \in GuestPlaces
    BY <1>0, <1>6 DEF TableTypes, GuestPlaces
  <2> QED BY <1>0, <1>1, <1>3, <1>6, <2>1, <2>2 DEF TableTypes
<1>11. Hiring'
  <2>1. place[Host] \notin {"hireFirst", "asleep", "correct", "hireSecond"}
    BY <1>0, <1>3, <1>4 DEF Hiring
  <2>2. quantity' = assigned'
    BY <1>1, <1>4
  <2> QED BY <1>0, <1>1, <1>3, <1>4, <1>6, <1>8, <2>1, <2>2 DEF Hiring
<1>12. Seating'
  <2>1. ASSUME NEW q \in Guest, Alive(q)'
        PROVE  \E k \in Chopstick : k < assigned' /\ philosophers[k] = q
    <3>1. Alive(q) /\ q # v
      BY <2>1, <1>6, <1>7 DEF Alive
    <3>2. PICK k \in Chopstick : k < assigned /\ philosophers[k] = q
      BY <3>1, <1>0 DEF Seating
    <3> QED BY <3>1, <3>2, <1>5, <1>9
  <2> QED BY <2>1, <1>0, <1>1, <1>8, <1>9 DEF Seating
<1>13. Ends'
  <2>1. place'[Host] = "ended" => i' >= quantity'
    BY <1>0, <1>1, <1>4, <1>6 DEF Ends, TableTypes
  <2> QED BY <1>0, <1>1, <1>6, <1>7, <1>9, <2>1 DEF Ends
<1>14. Numbers'
  <2>1. \A q \in Guest : Seated(q)' => number'[q] > 0
    BY <1>0, <1>1, <1>7 DEF Numbers
  <2>2. ASSUME calm', NEW k \in Chopstick, k < assigned'
        PROVE  /\ place'[philosophers[k]] \in {"born", "sit"} => k = assigned' - 1
               /\ Seated(philosophers[k])' => number[philosophers[k]] = k + 1
    <3>1. k < assigned /\ k # assigned - 1 /\ philosophers[k] \in Guest /\ calm
      BY <2>2, <1>1, <1>9
    <3>2. place[philosophers[k]] \notin {"born", "sit"}
      BY <3>1, <1>0 DEF Numbers, Standing
    <3>3. Seated(philosophers[k]) => number[philosophers[k]] = k + 1
      BY <3>1, <1>0 DEF Numbers
    <3>4. place'[philosophers[k]] \notin {"unborn", "born", "sit", "dead"}
            => Seated(philosophers[k])
      BY <3>1, <1>7 DEF Seated
    <3> QED BY <3>1, <3>2, <3>3, <3>4, <1>1, <1>7 DEF Seated
  <2>3. removals' # 0
    BY <1>1, <1>3
  <2> QED BY <2>1, <2>2, <2>3, <1>1 DEF Numbers, Standing, Seated
<1>15. Sticks'
  BY <1>0, <1>1, <1>7 DEF Sticks, Chosen, Orderly
<1> QED BY <1>10, <1>11, <1>12, <1>13, <1>14, <1>15 DEF TableInv

\* Everything else a philosopher does.
LEMMA DinesTable == ASSUME TableInv, NEW p \in Guest, Dines(p) PROVE TableInv'
<1>1. \/ Sit(p) \/ removePhilosopher(p) \/ Choose(p)
      \/ \E a, b : Dining(p, a, b)
  <2>1. CASE LockMain(p, "born", "sit") /\ UNCHANGED flags
    <3>1. Dining(p, "born", "sit")
      BY <2>1 DEF LockMain, Awake, Moves, Dining, GuestPlaces, AtMeal
    <3> QED BY <3>1
  <2>2. CASE LockMain(p, "hungry", "choose") /\ UNCHANGED flags
    <3>1. Dining(p, "hungry", "choose")
      BY <2>2 DEF LockMain, Awake, Moves, Dining, GuestPlaces, AtMeal
    <3> QED BY <3>1
  <2>3. CASE LockMain(p, "eat", "finished") /\ UNCHANGED flags
    <3>1. Dining(p, "eat", "finished")
      BY <2>3 DEF LockMain, Awake, Moves, Dining, GuestPlaces, AtMeal
    <3> QED BY <3>1
  <2>4. CASE Removed(p)
    <3>1. Dining(p, "removed", "chooseFreely")
      BY <2>4 DEF Removed, Awake, Moves, Dining, GuestPlaces, AtMeal
    <3> QED BY <3>1
  <2>5. CASE LockChop(p, First(p), "first", "second")
    <3>1. Dining(p, "first", "second")
      BY <2>5 DEF LockChop, Awake, Moves, Dining, GuestPlaces, AtMeal
    <3> QED BY <3>1
  <2>6. CASE LockChop(p, Second(p), "second", "eat")
    <3>1. Dining(p, "second", "eat")
      BY <2>6 DEF LockChop, Awake, Moves, Dining, GuestPlaces, AtMeal
    <3> QED BY <3>1
  <2>7. CASE UnlockChop(p, right[p], "finished", "putRight")
    <3>1. Dining(p, "finished", "putRight")
      BY <2>7 DEF UnlockChop, Awake, Moves, Dining, GuestPlaces, AtMeal
    <3> QED BY <3>1
  <2>8. CASE UnlockChop(p, left[p], "putRight", "rise")
    <3>1. Dining(p, "putRight", "rise")
      BY <2>8 DEF UnlockChop, Awake, Moves, Dining, GuestPlaces, AtMeal
    <3> QED BY <3>1
  <2>9. CASE Rise(p)
    <3>1. Dining(p, "rise", "hungry")
      BY <2>9 DEF Rise, Awake, Moves, Dining, GuestPlaces, AtMeal
    <3> QED BY <3>1
  <2> QED BY <2>1, <2>2, <2>3, <2>4, <2>5, <2>6, <2>7, <2>8, <2>9 DEF Dines
<1> QED BY <1>1, SitTable, RemoveTable, ChooseTable, GuestMoves

\* The invariant holds when prepareTable begins,
LEMMA TableStarts == TableInit => TableInv
<1> SUFFICES ASSUME TableInit PROVE TableInv
  OBVIOUS
<1>1. /\ place[Host] = "keys" /\ \A p \in Guest : place[p] = "unborn"
      /\ place = [p \in {Host} \cup Guest |-> place[p]]
      /\ quantity = 1 /\ assigned = 0 /\ toRemove = 0 /\ flags = 2 /\ i = 0
      /\ calm = TRUE /\ removals = 0
      /\ \A c \in Chopstick : philosophers[c] = Host
  BY Seats DEF TableInit, Host
<1>2. \A k \in Chopstick : ~ (k < 0)
  BY Seats
<1>3. Created = {}
  BY <1>1 DEF Created
<1>4. TableTypes
  <2>1. /\ philosophers \in [Chopstick -> Guest \cup {Host}]
        /\ number \in [Guest -> Nat] /\ right \in [Guest -> Chopstick]
        /\ left \in [Guest -> Chopstick]
    BY Seats DEF TableInit, Host
  <2>2. 1 \in 0 .. MAX_PHILOSOPHERS /\ 0 \in 0 .. MAX_PHILOSOPHERS
    BY PhilosophersAssumption
  <2> QED BY <1>1, <2>1, <2>2 DEF TableTypes, GuestPlaces, HostPlaces
<1>5. Hiring
  <2>1. 1 .. 0 = {} /\ 0 \in 0 .. MaxHired
    BY PhilosophersAssumption
  <2>2. \E h \in 0 .. MaxHired :
          /\ Created = 1 .. h
          /\ place[Host] = "hireFirst" => h + 2 <= MaxHired
          /\ place[Host] \in {"asleep", "correct", "hireSecond", "hire"} => h + 1 <= MaxHired
    BY <1>1, <1>3, <2>1
  <2> QED BY <1>1, <1>3, <2>2 DEF Hiring
<1>6. Seating /\ Ends /\ Numbers
  BY <1>1, <1>2 DEF Seating, Alive, Ends, Numbers, Seated
<1>7. Sticks
  BY <1>1 DEF Sticks, AtMeal
<1> QED BY <1>4, <1>5, <1>6, <1>7 DEF TableInv

\* is kept by every step,
LEMMA TableStep == ASSUME TableInv, TableNext PROVE TableInv'
BY FirstCallTable, KeysTable, HireTable, StartsSecondTable, CorrectTable, LetGoTable,
   DestroyTable, DinesTable DEF TableNext, Serves

\* and while the other program runs.
LEMMA TableRests == ASSUME TableInv, UNCHANGED pvars PROVE TableInv'
<1>1. UNCHANGED <<quantity, assigned, toRemove, philosophers, place, number, right, left,
                  flags, i, calm, removals>>
  BY DEF pvars
<1>2. Created' = Created
  BY <1>1 DEF Created
<1>3. TableTypes'
  BY <1>1 DEF TableInv, TableTypes
<1>4. Hiring'
  BY <1>1, <1>2 DEF TableInv, Hiring
<1>5. Seating' /\ Ends'
  BY <1>1, <1>2 DEF TableInv, Seating, Alive, Ends
<1>6. Numbers' /\ Sticks'
  BY <1>1 DEF TableInv, Numbers, Seated, Standing, Sticks, Chosen, Orderly
<1> QED BY <1>3, <1>4, <1>5, <1>6 DEF TableInv

\* The program kills its philosophers, all of them, and nobody else.
LEMMA OnlyItsOwn == TableInv => KillsItsOwn
<1> SUFFICES ASSUME TableInv PROVE KillsItsOwn
  OBVIOUS
<1>0. TableTypes /\ Hiring /\ Seating /\ Ends
  BY DEF TableInv
<1>1. Created # {} => place[Host] # "dead"
  BY <1>0 DEF Hiring
<1>2. ASSUME place[Host] = "ended", NEW p \in Guest, Alive(p) PROVE FALSE
  <2>1. PICK m \in Chopstick : m < assigned /\ philosophers[m] = p
    BY <1>0, <1>2 DEF Seating
  <2>2. i >= quantity /\ assigned <= quantity /\ quantity \in Int /\ assigned \in Int /\ i \in Nat
    BY <1>0, <1>2, QuantityCovers DEF TableTypes, Ends
  <2>3. m < i /\ place[p] # "dead"
    BY <1>2, <2>1, <2>2, Seats DEF Alive
  <2> QED BY <1>0, <2>1, <2>3 DEF Ends
<1> QED BY <1>1, <1>2 DEF KillsItsOwn, Alive

\* A program that has ended leaves nobody behind, and has killed nobody else.
THEOREM CleansUpHolds == Spec => []CleansUp
<1> DEFINE IInv == RestaurantInv /\ TableInv
<1>1. Init => IInv
  BY RestaurantStarts, TableStarts DEF Init
<1>2. IInv /\ [Next]_vars => IInv'
  <2> SUFFICES ASSUME IInv, [Next]_vars PROVE IInv'
    OBVIOUS
  <2>1. RestaurantNext \/ UNCHANGED rvars
    BY DEF Next, vars
  <2>2. TableNext \/ UNCHANGED pvars
    BY DEF Next, vars
  <2> QED BY <2>1, <2>2, RestaurantStep, RestaurantRests, TableStep, TableRests
<1>3. IInv => CleansUp
  BY NobodyStays, OnlyItsOwn DEF CleansUp
<1> QED BY <1>1, <1>2, <1>3, PTL DEF Spec

-----------------------------------------------------------------------------
(* The chopsticks: who has which, and who stands in line for which.        *)

\* Where a philosopher has a chopstick, or stands in line for one.
AtChops == {"second", "eat", "finished", "putRight"}

Held(p, c) ==
  \/ place[p] = "second" /\ c = First(p)
  \/ place[p] \in {"eat", "finished"} /\ c \in {First(p), Second(p)}
  \/ place[p] = "putRight" /\ c = left[p]

Awaited(p, c) ==
  \/ place[p] = "second" /\ c = First(p)
  \/ place[p] = "eat" /\ c = Second(p)

\* Whoever is alive has, and stands in line for, no chopstick but its own,
HasNoOther(p) ==
  place[p] # "dead" =>
    \A c \in Chopstick : /\ Stands(p, chop[c]) => Awaited(p, c)
                         /\ chop[c].owner = p => Held(p, c)

\* and those.
HasItsOwn(p) ==
  /\ place[p] = "second" => chop[First(p)].owner = p \/ Stands(p, chop[First(p)])
  /\ place[p] = "eat" => /\ chop[First(p)].owner = p
                         /\ chop[Second(p)].owner = p \/ Stands(p, chop[Second(p)])
  /\ place[p] = "finished" => chop[First(p)].owner = p /\ chop[Second(p)].owner = p

ChopsInv ==
  /\ chop = [c \in Chopstick |-> chop[c]]
  /\ \A c \in Chopstick : Sound(chop[c], Guest)
  /\ \A p \in Guest : HasNoOther(p) /\ HasItsOwn(p)

\* From m to n the claim of q is kept; it may have got what it waited for.
Keeps(q, m, n) ==
  /\ m.owner = q => n.owner = q
  /\ n.owner = q => m.owner = q \/ Stands(q, m)
  /\ Stands(q, n) => Stands(q, m)
  /\ Stands(q, m) => Stands(q, n) \/ n.owner = q

\* mutex_unlock, or a death: v has it no more, the others keep their claims.
LEMMA Given ==
  ASSUME NEW S, NoPid \notin S, NEW v \in S, NEW m, Sound(m, S)
  PROVE  /\ Sound(Unlock(m, v), S) /\ Unlock(m, v).owner # v
         /\ Stands(v, Unlock(m, v)) => Stands(v, m)
         /\ \A q \in S : q # v => Keeps(q, m, Unlock(m, v))
<1> DEFINE n == Unlock(m, v)
<1>2. /\ Sound(n, S)
      /\ m.owner # v => n = m
      /\ m.owner = v => /\ n.owner = NoPid \/ Stands(n.owner, m)
                        /\ n.owner # v
                        /\ \A q : Stands(q, n) <=> Stands(q, m) /\ q # n.owner
  BY UnlockSound
<1> HIDE DEF n
<1>3. n.owner # v /\ (Stands(v, n) => Stands(v, m))
  BY <1>2
<1>4. ASSUME NEW q \in S, q # v PROVE Keeps(q, m, n)
  <2>1. CASE m.owner # v
    BY <2>1, <1>2 DEF Keeps
  <2>2. CASE m.owner = v
    <3>1. m.owner # q
      BY <2>2, <1>4
    <3>3. n.owner = q => Stands(q, m)
      BY <1>2, <2>2
    <3> QED BY <3>1, <3>3, <1>2, <2>2 DEF Keeps
  <2> QED BY <2>1, <2>2
<1> QED BY <1>2, <1>3, <1>4 DEF n

\* mutex_lock: p has it or stands in line, the others keep their claims.
LEMMA Taken ==
  ASSUME NEW S, NoPid \notin S, NEW p \in S, NEW m, Sound(m, S), ~ Stands(p, m)
  PROVE  /\ Sound(Lock(m, p), S)
         /\ Lock(m, p).owner = p \/ Stands(p, Lock(m, p))
         /\ m.owner = p => Lock(m, p).owner = p
         /\ \A q \in S : q # p => Keeps(q, m, Lock(m, p))
<1> DEFINE n == Lock(m, p)
<1>2. /\ Sound(n, S)
      /\ n.owner = IF m.owner = NoPid THEN p ELSE m.owner
      /\ \A q : Stands(q, n) <=> Stands(q, m) \/ (q = p /\ m.owner # NoPid /\ m.owner # p)
  BY LockSound
<1> HIDE DEF n
<1>3. n.owner = p \/ Stands(p, n)
  BY <1>2
<1>4. \A q \in S : q # p => Keeps(q, m, n)
  BY <1>2 DEF Keeps
<1> QED BY <1>2, <1>3, <1>4 DEF n

\* A philosopher to whom nothing happens, but that it may get the chopstick
\* it stands in line for.
Undisturbed(q) ==
  /\ place'[q] = place[q] /\ number'[q] = number[q]
  /\ right'[q] = right[q] /\ left'[q] = left[q]

\* Its two chopsticks, and what it does with them, are as before.
LEMMA SameSticks ==
  ASSUME NEW q, Undisturbed(q)
  PROVE  /\ First(q)' = First(q) /\ Second(q)' = Second(q)
         /\ \A c : (Held(q, c)' <=> Held(q, c)) /\ (Awaited(q, c)' <=> Awaited(q, c))
<1>1. First(q)' = First(q)
  BY DEF Undisturbed, First
<1>2. Second(q)' = Second(q)
  BY <1>1 DEF Undisturbed, Second
<1> QED BY <1>1, <1>2 DEF Undisturbed, Held, Awaited

\* The first and the second chopstick are the right and the left one.
LEMMA SticksOfTwo ==
  ASSUME TableTypes, NEW q \in Guest
  PROVE  /\ First(q) \in Chopstick /\ Second(q) \in Chopstick
         /\ right[q] \in Chopstick /\ left[q] \in Chopstick
         /\ {First(q), Second(q)} = {right[q], left[q]}
BY DEF First, Second, TableTypes

\* Such a philosopher has what it should have, as before.
LEMMA OthersKeep ==
  ASSUME TableTypes, NEW q \in Guest, Undisturbed(q), HasNoOther(q), HasItsOwn(q),
         \A c \in Chopstick : Keeps(q, chop[c], chop'[c])
  PROVE  HasNoOther(q)' /\ HasItsOwn(q)'
<1>1. /\ First(q)' = First(q) /\ Second(q)' = Second(q) /\ place'[q] = place[q]
      /\ \A c : (Held(q, c)' <=> Held(q, c)) /\ (Awaited(q, c)' <=> Awaited(q, c))
  BY SameSticks DEF Undisturbed
<1>2. First(q) \in Chopstick /\ Second(q) \in Chopstick
  BY SticksOfTwo
<1>3. \A c \in Chopstick : Awaited(q, c) => Held(q, c)
  BY DEF Awaited, Held
<1>4. HasNoOther(q)'
  <2> SUFFICES ASSUME place[q] # "dead", NEW c \in Chopstick
               PROVE  /\ Stands(q, chop'[c]) => Awaited(q, c)
                      /\ chop'[c].owner = q => Held(q, c)
    BY <1>1 DEF HasNoOther
  <2>1. Keeps(q, chop[c], chop'[c])
    OBVIOUS
  <2>2. /\ Stands(q, chop[c]) => Awaited(q, c)
        /\ chop[c].owner = q => Held(q, c)
    BY DEF HasNoOther
  <2> QED BY <2>1, <2>2, <1>3 DEF Keeps
<1>5. \A c \in Chopstick :
        /\ chop[c].owner = q => chop'[c].owner = q
        /\ Stands(q, chop[c]) => chop'[c].owner = q \/ Stands(q, chop'[c])
  BY DEF Keeps
<1>6. HasItsOwn(q)'
  BY <1>1, <1>2, <1>5 DEF HasItsOwn
<1> QED BY <1>4, <1>6

\* Who has no chopstick gets none from nowhere.
LEMMA IdleKeep ==
  ASSUME NEW q \in Guest, HasNoOther(q), place[q] \notin AtChops, place'[q] \notin AtChops,
         place[q] = "dead" => place'[q] = "dead",
         \A c \in Chopstick : Keeps(q, chop[c], chop'[c])
  PROVE  HasNoOther(q)' /\ HasItsOwn(q)'
<1>1. HasItsOwn(q)'
  BY DEF HasItsOwn, AtChops
<1>2. ASSUME place'[q] # "dead", NEW c \in Chopstick
      PROVE  ~ Stands(q, chop'[c]) /\ chop'[c].owner # q
  <2>1. ~ Awaited(q, c) /\ ~ Held(q, c)
    BY DEF Awaited, Held, AtChops
  <2>2. ~ Stands(q, chop[c]) /\ chop[c].owner # q
    BY <1>2, <2>1 DEF HasNoOther
  <2> QED BY <2>2 DEF Keeps
<1> QED BY <1>1, <1>2 DEF HasNoOther

\* The chopsticks stay, and nobody comes or goes where they matter.
LEMMA ChopsStay ==
  ASSUME TableInv, ChopsInv, chop' = chop,
         \A q \in Guest : \/ Undisturbed(q)
                          \/ /\ place[q] \notin AtChops /\ place'[q] \notin AtChops
                             /\ place[q] = "dead" => place'[q] = "dead"
  PROVE  ChopsInv'
<1>1. \A q \in Guest, c \in Chopstick : Keeps(q, chop[c], chop'[c])
  BY DEF Keeps
<1>2. TableTypes
  BY DEF TableInv
<1>3. ASSUME NEW q \in Guest PROVE HasNoOther(q)' /\ HasItsOwn(q)'
  <2>1. HasNoOther(q) /\ HasItsOwn(q)
    BY DEF ChopsInv
  <2> QED BY <1>1, <1>2, <2>1, OthersKeep, IdleKeep
<1> QED BY <1>3 DEF ChopsInv

\* A kill: what the dead one had goes on.
LEMMA ChopsOfTheDead ==
  ASSUME TableInv, ChopsInv, NEW v \in Guest \cup {Host}, NEW p \in Guest \cup {Host}, NEW to,
         Killed(v, p, to), p \in Guest => place[p] \notin AtChops /\ place[p] # "dead",
         to \notin AtChops, UNCHANGED <<number, right, left>>
  PROVE  ChopsInv'
<1>0. TableTypes
  BY DEF TableInv
<1>1. /\ place' = [[place EXCEPT ![p] = to] EXCEPT ![v] = "dead"]
      /\ chop' = [c \in Chopstick |-> Unlock(chop[c], v)]
  BY DEF Killed
<1>2. /\ place'[v] = "dead" /\ (p # v => place'[p] = to)
      /\ \A q \in Guest : q # v /\ q # p => place'[q] = place[q]
  BY <1>0, <1>1 DEF TableTypes
<1>3. ASSUME NEW c \in Chopstick
      PROVE  Sound(chop'[c], Guest) /\ \A q \in Guest : q # v => Keeps(q, chop[c], chop'[c])
  <2>1. Sound(chop[c], Guest) /\ chop'[c] = Unlock(chop[c], v)
    BY <1>1 DEF ChopsInv
  <2>2. CASE v \in Guest
    BY <2>1, <2>2, Given, Seats
  <2>3. CASE v = Host
    <3>1. chop[c].owner # Host
      BY <2>1, Seats DEF Sound
    <3>2. chop'[c] = chop[c]
      BY <3>1, <2>1, <2>3 DEF Unlock
    <3> QED BY <2>1, <3>2 DEF Keeps
  <2> QED BY <2>2, <2>3
<1>4. ASSUME NEW q \in Guest PROVE HasNoOther(q)' /\ HasItsOwn(q)'
  <2>1. HasNoOther(q) /\ HasItsOwn(q)
    BY DEF ChopsInv
  <2>2. CASE q = v
    BY <2>2, <1>2 DEF HasNoOther, HasItsOwn
  <2>3. CASE q # v /\ q = p
    BY <2>1, <2>3, <1>2, <1>3, IdleKeep
  <2>4. CASE q # v /\ q # p
    <3>1. Undisturbed(q)
      BY <2>4, <1>2 DEF Undisturbed
    <3> QED BY <3>1, <2>1, <2>4, <1>0, <1>3, OthersKeep
  <2> QED BY <2>2, <2>3, <2>4
<1>5. chop' = [c \in Chopstick |-> chop'[c]]
  BY <1>1
<1> QED BY <1>3, <1>4, <1>5 DEF ChopsInv

\* One philosopher steps, and one chopstick with it.
LEMMA ChopsMove ==
  ASSUME TableInv, ChopsInv, NEW p \in Guest, NEW c \in Chopstick, NEW n, NEW to,
         Sound(n, Guest), chop' = [chop EXCEPT ![c] = n],
         \A q \in Guest : q # p => Keeps(q, chop[c], n),
         place' = [place EXCEPT ![p] = to], UNCHANGED <<number, right, left>>,
         HasNoOther(p)', HasItsOwn(p)'
  PROVE  ChopsInv'
<1>0. TableTypes
  BY DEF TableInv
<1>1. /\ chop'[c] = n /\ \A d \in Chopstick : d # c => chop'[d] = chop[d]
      /\ chop' = [d \in Chopstick |-> chop'[d]]
  BY DEF ChopsInv
<1>2. \A d \in Chopstick : Sound(chop'[d], Guest)
  BY <1>1 DEF ChopsInv
<1>3. \A q \in Guest, d \in Chopstick : q # p => Keeps(q, chop[d], chop'[d])
  BY <1>1 DEF Keeps
<1>4. \A q \in Guest : q # p => Undisturbed(q)
  BY <1>0, GuestPlace DEF Undisturbed
<1>5. \A q \in Guest : HasNoOther(q)' /\ HasItsOwn(q)'
  <2> SUFFICES ASSUME NEW q \in Guest, q # p PROVE HasNoOther(q)' /\ HasItsOwn(q)'
    OBVIOUS
  <2>1. HasNoOther(q) /\ HasItsOwn(q)
    BY DEF ChopsInv
  <2> QED BY <2>1, <1>0, <1>3, <1>4, OthersKeep
<1> QED BY <1>1, <1>2, <1>5 DEF ChopsInv

\* The chopsticks of one that steps stay which they are.
LEMMA OwnSticks ==
  ASSUME TableInv, ChopsInv, NEW p \in Guest, NEW to, place' = [place EXCEPT ![p] = to],
         UNCHANGED <<number, right, left>>
  PROVE  /\ First(p)' = First(p) /\ Second(p)' = Second(p) /\ place'[p] = to
         /\ First(p) \in Chopstick /\ Second(p) \in Chopstick
         /\ right[p] \in Chopstick /\ left[p] \in Chopstick
         /\ {First(p), Second(p)} = {right[p], left[p]}
         /\ right'[p] = right[p] /\ left'[p] = left[p]
         /\ HasNoOther(p) /\ HasItsOwn(p)
         /\ \A c \in Chopstick : Sound(chop[c], Guest)
<1>1. TableTypes
  BY DEF TableInv
<1>2. First(p)' = First(p)
  BY DEF First
<1>3. Second(p)' = Second(p)
  BY <1>2 DEF Second
<1>4. /\ First(p) \in Chopstick /\ Second(p) \in Chopstick
      /\ right[p] \in Chopstick /\ left[p] \in Chopstick
      /\ {First(p), Second(p)} = {right[p], left[p]}
  BY <1>1, SticksOfTwo
<1>5. place'[p] = to
  BY <1>1, GuestPlace
<1> QED BY <1>2, <1>3, <1>4, <1>5 DEF ChopsInv

\* The first chopstick is locked.
LEMMA ChopsFirst ==
  ASSUME TableInv, ChopsInv, NEW p \in Guest, LockChop(p, First(p), "first", "second")
  PROVE  ChopsInv'
<1> DEFINE c == First(p)  n == Lock(chop[c], p)
<1>1. /\ place[p] = "first" /\ ~ Stands(p, chop[c])
      /\ place' = [place EXCEPT ![p] = "second"] /\ chop' = [chop EXCEPT ![c] = n]
      /\ UNCHANGED <<number, right, left>> /\ c \in Chopstick
  <2>1. c \in Chopstick
    BY SticksOfTwo DEF TableInv
  <2> QED BY <2>1 DEF LockChop, Awake, Moves, locals
<1>2. /\ First(p)' = c /\ place'[p] = "second" /\ HasNoOther(p) /\ Sound(chop[c], Guest)
  BY <1>1, OwnSticks
<1>3. /\ Sound(n, Guest) /\ (n.owner = p \/ Stands(p, n))
      /\ \A q \in Guest : q # p => Keeps(q, chop[c], n)
  BY <1>1, <1>2, Taken, Seats
<1> HIDE DEF n, c
<1>4. /\ chop'[c] = n /\ \A d \in Chopstick : d # c => chop'[d] = chop[d]
  BY <1>1 DEF ChopsInv
<1>5. \A d \in Chopstick : ~ Stands(p, chop[d]) /\ chop[d].owner # p
  BY <1>1, <1>2 DEF HasNoOther, Held, Awaited
<1>6. HasNoOther(p)'
  <2>1. \A d \in Chopstick : d # c => ~ Stands(p, chop'[d]) /\ chop'[d].owner # p
    BY <1>4, <1>5
  <2>2. \A d \in Chopstick : (Stands(p, chop[d]) => Awaited(p, d))' /\ (chop[d].owner = p => Held(p, d))'
    BY <1>2, <2>1 DEF Held, Awaited
  <2> QED BY <2>2 DEF HasNoOther
<1>7. HasItsOwn(p)'
  BY <1>2, <1>3, <1>4, <1>1 DEF HasItsOwn
<1> QED BY <1>1, <1>3, <1>6, <1>7, ChopsMove

\* The second is.
LEMMA ChopsSecond ==
  ASSUME TableInv, ChopsInv, NEW p \in Guest, LockChop(p, Second(p), "second", "eat")
  PROVE  ChopsInv'
<1> DEFINE c == Second(p)  n == Lock(chop[c], p)
<1>1. /\ place[p] = "second" /\ \A d \in Chopstick : ~ Stands(p, chop[d])
      /\ place' = [place EXCEPT ![p] = "eat"] /\ chop' = [chop EXCEPT ![c] = n]
      /\ UNCHANGED <<number, right, left>>
  BY DEF LockChop, Awake, Moves, locals
<1>2. /\ First(p)' = First(p) /\ Second(p)' = c /\ place'[p] = "eat" /\ HasNoOther(p)
      /\ HasItsOwn(p) /\ Sound(chop[c], Guest) /\ c \in Chopstick /\ First(p) \in Chopstick
  BY <1>1, OwnSticks
<1>3. /\ Sound(n, Guest) /\ (n.owner = p \/ Stands(p, n)) /\ (chop[c].owner = p => n.owner = p)
      /\ \A q \in Guest : q # p => Keeps(q, chop[c], n)
  BY <1>1, <1>2, Taken, Seats
<1>4. c = First(p) => n = chop[c]
  <2>1. chop[First(p)].owner = p
    BY <1>1, <1>2 DEF HasItsOwn
  <2> QED BY <2>1 DEF Lock
<1> HIDE DEF n, c
<1>5. /\ chop'[c] = n /\ \A d \in Chopstick : d # c => chop'[d] = chop[d]
  BY <1>1, <1>2 DEF ChopsInv
<1>6. \A d \in Chopstick : ~ Stands(p, chop[d]) /\ (chop[d].owner = p => d = First(p))
  BY <1>1, <1>2 DEF HasNoOther, Held
<1>7. HasNoOther(p)'
  <2>1. \A d \in Chopstick : (Stands(p, chop'[d]) => d = c) /\ (chop'[d].owner = p => d \in {c, First(p)})
    BY <1>5, <1>6
  <2>2. \A d \in Chopstick : (Stands(p, chop[d]) => Awaited(p, d))' /\ (chop[d].owner = p => Held(p, d))'
    BY <1>2, <2>1 DEF Held, Awaited
  <2> QED BY <2>2 DEF HasNoOther
<1>8. HasItsOwn(p)'
  <2>1. chop[First(p)].owner = p
    BY <1>1, <1>2 DEF HasItsOwn
  <2>2. chop'[First(p)].owner = p
    BY <2>1, <1>2, <1>3, <1>5
  <2> QED BY <1>2, <1>3, <1>5, <2>2 DEF HasItsOwn
<1> QED BY <1>1, <1>2, <1>3, <1>7, <1>8, ChopsMove

\* Both are there when the meal is over.
LEMMA ChopsEaten ==
  ASSUME TableInv, ChopsInv, NEW p \in Guest, LockMain(p, "eat", "finished")
  PROVE  ChopsInv'
<1>1. /\ place[p] = "eat" /\ \A d \in Chopstick : ~ Stands(p, chop[d])
      /\ place' = [place EXCEPT ![p] = "finished"] /\ chop' = chop
      /\ UNCHANGED <<number, right, left>>
  BY DEF LockMain, Awake, Moves, locals
<1>2. /\ First(p)' = First(p) /\ Second(p)' = Second(p) /\ place'[p] = "finished"
      /\ HasNoOther(p) /\ HasItsOwn(p) /\ First(p) \in Chopstick /\ Second(p) \in Chopstick
      /\ Sound(chop[First(p)], Guest)
  BY <1>1, OwnSticks
<1>3. HasItsOwn(p)'
  BY <1>1, <1>2 DEF HasItsOwn
<1>4. HasNoOther(p)'
  <2>1. \A d \in Chopstick : (Stands(p, chop[d]) => Awaited(p, d))' /\ (chop[d].owner = p => Held(p, d))'
    BY <1>1, <1>2 DEF Held, Awaited, HasNoOther
  <2> QED BY <2>1 DEF HasNoOther
<1>5. chop' = [chop EXCEPT ![First(p)] = chop[First(p)]]
  BY <1>1 DEF ChopsInv
<1>6. \A q \in Guest : Keeps(q, chop[First(p)], chop[First(p)])
  BY DEF Keeps
<1> QED BY <1>1, <1>2, <1>3, <1>4, <1>5, <1>6, ChopsMove

\* The right one is given up, then the left one.
LEMMA ChopsRight ==
  ASSUME TableInv, ChopsInv, NEW p \in Guest, UnlockChop(p, right[p], "finished", "putRight")
  PROVE  ChopsInv'
<1> DEFINE c == right[p]  n == Unlock(chop[c], p)
<1>1. /\ place[p] = "finished" /\ \A d \in Chopstick : ~ Stands(p, chop[d])
      /\ place' = [place EXCEPT ![p] = "putRight"] /\ chop' = [chop EXCEPT ![c] = n]
      /\ UNCHANGED <<number, right, left>>
  BY DEF UnlockChop, Awake, Moves, locals
<1>2. /\ place'[p] = "putRight" /\ left'[p] = left[p] /\ HasNoOther(p)
      /\ {First(p), Second(p)} = {c, left[p]} /\ Sound(chop[c], Guest) /\ c \in Chopstick
  BY <1>1, OwnSticks
<1>3. /\ Sound(n, Guest) /\ n.owner # p /\ ~ Stands(p, n)
      /\ \A q \in Guest : q # p => Keeps(q, chop[c], n)
  BY <1>1, <1>2, Given, Seats
<1> HIDE DEF n, c
<1>4. /\ chop'[c] = n /\ \A d \in Chopstick : d # c => chop'[d] = chop[d]
  BY <1>1, <1>2 DEF ChopsInv
<1>5. \A d \in Chopstick : chop[d].owner = p => d \in {c, left[p]}
  BY <1>1, <1>2 DEF HasNoOther, Held
<1>6. HasNoOther(p)'
  <2>1. \A d \in Chopstick : ~ Stands(p, chop'[d]) /\ (chop'[d].owner = p => d = left[p])
    BY <1>1, <1>3, <1>4, <1>5
  <2>2. \A d \in Chopstick : (Stands(p, chop[d]) => Awaited(p, d))' /\ (chop[d].owner = p => Held(p, d))'
    BY <1>2, <2>1 DEF Held, Awaited
  <2> QED BY <2>2 DEF HasNoOther
<1>7. HasItsOwn(p)'
  BY <1>2 DEF HasItsOwn
<1> QED BY <1>1, <1>2, <1>3, <1>6, <1>7, ChopsMove

\* The left one, after the right one.
LEMMA ChopsLeft ==
  ASSUME TableInv, ChopsInv, NEW p \in Guest, UnlockChop(p, left[p], "putRight", "rise")
  PROVE  ChopsInv'
<1> DEFINE c == left[p]  n == Unlock(chop[c], p)
<1>1. /\ place[p] = "putRight" /\ \A d \in Chopstick : ~ Stands(p, chop[d])
      /\ place' = [place EXCEPT ![p] = "rise"] /\ chop' = [chop EXCEPT ![c] = n]
      /\ UNCHANGED <<number, right, left>>
  BY DEF UnlockChop, Awake, Moves, locals
<1>2. /\ place'[p] = "rise" /\ HasNoOther(p) /\ Sound(chop[c], Guest) /\ c \in Chopstick
  BY <1>1, OwnSticks
<1>3. /\ Sound(n, Guest) /\ n.owner # p /\ ~ Stands(p, n)
      /\ \A q \in Guest : q # p => Keeps(q, chop[c], n)
  BY <1>1, <1>2, Given, Seats
<1>4. \A d \in Chopstick : chop[d].owner = p => d = c
  BY <1>1, <1>2 DEF HasNoOther, Held
<1> HIDE DEF n, c
<1>5. /\ chop'[c] = n /\ \A d \in Chopstick : d # c => chop'[d] = chop[d]
  BY <1>1, <1>2 DEF ChopsInv
<1>6. HasNoOther(p)'
  <2>1. \A d \in Chopstick : ~ Stands(p, chop'[d]) /\ chop'[d].owner # p
    BY <1>1, <1>3, <1>4, <1>5
  <2> QED BY <2>1 DEF HasNoOther
<1>7. HasItsOwn(p)'
  BY <1>2 DEF HasItsOwn
<1> QED BY <1>1, <1>2, <1>3, <1>6, <1>7, ChopsMove

\* A philosopher that steps with no chopstick in hand.
LEMMA ChopsIdle ==
  ASSUME TableInv, ChopsInv, NEW p \in Guest, NEW to, place' = [place EXCEPT ![p] = to],
         place[p] \notin AtChops \cup {"dead"}, to \notin AtChops, chop' = chop,
         \A q \in Guest : q # p => /\ number'[q] = number[q]
                                   /\ right'[q] = right[q] /\ left'[q] = left[q]
  PROVE  ChopsInv'
<1>1. /\ place'[p] = to /\ \A q \in Guest : q # p => place'[q] = place[q]
  BY GuestPlace DEF TableInv
<1>2. ASSUME NEW q \in Guest
      PROVE  \/ Undisturbed(q)
             \/ /\ place[q] \notin AtChops /\ place'[q] \notin AtChops
                /\ place[q] = "dead" => place'[q] = "dead"
  BY <1>1 DEF Undisturbed
<1> QED BY <1>2, ChopsStay

\* Every step of a philosopher keeps the chopsticks in order.
LEMMA ChopsDine == ASSUME TableInv, ChopsInv, NEW p \in Guest, Dines(p) PROVE ChopsInv'
<1>1. CASE \/ LockMain(p, "born", "sit") \/ LockMain(p, "hungry", "choose")
           \/ Removed(p) \/ Rise(p)
  <2>1. PICK to \in {"sit", "choose", "chooseFreely", "hungry"} :
          place' = [place EXCEPT ![p] = to]
    BY <1>1 DEF LockMain, Removed, Rise, Moves
  <2>2. place[p] \notin AtChops \cup {"dead"} /\ to \notin AtChops
    BY <1>1 DEF LockMain, Removed, Rise, Awake, AtChops
  <2>3. chop' = chop /\ UNCHANGED <<number, right, left>>
    BY <1>1 DEF LockMain, Removed, Rise, locals
  <2> QED BY <2>1, <2>2, <2>3, ChopsIdle
<1>2. CASE Sit(p)
  <2>1. /\ place[p] = "sit" /\ place' = [place EXCEPT ![p] = "hungry"] /\ chop' = chop
        /\ number' = [number EXCEPT ![p] = assigned] /\ UNCHANGED <<right, left>>
    BY <1>2 DEF Sit, Awake, Moves
  <2>2. \A q \in Guest : q # p => number'[q] = number[q]
    BY <2>1 DEF TableInv, TableTypes
  <2>3. place[p] \notin AtChops \cup {"dead"} /\ "hungry" \notin AtChops
    BY <2>1 DEF AtChops
  <2> QED BY <2>1, <2>2, <2>3, ChopsIdle
<1>3. CASE Choose(p)
  <2>1. /\ place[p] \in {"choose", "chooseFreely"} /\ place' = [place EXCEPT ![p] = "first"]
        /\ chop' = chop /\ number' = number
        /\ right' = [right EXCEPT ![p] = RightOf(number[p], quantity)]
        /\ left' = [left EXCEPT ![p] = LeftOf(number[p], quantity)]
    BY <1>3 DEF Choose, Awake, Moves
  <2>2. \A q \in Guest : q # p => right'[q] = right[q] /\ left'[q] = left[q]
    BY <2>1 DEF TableInv, TableTypes
  <2>3. place[p] \notin AtChops \cup {"dead"} /\ "first" \notin AtChops
    BY <2>1 DEF AtChops
  <2> QED BY <2>1, <2>2, <2>3, ChopsIdle
<1>4. CASE removePhilosopher(p)
  <2>1. /\ place[p] = "choose" /\ Killed(philosophers[quantity - 1], p, "removed")
        /\ UNCHANGED <<number, right, left>>
    BY <1>4 DEF removePhilosopher, Awake, locals
  <2>2. quantity \in 1 .. MAX_PHILOSOPHERS
    BY <2>1, QuantityCovers DEF Alive
  <2>3. quantity - 1 \in Chopstick
    BY <2>2, PhilosophersAssumption DEF Chopstick
  <2>4. philosophers[quantity - 1] \in Guest \cup {Host}
    BY <2>3 DEF TableInv, TableTypes
  <2>5. place[p] \notin AtChops /\ place[p] # "dead" /\ "removed" \notin AtChops
    BY <2>1 DEF AtChops
  <2> QED BY <2>1, <2>4, <2>5, ChopsOfTheDead
<1> QED BY <1>1, <1>2, <1>3, <1>4, ChopsFirst, ChopsSecond, ChopsEaten, ChopsRight, ChopsLeft
        DEF Dines

\* The next philosopher is not born yet.
LEMMA CountOfCreated ==
  ASSUME TableInv
  PROVE  place[Cardinality(Created) + 1] = "unborn" \/ Cardinality(Created) + 1 \notin Guest
<1>1. PICK h \in 0 .. MaxHired : Created = 1 .. h
  BY DEF TableInv, Hiring
<1>2. Cardinality(1 .. h) = h /\ h \in Nat
  BY <1>1, FS_Interval, PhilosophersAssumption
<1>3. h + 1 \notin Created
  BY <1>1, <1>2
<1> QED BY <1>1, <1>2, <1>3 DEF Created

\* The host takes no chopstick; whoever it kills gives up its own.
LEMMA ChopsHost ==
  ASSUME TableInv, ChopsInv, FirstCall \/ Keys \/ Serves
  PROVE  ChopsInv'
<1>0. TableTypes
  BY DEF TableInv
<1>1. CASE FirstCall
  <2>1. UNCHANGED <<place, chop, number, right, left>>
    BY <1>1 DEF FirstCall, locals
  <2> QED BY <2>1, ChopsStay DEF Undisturbed
<1>2. CASE \/ Keys \/ StartsSecond \/ Correct \/ letGoPhilosopher
           \/ destroyAll /\ ~ (i < quantity)
  <2>1. /\ \E to : place' = [place EXCEPT ![Host] = to]
        /\ UNCHANGED <<chop, number, right, left>>
    BY <1>2, Zenon DEF Keys, StartsSecond, Correct, letGoPhilosopher, destroyAll, LockMain,
                       Moves, locals
  <2>2. \A q \in Guest : Undisturbed(q)
    BY <1>0, <2>1, HostPlace DEF Undisturbed
  <2> QED BY <2>1, <2>2, ChopsStay
<1>3. CASE hirePhilosopher
  <2>1. /\ chop' = chop /\ UNCHANGED <<number, right, left>>
        /\ \E to, new : \/ place' = [place EXCEPT ![Host] = to]
                        \/ /\ new = Cardinality(Created) + 1
                           /\ place' = [place EXCEPT ![new] = "born", ![Host] = to]
    BY <1>3 DEF hirePhilosopher, locals, Moves
  <2>2. PICK to : \/ place' = [place EXCEPT ![Host] = to]
                  \/ place' = [place EXCEPT ![Cardinality(Created) + 1] = "born", ![Host] = to]
    BY <2>1
  <2>3. place[Cardinality(Created) + 1] = "unborn" \/ Cardinality(Created) + 1 \notin Guest
    BY CountOfCreated
  <2> DEFINE new == Cardinality(Created) + 1
  <2> HIDE DEF new
  <2>4. ASSUME NEW q \in Guest
        PROVE  place'[q] = place[q] \/ (place[q] = "unborn" /\ place'[q] = "born")
    <3>1. q # Host /\ q \in {Host} \cup Guest /\ (q = new => place[q] = "unborn")
      BY <2>3, Seats DEF new
    <3>2. place = [x \in {Host} \cup Guest |-> place[x]]
      BY <1>0 DEF TableTypes
    <3>3. CASE place' = [place EXCEPT ![Host] = to]
      BY <3>1, <3>2, <3>3
    <3>4. CASE place' = [place EXCEPT ![new] = "born", ![Host] = to]
      <4>1. CASE q = new
        BY <3>1, <3>2, <3>4, <4>1
      <4>2. CASE q # new
        BY <3>1, <3>2, <3>4, <4>2
      <4> QED BY <4>1, <4>2
    <3> QED BY <2>2, <3>3, <3>4 DEF new
  <2>5. \A q \in Guest : \/ Undisturbed(q)
                         \/ /\ place[q] \notin AtChops /\ place'[q] \notin AtChops
                            /\ place[q] = "dead" => place'[q] = "dead"
    BY <2>1, <2>4 DEF Undisturbed, AtChops
  <2> QED BY <2>1, <2>5, ChopsStay
<1>4. CASE destroyAll /\ i < quantity
  <2>1. Killed(philosophers[i], Host, "quit") /\ UNCHANGED <<number, right, left>>
    BY <1>4 DEF destroyAll, locals
  <2>2. i \in Chopstick
    BY <1>0, <1>4, PhilosophersAssumption DEF TableTypes, Chopstick
  <2>3. philosophers[i] \in Guest \cup {Host}
    BY <1>0, <2>2 DEF TableTypes
  <2> QED BY <2>1, <2>3, Seats, ChopsOfTheDead DEF AtChops
<1> QED BY <1>1, <1>2, <1>3, <1>4 DEF Serves

\* They are all free when prepareTable begins,
LEMMA ChopsStart == TableInit => ChopsInv
<1> SUFFICES ASSUME TableInit PROVE ChopsInv
  OBVIOUS
<1>1. chop = [c \in Chopstick |-> Free] /\ \A p \in Guest : place[p] = "unborn"
  BY Seats DEF TableInit
<1>2. Sound(Free, Guest) /\ \A p : ~ Stands(p, Free)
  BY DEF Sound, Free, Stands, NobodyTwice
<1>3. \A p \in Guest : Free.owner # p
  BY Seats DEF Free
<1> QED BY <1>1, <1>2, <1>3 DEF ChopsInv, HasNoOther, HasItsOwn

\* and every step of the program keeps them in order.
LEMMA ChopsStep == ASSUME TableInv, ChopsInv, [TableNext]_pvars PROVE ChopsInv'
<1>1. CASE UNCHANGED pvars
  <2>1. UNCHANGED <<place, chop, number, right, left>>
    BY <1>1 DEF pvars
  <2> QED BY <2>1, ChopsStay DEF Undisturbed
<1> QED BY <1>1, ChopsDine, ChopsHost DEF TableNext

-----------------------------------------------------------------------------
(* Who eats has both chopsticks.                                           *)

\* The two neighbours of a number that is not above the quantity.
LEMMA Neighbours ==
  ASSUME NEW n \in Nat, NEW q \in Nat, 0 < n, n <= q
  PROVE  /\ RightOf(n, q) = IF n = q THEN 0 ELSE n
         /\ LeftOf(n, q) = n - 1
<1>1. CASE n = q
  <2>1. n % q = 0
    BY <1>1, Z3
  <2>2. (q + n - 1) % q = n - 1
    BY <1>1, Z3
  <2> QED BY <1>1, <2>1, <2>2 DEF RightOf, LeftOf
<1>2. CASE n < q
  <2>1. n % q = n
    BY <1>2, Z3
  <2>2. (q + n - 1) % q = n - 1
    BY <1>2, Z3
  <2> QED BY <1>2, <2>1, <2>2 DEF RightOf, LeftOf
<1> QED BY <1>1, <1>2

\* What follows for whoever eats, and for the numbers.
LEMMA SharedByTwo == TableInv /\ ChopsInv => TableShared
<1> SUFFICES ASSUME TableInv, ChopsInv PROVE TableShared
  OBVIOUS
<1>0. TableTypes /\ Seating /\ Numbers /\ Sticks
  BY DEF TableInv
<1>1. ASSUME NEW p \in Guest, Awake(p, "eat")
      PROVE  /\ chop[right[p]].owner = p /\ chop[left[p]].owner = p
             /\ Orderly /\ right[p] = left[p] => number[p] = 1 /\ right[p] = 0
  <2>1. place[p] = "eat" /\ \A c \in Chopstick : ~ Stands(p, chop[c])
    BY <1>1 DEF Awake
  <2>2. /\ First(p) \in Chopstick /\ Second(p) \in Chopstick
        /\ {First(p), Second(p)} = {right[p], left[p]}
    BY <1>0, SticksOfTwo
  <2>3. chop[First(p)].owner = p /\ chop[Second(p)].owner = p
    BY <2>1, <2>2 DEF ChopsInv, HasItsOwn
  <2>4. chop[right[p]].owner = p /\ chop[left[p]].owner = p
    BY <2>2, <2>3
  <2>5. ASSUME Orderly, right[p] = left[p] PROVE number[p] = 1 /\ right[p] = 0
    <3>1. PICK q \in 1 .. MAX_PHILOSOPHERS :
            /\ right[p] = RightOf(number[p], q) /\ left[p] = LeftOf(number[p], q)
            /\ number[p] <= q
      BY <1>0, <2>1, <2>5 DEF Sticks, Chosen, AtMeal
    <3>2. number[p] \in Nat /\ number[p] > 0 /\ q \in Nat
      BY <1>0, <2>1, <3>1, PhilosophersAssumption DEF Numbers, Seated, TableTypes
    <3>3. right[p] = (IF number[p] = q THEN 0 ELSE number[p]) /\ left[p] = number[p] - 1
      BY <3>1, <3>2, Neighbours
    <3>4. CASE number[p] = q
      <4>1. right[p] = 0 /\ left[p] = number[p] - 1 /\ right[p] = left[p]
        BY <2>5, <3>3, <3>4
      <4> QED BY <4>1, <3>2
    <3>5. CASE number[p] # q
      <4>1. number[p] = number[p] - 1
        BY <2>5, <3>3, <3>5
      <4> QED BY <4>1, <3>2
    <3> QED BY <3>4, <3>5
  <2> QED BY <2>4, <2>5
<1>2. ASSUME calm, NEW p \in Guest, NEW q \in Guest, Seated(p), Seated(q), number[p] = number[q]
      PROVE  p = q
  <2>1. PICK k \in Chopstick : k < assigned /\ philosophers[k] = p
    BY <1>0, <1>2 DEF Seating, Seated, Alive
  <2>2. PICK l \in Chopstick : l < assigned /\ philosophers[l] = q
    BY <1>0, <1>2 DEF Seating, Seated, Alive
  <2>3. number[p] = k + 1 /\ number[q] = l + 1
    BY <1>0, <1>2, <2>1, <2>2 DEF Numbers
  <2>4. k \in Nat /\ l \in Nat /\ k + 1 = l + 1
    BY <1>2, <2>3, Seats
  <2>5. k = l
    BY <2>4
  <2> QED BY <2>1, <2>2, <2>5
<1> QED BY <1>1, <1>2 DEF TableShared, EatsWithBoth, NumbersDistinct, Seated

\* Who eats has two chopsticks, and no two philosophers have one number.
THEOREM TableSharedHolds == Spec => []TableShared
<1> DEFINE IInv == TableInv /\ ChopsInv
<1>1. Init => IInv
  BY TableStarts, ChopsStart DEF Init
<1>2. IInv /\ [Next]_vars => IInv'
  <2>1. [Next]_vars => [TableNext]_pvars
    BY DEF Next, vars
  <2> QED BY <2>1, TableStep, TableRests, ChopsStep
<1>3. IInv => TableShared
  BY SharedByTwo
<1> QED BY <1>1, <1>2, <1>3, PTL DEF Spec

-----------------------------------------------------------------------------
(* Nobody waits in a circle.                                               *)

\* Where a process may have main_mutex, and where it may stand in line for it.
Inside ==
  {"sit", "choose", "removed", "finished", "putRight", "rise",
   "hireFirst", "correct", "hire", "letGo", "quit"}

AtDoor == Inside \ {"removed", "putRight", "rise"}

Everybody == Guest \cup {Host}

\* What a process that lives has to do with main_mutex.
AtPlace(p) ==
  place[p] # "dead" => /\ Stands(p, main) => place[p] \in AtDoor
                       /\ main.owner = p => place[p] \in Inside

DoorsInv == Sound(main, Everybody) /\ \A p \in Everybody : AtPlace(p)

\* A process that keeps what it has, and does not leave where it matters.
StaysThere(q) ==
  /\ Keeps(q, main, main')
  /\ \/ place'[q] = "dead"
     \/ /\ place[q] # "dead"
        /\ Stands(q, main) /\ place[q] \in AtDoor => place'[q] \in AtDoor
        /\ place[q] \in Inside => place'[q] \in Inside

\* Such a process may have main_mutex, and stand in line, where it is.
LEMMA StayAtPlace ==
  ASSUME NEW q, AtPlace(q), StaysThere(q)
  PROVE  AtPlace(q)'
BY DEF AtPlace, StaysThere, Keeps, AtDoor

\* A process locks main_mutex and goes on inside.
LEMMA DoorsLock ==
  ASSUME TableInv, DoorsInv, NEW p \in Everybody, NEW from, NEW to \in AtDoor,
         LockMain(p, from, to)
  PROVE  DoorsInv'
<1>1. /\ ~ Stands(p, main) /\ main' = Lock(main, p)
      /\ place' = [place EXCEPT ![p] = to]
  BY DEF LockMain, Awake, Moves
<1>2. Sound(main', Everybody) /\ \A q \in Everybody : q # p => Keeps(q, main, main')
  BY <1>1, Taken, Seats DEF DoorsInv, Everybody
<1>3. place'[p] = to /\ \A q \in Everybody : q # p => place'[q] = place[q]
  BY <1>1 DEF TableInv, TableTypes, Everybody
<1>4. AtPlace(p)'
  BY <1>3 DEF AtPlace, AtDoor
<1>5. ASSUME NEW q \in Everybody, q # p PROVE AtPlace(q)'
  <2>1. StaysThere(q)
    BY <1>2, <1>3, <1>5 DEF StaysThere
  <2> QED BY <2>1, StayAtPlace DEF DoorsInv
<1> QED BY <1>2, <1>4, <1>5 DEF DoorsInv

\* A process gives main_mutex up, or loses it with its life; the others stay
\* where it matters.
LEMMA DoorsUnlock ==
  ASSUME DoorsInv, NEW v \in Everybody, main' = Unlock(main, v),
         ~ Stands(v, main) \/ place'[v] = "dead",
         \A q \in Everybody : q # v =>
           \/ place'[q] = place[q] \/ place[q] = "unborn"
           \/ place[q] = "choose" /\ place'[q] = "removed" /\ ~ Stands(q, main)
  PROVE  DoorsInv'
<1>1. /\ Sound(main', Everybody) /\ main'.owner # v
      /\ Stands(v, main') => Stands(v, main)
      /\ \A q \in Everybody : q # v => Keeps(q, main, main')
  BY Given, Seats DEF DoorsInv, Everybody
<1>2. AtPlace(v)'
  BY <1>1 DEF AtPlace
<1>3. ASSUME NEW q \in Everybody, q # v PROVE AtPlace(q)'
  <2>1. StaysThere(q)
    BY <1>1, <1>3 DEF StaysThere, Inside, AtDoor
  <2> QED BY <2>1, StayAtPlace DEF DoorsInv
<1> QED BY <1>1, <1>2, <1>3 DEF DoorsInv

\* Nothing happens to main_mutex.
LEMMA DoorsStay ==
  ASSUME DoorsInv, main' = main, \A q \in Everybody : StaysThere(q)
  PROVE  DoorsInv'
BY StayAtPlace DEF DoorsInv

\* Every step of a philosopher keeps main_mutex in order,
LEMMA DoorsDine == ASSUME TableInv, DoorsInv, NEW p \in Guest, Dines(p) PROVE DoorsInv'
<1>0. TableTypes /\ p \in Everybody
  BY DEF TableInv, Everybody
<1>1. CASE \/ LockMain(p, "born", "sit") \/ LockMain(p, "hungry", "choose")
           \/ LockMain(p, "eat", "finished")
  <2>1. {"sit", "choose", "finished"} \subseteq AtDoor
    BY DEF AtDoor, Inside
  <2> QED BY <1>0, <1>1, <2>1, DoorsLock
<1>2. CASE Sit(p) \/ Removed(p) \/ Choose(p) \/ Rise(p)
  <2>1. /\ main' = Unlock(main, p) /\ ~ Stands(p, main)
        /\ \E to : place' = [place EXCEPT ![p] = to]
    BY <1>2 DEF Sit, Removed, Choose, Rise, Awake, Moves
  <2>2. \A q \in Everybody : q # p => place'[q] = place[q]
    BY <1>0, <2>1 DEF TableTypes, Everybody
  <2> QED BY <1>0, <2>1, <2>2, DoorsUnlock
<1>3. CASE removePhilosopher(p)
  <2> DEFINE v == philosophers[quantity - 1]
  <2>1. /\ place[p] = "choose" /\ main' = Unlock(main, v) /\ ~ Stands(p, main)
        /\ place' = [[place EXCEPT ![p] = "removed"] EXCEPT ![v] = "dead"]
    BY <1>3 DEF removePhilosopher, Awake, Killed
  <2>2. quantity \in 1 .. MAX_PHILOSOPHERS
    BY <2>1, QuantityCovers DEF Alive
  <2>3. quantity - 1 \in Chopstick
    BY <2>2, PhilosophersAssumption DEF Chopstick
  <2>4. v \in Everybody
    BY <1>0, <2>3 DEF TableTypes, Everybody
  <2> HIDE DEF v
  <2>5. /\ place'[v] = "dead" /\ (p # v => place'[p] = "removed")
        /\ \A q \in Everybody : q # p /\ q # v => place'[q] = place[q]
    BY <1>0, <2>1, <2>4 DEF TableTypes, Everybody
  <2> QED BY <2>1, <2>4, <2>5, DoorsUnlock
<1>4. CASE \/ LockChop(p, First(p), "first", "second")
           \/ LockChop(p, Second(p), "second", "eat")
           \/ UnlockChop(p, right[p], "finished", "putRight")
           \/ UnlockChop(p, left[p], "putRight", "rise")
  <2>1. /\ main' = main /\ ~ Stands(p, main)
        /\ \/ place[p] = "first" /\ place' = [place EXCEPT ![p] = "second"]
           \/ place[p] = "second" /\ place' = [place EXCEPT ![p] = "eat"]
           \/ place[p] = "finished" /\ place' = [place EXCEPT ![p] = "putRight"]
           \/ place[p] = "putRight" /\ place' = [place EXCEPT ![p] = "rise"]
    BY <1>4 DEF LockChop, UnlockChop, Awake, Moves
  <2>2. PICK b \in {"second", "eat", "putRight", "rise"} :
          /\ place' = [place EXCEPT ![p] = b]
          /\ b \in {"second", "eat"} => place[p] \in {"first", "second"}
          /\ b \in {"putRight", "rise"} => place[p] \in {"finished", "putRight"}
    BY <2>1
  <2>3. place'[p] = b /\ \A q \in Everybody : q # p => place'[q] = place[q]
    BY <1>0, <2>2 DEF TableTypes, Everybody
  <2>4. ASSUME NEW q \in Everybody PROVE StaysThere(q)
    BY <2>1, <2>2, <2>3 DEF StaysThere, Keeps, Inside, AtDoor
  <2> QED BY <2>1, <2>4, DoorsStay
<1> QED BY <1>1, <1>2, <1>3, <1>4 DEF Dines

\* and every step of the host.
LEMMA DoorsHost ==
  ASSUME TableInv, DoorsInv, FirstCall \/ Keys \/ Serves
  PROVE  DoorsInv'
<1>0. TableTypes /\ Host \in Everybody
  BY DEF TableInv, Everybody
<1>1. CASE FirstCall
  <2>1. UNCHANGED <<place, main>>
    BY <1>1 DEF FirstCall
  <2> QED BY <2>1, DoorsStay DEF StaysThere, Keeps
<1>2. CASE Keys \/ StartsSecond
  <2>1. \E from, to : to \in {"hireFirst", "hire", "letGo", "quit", "correct"}
                      /\ LockMain(Host, from, to)
    BY <1>2, Zenon DEF Keys, StartsSecond
  <2>2. {"hireFirst", "hire", "letGo", "quit", "correct"} \subseteq AtDoor
    BY DEF AtDoor, Inside
  <2> QED BY <1>0, <2>1, <2>2, DoorsLock
<1>3. CASE Correct \/ letGoPhilosopher \/ (destroyAll /\ ~ (i < quantity))
  <2>1. /\ main' = Unlock(main, Host) /\ ~ Stands(Host, main)
        /\ \E to : place' = [place EXCEPT ![Host] = to]
    BY <1>3 DEF Correct, letGoPhilosopher, destroyAll, Awake, Moves
  <2>2. \A q \in Everybody : q # Host => place'[q] = place[q]
    BY <1>0, <2>1 DEF TableTypes, Everybody
  <2> QED BY <1>0, <2>1, <2>2, DoorsUnlock
<1>4. CASE hirePhilosopher
  <2> DEFINE new == Cardinality(Created) + 1
  <2>1. /\ main' = Unlock(main, Host) /\ ~ Stands(Host, main)
        /\ \E to : \/ place' = [place EXCEPT ![Host] = to]
                   \/ place' = [place EXCEPT ![new] = "born", ![Host] = to]
    BY <1>4 DEF hirePhilosopher, Awake, Moves
  <2>2. place[new] = "unborn" \/ new \notin Guest
    BY CountOfCreated
  <2> HIDE DEF new
  <2>3. ASSUME NEW q \in Everybody, q # Host
        PROVE  place'[q] = place[q] \/ place[q] = "unborn"
    BY <1>0, <2>1, <2>2, <2>3 DEF TableTypes, Everybody
  <2> QED BY <1>0, <2>1, <2>3, DoorsUnlock
<1>5. CASE destroyAll /\ i < quantity
  <2> DEFINE v == philosophers[i]
  <2>1. /\ main' = Unlock(main, v) /\ place[Host] = "quit"
        /\ place' = [[place EXCEPT ![Host] = "quit"] EXCEPT ![v] = "dead"]
    BY <1>5 DEF destroyAll, Killed, Awake
  <2>2. i \in Chopstick
    BY <1>0, <1>5, PhilosophersAssumption DEF TableTypes, Chopstick
  <2>3. v \in Everybody
    BY <1>0, <2>2 DEF TableTypes, Everybody
  <2> HIDE DEF v
  <2>4. place'[v] = "dead" /\ \A q \in Everybody : q # v => place'[q] = place[q]
    BY <1>0, <2>1, <2>3 DEF TableTypes, Everybody
  <2> QED BY <2>1, <2>3, <2>4, DoorsUnlock
<1>6. CASE destroyAll
  BY <1>3, <1>5, <1>6
<1> QED BY <1>1, <1>2, <1>3, <1>4, <1>6 DEF Serves

\* It is free when prepareTable begins,
LEMMA DoorsStart == TableInit => DoorsInv
<1> SUFFICES ASSUME TableInit PROVE DoorsInv
  OBVIOUS
<1>1. main = Free
  BY DEF TableInit
<1>2. Sound(Free, Everybody) /\ \A p : ~ Stands(p, Free)
  BY DEF Sound, Free, Stands, NobodyTwice
<1>3. \A p \in Everybody : Free.owner # p
  BY Seats DEF Free, Everybody
<1> QED BY <1>1, <1>2, <1>3 DEF DoorsInv, AtPlace

\* and every step of the program keeps it in order.
LEMMA DoorsStep == ASSUME TableInv, DoorsInv, [TableNext]_pvars PROVE DoorsInv'
<1>1. CASE UNCHANGED pvars
  <2>1. UNCHANGED <<place, main>>
    BY <1>1 DEF pvars
  <2> QED BY <2>1, DoorsStay DEF StaysThere, Keeps
<1> QED BY <1>1, DoorsDine, DoorsHost DEF TableNext

\* Whoever stands in line stands in one, and the mutex it waits for is of
\* one that is not in the same line.
LEMMA InOneLine ==
  ASSUME TableInv, ChopsInv, DoorsInv, NEW p \in Everybody, Blocked(p)
  PROVE  \/ /\ Stands(p, main) /\ main.owner # p
            /\ \A c \in Chopstick : ~ Stands(p, chop[c])
         \/ /\ ~ Stands(p, main) /\ main.owner # p /\ p \in Guest
            /\ \/ place[p] = "second" /\ Stands(p, chop[First(p)])
                  /\ \A c \in Chopstick : Stands(p, chop[c]) => c = First(p)
               \/ place[p] = "eat" /\ Stands(p, chop[Second(p)])
                  /\ \A c \in Chopstick : Stands(p, chop[c]) => c = Second(p)
<1>1. place[p] # "dead" /\ (Stands(p, main) \/ \E c \in Chopstick : Stands(p, chop[c]))
  BY DEF Blocked
<1>2. AtPlace(p) /\ Sound(main, Everybody)
  BY DEF DoorsInv
<1>3. CASE \E c \in Chopstick : Stands(p, chop[c])
  <2>1. PICK c \in Chopstick : Stands(p, chop[c])
    BY <1>3
  <2>2. p \in Guest
    <3>1. chop[c].line \in Seq(Guest)
      BY DEF ChopsInv, Sound
    <3>2. PICK k \in DOMAIN chop[c].line : chop[c].line[k] = p
      BY <2>1 DEF Stands
    <3>3. DOMAIN chop[c].line = 1 .. Len(chop[c].line)
      BY <3>1
    <3> QED BY <3>1, <3>2, <3>3, ElementOfSeq
  <2>3. HasNoOther(p)
    BY <2>2 DEF ChopsInv
  <2>4. \A d \in Chopstick : Stands(p, chop[d]) => Awaited(p, d)
    BY <1>1, <2>3 DEF HasNoOther
  <2>5. place[p] \in {"second", "eat"}
    BY <2>1, <2>4 DEF Awaited
  <2>6. ~ Stands(p, main) /\ main.owner # p
    BY <1>1, <1>2, <2>5 DEF AtPlace, AtDoor, Inside
  <2>7. CASE place[p] = "second"
    BY <2>1, <2>2, <2>4, <2>6, <2>7 DEF Awaited
  <2>8. CASE place[p] = "eat"
    BY <2>1, <2>2, <2>4, <2>6, <2>8 DEF Awaited
  <2> QED BY <2>5, <2>7, <2>8
<1>4. CASE ~ \E c \in Chopstick : Stands(p, chop[c])
  <2>1. Stands(p, main)
    BY <1>1, <1>4
  <2> QED BY <1>2, <1>4, <2>1 DEF Sound
<1> QED BY <1>3, <1>4

\* Every chopstick has a rank, and of two a philosopher takes the higher first.
Rank(c) == IF c % 2 = 1 THEN 2 ELSE IF c = 0 THEN 1 ELSE 0

\* Odd numbers start with the odd chopstick or with 0, even ones with the odd one.
LEMMA FirstIsHigher ==
  ASSUME TableInv, Orderly, NEW p \in Guest, place[p] \in AtMeal, First(p) # Second(p)
  PROVE  Rank(First(p)) > Rank(Second(p))
<1>0. Numbers /\ Sticks /\ TableTypes
  BY DEF TableInv
<1>1. PICK q \in 1 .. MAX_PHILOSOPHERS :
        /\ right[p] = RightOf(number[p], q) /\ left[p] = LeftOf(number[p], q)
        /\ number[p] <= q
  BY <1>0 DEF Sticks, Chosen
<1> DEFINE n == number[p]
<1>2. n \in Nat /\ n > 0 /\ q \in Nat /\ n <= q
  BY <1>0, <1>1, PhilosophersAssumption DEF Numbers, Seated, TableTypes, AtMeal
<1>3. right[p] = (IF n = q THEN 0 ELSE n) /\ left[p] = n - 1
  BY <1>1, <1>2, Neighbours
<1>4. /\ First(p) = IF n % 2 = 1 THEN right[p] ELSE left[p]
      /\ Second(p) = IF First(p) = right[p] THEN left[p] ELSE right[p]
  BY DEF First, Second
<1> HIDE DEF n
<1>5. CASE n % 2 = 1
  <2>1. First(p) = right[p] /\ Second(p) = left[p]
    BY <1>4, <1>5
  <2>2. (n - 1) % 2 = 0
    BY <1>2, <1>5, Z3
  <2>3. CASE n = q
    <3>1. First(p) = 0 /\ Second(p) = n - 1 /\ n - 1 # 0
      BY <1>3, <2>1, <2>3
    <3>2. 0 % 2 = 0
      BY Z3
    <3>3. Rank(First(p)) = 1 /\ Rank(Second(p)) = 0
      BY <2>2, <3>1, <3>2 DEF Rank
    <3> QED BY <3>3
  <2>4. CASE n # q
    <3>1. First(p) = n /\ Second(p) = n - 1
      BY <1>3, <2>1, <2>4
    <3>2. Rank(First(p)) = 2 /\ Rank(Second(p)) \in {0, 1}
      BY <1>5, <2>2, <3>1 DEF Rank
    <3> QED BY <3>2
  <2> QED BY <2>3, <2>4
<1>6. CASE n % 2 # 1
  <2>1. First(p) = n - 1 /\ (n - 1) % 2 = 1
    <3>1. (n - 1) % 2 = 1
      BY <1>2, <1>6, Z3
    <3> QED BY <1>3, <1>4, <1>6, <3>1
  <2>2. Second(p) = right[p]
    <3>1. First(p) = left[p]
      BY <1>4, <1>6
    <3> QED BY <3>1, <1>4
  <2>3. Second(p) % 2 # 1
    <3>1. 0 % 2 # 1
      BY Z3
    <3> QED BY <1>3, <1>6, <2>2, <3>1
  <2>4. Rank(First(p)) = 2 /\ Rank(Second(p)) \in {0, 1}
    BY <2>1, <2>3 DEF Rank
  <2> QED BY <2>4
<1> QED BY <1>5, <1>6

\* Nobody waits at the door for one that is blocked.
LEMMA DoorOpens ==
  ASSUME TableInv, ChopsInv, DoorsInv, NEW p \in Everybody, NEW q \in Everybody,
         Blocked(q), WaitsFor(p, q)
  PROVE  ~ Stands(p, main)
<1> SUFFICES ASSUME Stands(p, main) PROVE FALSE
  OBVIOUS
<1>1. Blocked(p) /\ place[q] # "dead"
  BY DEF WaitsFor, Blocked
<1>2. main.owner = q
  BY <1>1, InOneLine DEF WaitsFor
<1>3. place[q] \in Inside
  BY <1>1, <1>2 DEF DoorsInv, AtPlace
<1>4. place[q] \in {"second", "eat"}
  <2>1. ~ Stands(q, main)
    BY <1>2 DEF DoorsInv, Sound
  <2> QED BY <2>1, InOneLine
<1> QED BY <1>3, <1>4 DEF Inside

\* Of blocked processes that wait for one another, who is waited for has its
\* first chopstick and waits for its second.
LEMMA WaitsForEater ==
  ASSUME TableInv, ChopsInv, DoorsInv, NEW p \in Everybody, NEW q \in Everybody,
         NEW r \in Everybody, Blocked(q), Blocked(r), WaitsFor(p, q), WaitsFor(q, r)
  PROVE  /\ p \in Guest /\ q \in Guest /\ place[q] = "eat" /\ First(q) # Second(q)
         /\ place[p] = "eat" => First(q) = Second(p)
<1>1. Blocked(p) /\ place[q] # "dead"
  BY DEF WaitsFor, Blocked
<1>2. ~ Stands(p, main) /\ ~ Stands(q, main)
  BY DoorOpens
<1>3. PICK c \in Chopstick : Stands(p, chop[c]) /\ chop[c].owner = q
  BY <1>2 DEF WaitsFor
<1>4. p \in Guest /\ (place[p] = "eat" => c = Second(p))
  BY <1>1, <1>2, <1>3, InOneLine
<1>5. Sound(chop[c], Guest) /\ ~ Stands(q, chop[c])
  BY <1>3 DEF ChopsInv, Sound
<1>6. q \in Guest
  BY <1>3, <1>5, Seats DEF Sound, Everybody
<1>7. Held(q, c)
  BY <1>1, <1>3, <1>6 DEF ChopsInv, HasNoOther
<1>8. /\ place[q] \in {"second", "eat"}
      /\ place[q] = "second" => Stands(q, chop[First(q)])
      /\ place[q] = "eat" => Stands(q, chop[Second(q)])
  BY <1>2, InOneLine
<1>9. place[q] = "eat"
  BY <1>5, <1>7, <1>8 DEF Held
<1>10. c = First(q) /\ c # Second(q)
  BY <1>5, <1>7, <1>8, <1>9 DEF Held
<1> QED BY <1>4, <1>6, <1>9, <1>10

\* Following who waits for whom, the rank of what they have gets lower and
\* lower: there are three.
LEMMA NoCircle == TableInv /\ ChopsInv /\ DoorsInv => TableFlows
<1> SUFFICES ASSUME TableInv, ChopsInv, DoorsInv, Orderly,
                    NEW S \in SUBSET {p \in Everybody : Blocked(p)}, S # {},
                    \A p \in S : \E q \in S : WaitsFor(p, q)
             PROVE  FALSE
  BY DEF TableFlows, NoCircularWait, Everybody
<1>1. \A p \in S : p \in Everybody /\ Blocked(p)
  OBVIOUS
<1>2. \A p, q, r \in S : WaitsFor(p, q) /\ WaitsFor(q, r) =>
        /\ p \in Guest /\ q \in Guest /\ place[q] = "eat" /\ First(q) # Second(q)
        /\ place[p] = "eat" => First(q) = Second(p)
  BY <1>1, WaitsForEater
<1>3. \A q \in S : q \in Guest /\ place[q] = "eat" /\ First(q) # Second(q) =>
        /\ Rank(First(q)) > Rank(Second(q))
        /\ Rank(First(q)) \in 0 .. 2 /\ Rank(Second(q)) \in 0 .. 2
  BY FirstIsHigher DEF AtMeal, Rank
<1>4. PICK p \in S, q1 \in S, q2 \in S, q3 \in S, q4 \in S :
        WaitsFor(p, q1) /\ WaitsFor(q1, q2) /\ WaitsFor(q2, q3) /\ WaitsFor(q3, q4)
  <2>1. PICK p \in S : TRUE
    OBVIOUS
  <2>2. PICK q1 \in S : WaitsFor(p, q1)
    OBVIOUS
  <2>3. PICK q2 \in S : WaitsFor(q1, q2)
    OBVIOUS
  <2>4. PICK q3 \in S : WaitsFor(q2, q3)
    OBVIOUS
  <2>5. PICK q4 \in S : WaitsFor(q3, q4)
    OBVIOUS
  <2> QED BY <2>2, <2>3, <2>4, <2>5
<1>5. /\ q1 \in Guest /\ place[q1] = "eat" /\ First(q1) # Second(q1)
      /\ q2 \in Guest /\ place[q2] = "eat" /\ First(q2) # Second(q2)
      /\ q3 \in Guest /\ place[q3] = "eat" /\ First(q3) # Second(q3)
      /\ First(q2) = Second(q1) /\ First(q3) = Second(q2)
  BY <1>2, <1>4
<1>6. /\ Rank(First(q1)) > Rank(First(q2)) /\ Rank(First(q2)) > Rank(First(q3))
      /\ Rank(First(q3)) > Rank(Second(q3))
      /\ Rank(First(q1)) \in 0 .. 2 /\ Rank(First(q2)) \in 0 .. 2
      /\ Rank(First(q3)) \in 0 .. 2 /\ Rank(Second(q3)) \in 0 .. 2
  BY <1>3, <1>5
<1> QED BY <1>6

\* As long as nobody is hired too early and then told to go, no processes
\* wait for one another in a circle: they cannot be deadlocked.
THEOREM TableFlowsHolds == Spec => []TableFlows
<1> DEFINE IInv == TableInv /\ ChopsInv /\ DoorsInv
<1>1. Init => IInv
  BY TableStarts, ChopsStart, DoorsStart DEF Init
<1>2. IInv /\ [Next]_vars => IInv'
  <2>1. [Next]_vars => [TableNext]_pvars
    BY DEF Next, vars
  <2> QED BY <2>1, TableStep, TableRests, ChopsStep, DoorsStep
<1>3. IInv => TableFlows
  BY NoCircle
<1> QED BY <1>1, <1>2, <1>3, PTL DEF Spec

=============================================================================
