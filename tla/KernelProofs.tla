---------------------------- MODULE KernelProofs ----------------------------
(***************************************************************************)
(* Two parts that share no state, for any value of the constants.          *)
(*                                                                         *)
(* Machine: the modules packed with the kernel get to their place, the     *)
(* kernel's data is used by one process at a time, and the time read is    *)
(* the time.                                                               *)
(*                                                                         *)
(* Objects: malloc and free keep the tree of pages right and hand out what *)
(* Allocator promises, and the directories of mutexes, semaphores and      *)
(* mailboxes list exactly the memory that their structures are in.         *)
(***************************************************************************)
EXTENDS Machine, Objects, FiniteSetTheorems, FunctionTheorems, SequenceTheorems,
        NaturalsInduction, WellFoundedInduction, TLAPS

-----------------------------------------------------------------------------
(* Where processes may stand when they do not run *)

Mode == {"user", "data", "may leave", "away", "hours", "minutes", "to seconds", "seconds", "return"}

Modes == mode \in [Process -> Mode] /\ cpu \in Process

\* Only the process that runs is inside the kernel with interrupts off: the
\* timer finds them on, and who gives the processor away is out of the data.
Alone == \A p \in Process : mode[p] \in Mode \ (Open \cup {"away"}) => cpu = p

(* Every step of a process leaves it somewhere, and the others alone. *)
LEMMA StepMoves ==
  ASSUME Modes, NEW p \in Process, Step(p)
  PROVE  /\ cpu = p
         /\ \E m \in Mode : mode' = [mode EXCEPT ![p] = m]
         /\ cpu' = p \/ (mode'[p] = "away" /\ cpu' \in Process)
<1> USE DEF Modes, Mode, Runs, Goes, machine, sleeping, history, ClockCall
<1>1. CASE Call(p)  BY <1>1 DEF Call
<1>2. CASE Done(p)  BY <1>2 DEF Done
<1>3. CASE Leave(p)  BY <1>3 DEF Leave
<1>4. CASE ComesBack(p)  BY <1>4 DEF ComesBack
<1>5. CASE ReadHours(p)  BY <1>5 DEF ReadHours
<1>6. CASE ReadMinutes(p)  BY <1>6 DEF ReadMinutes
<1>7. CASE SelectSeconds(p)  BY <1>7 DEF SelectSeconds
<1>8. CASE ReadSeconds(p)  BY <1>8 DEF ReadSeconds
<1>9. CASE Sleep(p)  BY <1>9 DEF Sleep
<1>10. CASE Watch(p)  BY <1>10 DEF Watch
<1>11. CASE WatchEnds(p)  BY <1>11 DEF WatchEnds
<1>12. CASE SleepStarts(p)  BY <1>12 DEF SleepStarts
<1>13. CASE SleepGoesOn(p)  BY <1>13 DEF SleepGoesOn
<1> QED BY <1>1, <1>2, <1>3, <1>4, <1>5, <1>6, <1>7, <1>8, <1>9, <1>10, <1>11, <1>12, <1>13 DEF Step

(* Every step leaves each process in one of the modes of its program. *)
LEMMA ModesStep == Modes /\ [ClockNext]_cvars => Modes'
<1> SUFFICES ASSUME Modes, [ClockNext]_cvars PROVE Modes'
  OBVIOUS
<1>1. CASE Timer
  BY <1>1 DEF Timer, Modes
<1>2. CASE SecondPasses
  BY <1>2 DEF SecondPasses, Modes
<1>3. ASSUME NEW p \in Process, Step(p) PROVE Modes'
  BY <1>3, StepMoves DEF Modes
<1>4. CASE UNCHANGED cvars
  BY <1>4 DEF cvars, Modes
<1> QED BY <1>1, <1>2, <1>3, <1>4 DEF ClockNext

(* Who is inside the kernel's data with interrupts off stays on the *)
(* processor.                                                       *)
LEMMA AloneStep == Modes /\ Alone /\ [ClockNext]_cvars => Alone'
<1> SUFFICES ASSUME Modes, Alone, [ClockNext]_cvars PROVE Alone'
  OBVIOUS
<1>1. CASE Timer
  BY <1>1 DEF Timer, Modes, Alone, Mode, Open
<1>2. CASE SecondPasses
  BY <1>2 DEF SecondPasses, Modes, Alone, sleeping
<1>3. ASSUME NEW p \in Process, Step(p) PROVE Alone'
  BY <1>3, StepMoves DEF Modes, Alone, Mode
<1>4. CASE UNCHANGED cvars
  BY <1>4 DEF cvars, Modes, Alone
<1> QED BY <1>1, <1>2, <1>3, <1>4 DEF ClockNext

(* Nothing runs while a system call is in the middle of the kernel's data. *)
THEOREM KernelDataAloneHolds == Spec => []KernelDataAlone
<1>1. Init => Modes /\ Alone
  BY DEF Init, ClockInit, Modes, Alone, Mode, Open
<1>2. Modes /\ Alone /\ [Next]_vars => Modes' /\ Alone'
  BY ModesStep, AloneStep DEF Next, vars, Works
<1>3. Modes /\ Alone => KernelDataAlone
  BY DEF Modes, Alone, KernelDataAlone, Mode, Open
<1> QED BY <1>1, <1>2, <1>3, PTL DEF Spec

-----------------------------------------------------------------------------
(* Arithmetic of the time of day *)

(* Two decimal digits survive the register they are kept in. *)
LEMMA BcdBack == \A n \in 0 .. 99 : translateTime(Bcd(n)) = n
BY DEF translateTime, Bcd

(* Quotient and remainder are the only ones. *)
LEMMA Quotient ==
  ASSUME NEW a \in Nat, NEW b \in Nat \ {0}
  PROVE  /\ a \div b \in Nat /\ a % b \in 0 .. b - 1
         /\ a = b * (a \div b) + (a % b)
<1> DEFINE x == a \div b  y == a % b
<1>1. x \in Int /\ y \in 0 .. b - 1
  OBVIOUS
<1>2. y = a - b * x
  BY Z3
<1> HIDE DEF x, y
<1>3. a = b * x + y
  BY <1>1, <1>2
<1>4. ASSUME x < 0 PROVE FALSE
  <2>1. b * (x + 1) <= 0
    BY <1>1, <1>4
  <2> QED BY <2>1, <1>1, <1>3
<1>5. x \in Nat /\ y \in 0 .. b - 1 /\ a = b * x + y
  BY <1>1, <1>3, <1>4
<1> QED BY <1>5 DEF x, y

(* Quotient and remainder are determined by their bounds. *)
LEMMA QuotientUnique ==
  ASSUME NEW a \in Nat, NEW b \in Nat \ {0}, NEW q \in Nat, NEW r \in 0 .. b - 1, a = b * q + r
  PROVE  q = a \div b
<1> DEFINE x == a \div b  y == a % b
<1>1. x \in Nat /\ y \in 0 .. b - 1 /\ a = b * x + y
  BY Quotient
<1> HIDE DEF x, y
<1>2. b * q + r = b * x + y
  BY <1>1
<1>3. ASSUME q < x PROVE FALSE
  <2>1. b * (q + 1) <= b * x
    BY <1>1, <1>3
  <2> QED BY <2>1, <1>1, <1>2
<1>4. ASSUME x < q PROVE FALSE
  <2>1. b * (x + 1) <= b * q
    BY <1>1, <1>4
  <2> QED BY <2>1, <1>1, <1>2
<1>5. q = x  BY <1>1, <1>3, <1>4
<1> QED BY <1>5 DEF x

(* What is in each register, and that the time is made of it. *)
LEMMA TimeOfDay ==
  ASSUME NEW t \in 0 .. Day - 1
  PROVE  /\ HourAt(t) \in 0 .. 59 /\ MinuteAt(t) \in 0 .. 59 /\ t % Seconds \in 0 .. 59
         /\ (HourAt(t) * Minutes + MinuteAt(t)) * Seconds + (t % Seconds) = t
<1> DEFINE h == t \div (Minutes * Seconds)  x == t \div Seconds  s == t % Seconds
           y == x \div Minutes  m == x % Minutes
<1>1. Hours \in 1 .. 60 /\ Minutes \in 1 .. 60 /\ Seconds \in 1 .. 60 /\ t \in Nat
  BY ClockAssumption DEF Day
<1>2. x \in Nat /\ s \in 0 .. Seconds - 1 /\ t = Seconds * x + s
  <2>1. t \in Nat /\ Seconds \in Nat \ {0}
    BY <1>1
  <2> QED BY <2>1, Quotient
<1> HIDE DEF x, s
<1>3. y \in Nat /\ m \in 0 .. Minutes - 1 /\ x = Minutes * y + m
  BY <1>1, <1>2, Quotient
<1> HIDE DEF y, m
<1>4. m * Seconds + s \in 0 .. Minutes * Seconds - 1
  <2>1. m * Seconds <= (Minutes - 1) * Seconds
    BY <1>1, <1>3
  <2> QED BY <2>1, <1>1, <1>2, <1>3
<1>5. t = (Minutes * Seconds) * y + (m * Seconds + s)
  BY <1>1, <1>2, <1>3
<1>6. Minutes * Seconds \in Nat \ {0}
  BY <1>1
<1>7. h = y
  BY <1>1, <1>3, <1>4, <1>5, <1>6, QuotientUnique
<1>8. y < Hours
  <2>1. ASSUME y >= Hours PROVE FALSE
    <3>1. (Minutes * Seconds) * y >= (Minutes * Seconds) * Hours
      BY <2>1, <1>1, <1>3, <1>6
    <3>2. t < (Minutes * Seconds) * Hours
      BY <1>1, <1>6 DEF Day
    <3>3. (Minutes * Seconds) * y <= t
      BY <1>1, <1>3, <1>4, <1>5, <1>6
    <3> DEFINE u == (Minutes * Seconds) * Hours  v == (Minutes * Seconds) * y
    <3>4. u \in Int /\ v \in Int
      BY <1>1, <1>3
    <3> HIDE DEF u, v
    <3> QED BY <3>1, <3>2, <3>3, <3>4, <1>1 DEF u, v
  <2> QED BY <2>1, <1>1, <1>3
<1>9. (y * Minutes + m) * Seconds + s = t
  BY <1>1, <1>2, <1>3
<1>10. h \in 0 .. 59 /\ m \in 0 .. 59 /\ s \in 0 .. 59 /\ (h * Minutes + m) * Seconds + s = t
  BY <1>1, <1>2, <1>3, <1>7, <1>8, <1>9
<1> QED BY <1>10 DEF HourAt, MinuteAt, x, s, m

-----------------------------------------------------------------------------
(* The registers *)

Time == [hour : Nat, minute : Nat, second : Nat]

ClockType ==
  /\ Modes
  /\ now \in 0 .. Day - 1
  /\ index \in {0, 2, 4}
  /\ got \in [Process -> Time]
  /\ prog \in [Process -> {"idle", "watches", "starts", "sleeps"}]
  /\ extra \in [Process -> Nat]
  /\ target \in [Process -> 0 .. Day - 1]
  /\ clean \in [Process -> BOOLEAN]
  /\ straight \in [Process -> BOOLEAN]
  /\ elapsed \in [Process -> Nat]
  /\ polled \in [Process -> BOOLEAN]

(* A day has a second. *)
LEMMA DayType == Day \in Nat \ {0} /\ MaxSleep \in 1 .. Day - 1
<1>1. Hours \in Nat \ {0} /\ Minutes \in Nat \ {0} /\ Seconds \in Nat \ {0}
  BY ClockAssumption
<1>2. Hours * Minutes \in Nat \ {0}
  BY <1>1
<1>3. (Hours * Minutes) * Seconds \in Nat \ {0}
  BY <1>1, <1>2
<1> QED BY <1>3, ClockAssumption DEF Day

(* What a register gives is a number of two digits. *)
LEMMA PortType ==
  ASSUME now \in 0 .. Day - 1, index \in {0, 2, 4}
  PROVE  /\ translateTime(Port71) \in Nat
         /\ index = 4 => translateTime(Port71) = HourAt(now)
         /\ index = 2 => translateTime(Port71) = MinuteAt(now)
         /\ index = 0 => translateTime(Port71) = now % Seconds
<1>1. HourAt(now) \in 0 .. 99 /\ MinuteAt(now) \in 0 .. 99 /\ now % Seconds \in 0 .. 99
  BY TimeOfDay
<1>2. /\ translateTime(Bcd(HourAt(now))) = HourAt(now)
      /\ translateTime(Bcd(MinuteAt(now))) = MinuteAt(now)
      /\ translateTime(Bcd(now % Seconds)) = now % Seconds
  BY <1>1, BcdBack
<1>3. CASE index = 4
  BY <1>1, <1>2, <1>3 DEF Port71
<1>4. CASE index = 2
  BY <1>1, <1>2, <1>4 DEF Port71
<1>5. CASE index = 0
  BY <1>1, <1>2, <1>5 DEF Port71
<1> QED BY <1>3, <1>4, <1>5

(* One part of a time is replaced. *)
LEMMA TimeParts ==
  ASSUME NEW t \in Time, NEW v \in Nat
  PROVE  /\ [t EXCEPT !.hour = v] \in Time /\ [t EXCEPT !.minute = v] \in Time
         /\ [t EXCEPT !.second = v] \in Time
         /\ [t EXCEPT !.hour = v].hour = v
         /\ [t EXCEPT !.minute = v].minute = v /\ [t EXCEPT !.minute = v].hour = t.hour
         /\ [t EXCEPT !.second = v].second = v /\ [t EXCEPT !.second = v].hour = t.hour
         /\ [t EXCEPT !.second = v].minute = t.minute
BY DEF Time

(* Every variable of the clock keeps its range. *)
LEMMA TypeStep == ClockType /\ [ClockNext]_cvars => ClockType'
<1> SUFFICES ASSUME ClockType, [ClockNext]_cvars PROVE ClockType'
  OBVIOUS
<1> USE DEF ClockType, machine, sleeping, history
<1>t. Midnight \in Time
  BY DEF Midnight, Time
<1>1. CASE Timer
  BY <1>1 DEF Timer, Modes
<1>2. CASE SecondPasses
  <2>1. (now + 1) % Day \in 0 .. Day - 1
    <3>1. now + 1 \in Nat
      BY DayType
    <3> QED BY <3>1, DayType
  <2>2. elapsed' \in [Process -> Nat]
    <3>1. elapsed' = [p \in Process |->
            IF straight[p] /\ elapsed[p] <= MaxSleep THEN elapsed[p] + 1 ELSE elapsed[p]]
      BY <1>2 DEF SecondPasses
    <3>2. elapsed \in [Process -> Nat]
      OBVIOUS
    <3> HIDE DEF ClockType
    <3> QED BY <3>1, <3>2
  <2> QED BY <1>2, <2>1, <2>2 DEF SecondPasses, Modes
<1>3. ASSUME NEW p \in Process, Step(p) PROVE ClockType'
  <2>1. Modes'
    BY ModesStep
  <2>a. CASE Call(p)  BY <2>a, <2>1 DEF Call
  <2>b. CASE Done(p)  BY <2>b, <2>1 DEF Done
  <2>c. CASE Leave(p)  BY <2>c, <2>1 DEF Leave
  <2>d. CASE ComesBack(p)  BY <2>d, <2>1 DEF ComesBack
  <2>e. CASE ReadHours(p)  BY <2>e, <2>1, PortType, TimeParts DEF ReadHours
  <2>f. CASE ReadMinutes(p)  BY <2>f, <2>1, PortType, TimeParts DEF ReadMinutes
  <2>g. CASE SelectSeconds(p)  BY <2>g, <2>1 DEF SelectSeconds
  <2>h. CASE ReadSeconds(p)  BY <2>h, <2>1, PortType, TimeParts DEF ReadSeconds
  <2>i. CASE Sleep(p)  BY <2>i, <2>1, DayType DEF Sleep, ClockCall
  <2>j. CASE Watch(p)  BY <2>j, <2>1 DEF Watch, ClockCall
  <2>k. CASE WatchEnds(p)  BY <2>k, <2>1, <1>t, DayType DEF WatchEnds, Forgets
  <2>l. CASE SleepStarts(p)
    <3>1. got[p].hour \in Nat /\ got[p].minute \in Nat /\ got[p].second \in Nat /\ extra[p] \in Nat
      BY DEF Time
    <3>2. Minutes \in Nat /\ Seconds \in Nat
      BY ClockAssumption
    <3>3. current_time(p) + extra[p] \in Nat
      BY <3>1, <3>2 DEF current_time
    <3>4. (current_time(p) + extra[p]) % Day \in 0 .. Day - 1
      BY <3>3, DayType
    <3> QED BY <2>l, <2>1, <3>4, <1>t DEF SleepStarts, ClockCall
  <2>m. CASE SleepGoesOn(p)
    <3>1. CASE current_time(p) # target[p]
      BY <2>m, <2>1, <1>t, <3>1 DEF SleepGoesOn, ClockCall
    <3>2. CASE current_time(p) = target[p]
      <4>1. 0 \in 0 .. Day - 1
        BY DayType
      <4>2. Forgets(p) /\ prog' = [prog EXCEPT ![p] = "idle"] /\ UNCHANGED <<machine, index>>
        BY <2>m, <3>2 DEF SleepGoesOn
      <4> QED BY <4>1, <4>2, <2>1, <1>t DEF Forgets
    <3> QED BY <3>1, <3>2
  <2> QED BY <1>3, <2>a, <2>b, <2>c, <2>d, <2>e, <2>f, <2>g, <2>h, <2>i, <2>j, <2>k, <2>l, <2>m DEF Step
<1>4. CASE UNCHANGED cvars
  BY <1>4 DEF cvars, Modes
<1> QED BY <1>1, <1>2, <1>3, <1>4 DEF ClockNext

\* The index is where the last register number put it; whoever moved it since
\* a process selected the seconds has not yet selected them itself.
Registers ==
  /\ index = 4 => \E q \in Process : mode[q] = "hours"
  /\ \A p \in Process :
       /\ mode[p] = "hours" => index = 4
       /\ mode[p] = "minutes" => index = 2
       /\ mode[p] = "seconds" /\ index # 0 =>
            \E q \in Process : mode[q] \in {"hours", "minutes", "to seconds"}

(* What a step does to the index. *)
LEMMA StepSelects ==
  ASSUME Modes, NEW p \in Process, Step(p)
  PROVE  \/ /\ index' = index
            /\ mode[p] \notin {"hours", "to seconds"} /\ mode'[p] \notin {"hours", "minutes", "seconds"}
            /\ mode[p] = "minutes" => mode'[p] = "to seconds"
         \/ index' = 4 /\ mode'[p] = "hours" /\ mode[p] \in Open
         \/ index' = 2 /\ mode'[p] = "minutes" /\ mode[p] = "hours"
         \/ index' = 0 /\ mode'[p] = "seconds" /\ mode[p] = "to seconds"
<1> USE DEF Modes, Mode, Open, Runs, Goes, machine, sleeping, history, ClockCall
<1>1. CASE Call(p)  BY <1>1 DEF Call
<1>2. CASE Done(p)  BY <1>2 DEF Done
<1>3. CASE Leave(p)  BY <1>3 DEF Leave
<1>4. CASE ComesBack(p)  BY <1>4 DEF ComesBack
<1>5. CASE ReadHours(p)  BY <1>5 DEF ReadHours
<1>6. CASE ReadMinutes(p)  BY <1>6 DEF ReadMinutes
<1>7. CASE SelectSeconds(p)  BY <1>7 DEF SelectSeconds
<1>8. CASE ReadSeconds(p)  BY <1>8 DEF ReadSeconds
<1>9. CASE Sleep(p)  BY <1>9 DEF Sleep
<1>10. CASE Watch(p)  BY <1>10 DEF Watch
<1>11. CASE WatchEnds(p)  BY <1>11 DEF WatchEnds
<1>12. CASE SleepStarts(p)  BY <1>12 DEF SleepStarts
<1>13. CASE SleepGoesOn(p)  BY <1>13 DEF SleepGoesOn
<1> QED BY <1>1, <1>2, <1>3, <1>4, <1>5, <1>6, <1>7, <1>8, <1>9, <1>10, <1>11, <1>12, <1>13 DEF Step

(* The index register is what the process that runs has written, but for *)
(* the gap between minutes and seconds.                                  *)
LEMMA RegistersStep == ClockType /\ Alone /\ Registers /\ [ClockNext]_cvars => Registers'
<1> SUFFICES ASSUME Modes, Alone, Registers, [ClockNext]_cvars PROVE Registers'
  BY DEF ClockType
<1>1. CASE Timer
  BY <1>1 DEF Timer, Registers, sleeping, history
<1>2. CASE SecondPasses
  BY <1>2 DEF SecondPasses, Registers, sleeping
<1>3. ASSUME NEW p \in Process, Step(p) PROVE Registers'
  <2>1. /\ cpu = p
        /\ \E m \in Mode : mode' = [mode EXCEPT ![p] = m]
    BY <1>3, StepMoves
  <2>2. \A q \in Process : q # p =>
          /\ mode[q] # "hours" /\ mode[q] # "minutes"
          /\ mode'[q] = mode[q]
    BY <2>1 DEF Alone, Modes, Mode, Open
  <2>3. /\ mode[p] \in Mode /\ mode'[p] \in Mode
        /\ index # 4 \/ mode[p] = "hours"
    BY <2>1, <2>2 DEF Registers, Modes, Mode
  <2>4. \/ /\ index' = index
           /\ mode[p] \notin {"hours", "to seconds"} /\ mode'[p] \notin {"hours", "minutes", "seconds"}
           /\ mode[p] = "minutes" => mode'[p] = "to seconds"
        \/ index' = 4 /\ mode'[p] = "hours"
        \/ index' = 2 /\ mode'[p] = "minutes"
        \/ index' = 0 /\ mode'[p] = "seconds"
    BY <1>3, StepSelects
  <2>5. CASE index' = 4 /\ mode'[p] = "hours"
    BY <2>2, <2>5 DEF Registers
  <2>6. CASE index' = 2 /\ mode'[p] = "minutes"
    <3>1. \A q \in Process : mode'[q] # "hours"
      BY <2>2, <2>6
    <3>2. index' # 4 /\ index' = 2
      BY <2>6
    <3>3. \E r \in Process : mode'[r] \in {"hours", "minutes", "to seconds"}
      BY <2>6
    <3> QED BY <3>1, <3>2, <3>3 DEF Registers
  <2>7. CASE index' = 0 /\ mode'[p] = "seconds"
    <3>1. \A q \in Process : mode'[q] # "hours" /\ mode'[q] # "minutes"
      BY <2>2, <2>7
    <3>2. index' # 4 /\ index' = 0
      BY <2>7
    <3> QED BY <3>1, <3>2 DEF Registers
  <2>8. CASE /\ index' = index
             /\ mode[p] \notin {"hours", "to seconds"} /\ mode'[p] \notin {"hours", "minutes", "seconds"}
             /\ mode[p] = "minutes" => mode'[p] = "to seconds"
    <3>1. index' # 4
      BY <2>3, <2>8
    <3>2. ASSUME NEW q \in Process, mode'[q] = "seconds", index # 0
          PROVE  \E r \in Process : mode'[r] \in {"hours", "minutes", "to seconds"}
      <4>1. q # p /\ mode[q] = "seconds"
        BY <2>2, <2>8, <3>2
      <4>2. PICK r \in Process : mode[r] \in {"hours", "minutes", "to seconds"}
        BY <4>1, <3>2 DEF Registers
      <4>3. mode'[r] \in {"hours", "minutes", "to seconds"}
        BY <4>2, <2>2, <2>8
      <4> QED BY <4>3
    <3> QED BY <3>1, <3>2, <2>2, <2>8 DEF Registers
  <2> QED BY <2>4, <2>5, <2>6, <2>7, <2>8
<1>4. CASE UNCHANGED cvars
  BY <1>4 DEF cvars, Registers
<1> QED BY <1>1, <1>2, <1>3, <1>4 DEF ClockNext

-----------------------------------------------------------------------------
(* Readings *)

\* As long as no second has passed, what was read is right.
HasRead(p) == clean[p] =>
  /\ mode[p] \in {"minutes", "to seconds", "seconds", "return"} => got[p].hour = HourAt(now)
  /\ mode[p] \in {"to seconds", "seconds", "return"} => got[p].minute = MinuteAt(now)
  /\ mode[p] = "return" => got[p].second = now % Seconds

Readings == \A p \in Process : HasRead(p)

(* A step of a process reads one register or none. *)
LEMMA StepReads ==
  ASSUME ClockType, Registers, Readings, NEW p \in Process, Step(p)
  PROVE  /\ now' = now
         /\ \A q \in Process \ {p} : got'[q] = got[q] /\ clean'[q] = clean[q] /\ mode'[q] = mode[q]
         /\ HasRead(p)'
<1> USE DEF ClockType, Modes, Mode, Runs, Goes, machine, sleeping, history, ClockCall, Readings, HasRead
<1>t. /\ translateTime(Port71) \in Nat
      /\ index = 4 => translateTime(Port71) = HourAt(now)
      /\ index = 2 => translateTime(Port71) = MinuteAt(now)
      /\ index = 0 => translateTime(Port71) = now % Seconds
  BY PortType
<1>1. CASE Call(p)  BY <1>1 DEF Call
<1>2. CASE Done(p)  BY <1>2 DEF Done
<1>3. CASE Leave(p)  BY <1>3 DEF Leave
<1>4. CASE ComesBack(p)  BY <1>4 DEF ComesBack
<1>5. CASE ReadHours(p)
  <2>1. index = 4
    BY <1>5 DEF ReadHours, Registers
  <2> HIDE DEF ClockType, Readings, HasRead
  <2>2. /\ got' = [got EXCEPT ![p] = [got[p] EXCEPT !.hour = translateTime(Port71)]]
        /\ got \in [Process -> Time] /\ got[p] \in Time
    BY <1>5 DEF ReadHours, ClockType
  <2>3. /\ got'[p] = [got[p] EXCEPT !.hour = translateTime(Port71)]
        /\ \A q \in Process \ {p} : got'[q] = got[q]
    BY <2>2
  <2>4. got'[p].hour = HourAt(now)
    BY <2>1, <2>2, <2>3, <1>t, TimeParts
  <2> QED BY <1>5, <2>3, <2>4 DEF ReadHours, ClockType, Readings, HasRead
<1>6. CASE ReadMinutes(p)
  <2>1. index = 2
    BY <1>6 DEF ReadMinutes, Registers
  <2> HIDE DEF ClockType, Readings, HasRead
  <2>2. /\ got' = [got EXCEPT ![p] = [got[p] EXCEPT !.minute = translateTime(Port71)]]
        /\ got \in [Process -> Time] /\ got[p] \in Time
    BY <1>6 DEF ReadMinutes, ClockType
  <2>3. /\ got'[p] = [got[p] EXCEPT !.minute = translateTime(Port71)]
        /\ \A q \in Process \ {p} : got'[q] = got[q]
    BY <2>2
  <2>4. got'[p].minute = MinuteAt(now) /\ got'[p].hour = got[p].hour
    BY <2>1, <2>2, <2>3, <1>t, TimeParts
  <2> QED BY <1>6, <2>3, <2>4 DEF ReadMinutes, ClockType, Readings, HasRead
<1>7. CASE SelectSeconds(p)  BY <1>7 DEF SelectSeconds
<1>8. CASE ReadSeconds(p)
  <2> HIDE DEF ClockType, Readings, HasRead
  <2>2. /\ got' = [got EXCEPT ![p] = [got[p] EXCEPT !.second = translateTime(Port71)]]
        /\ got \in [Process -> Time] /\ got[p] \in Time
    BY <1>8 DEF ReadSeconds, ClockType
  <2>3. /\ got'[p] = [got[p] EXCEPT !.second = translateTime(Port71)]
        /\ \A q \in Process \ {p} : got'[q] = got[q]
    BY <2>2
  <2>4. /\ index = 0 => got'[p].second = now % Seconds
        /\ got'[p].hour = got[p].hour /\ got'[p].minute = got[p].minute
    BY <2>2, <2>3, <1>t, TimeParts
  <2> QED BY <1>8, <2>3, <2>4 DEF ReadSeconds, ClockType, Readings, HasRead
<1>9. CASE Sleep(p)  BY <1>9 DEF Sleep
<1>10. CASE Watch(p)  BY <1>10 DEF Watch
<1>11. CASE WatchEnds(p)  BY <1>11 DEF WatchEnds, Forgets
<1>12. CASE SleepStarts(p)  BY <1>12 DEF SleepStarts
<1>13. CASE SleepGoesOn(p)  BY <1>13 DEF SleepGoesOn, Forgets
<1> QED BY <1>1, <1>2, <1>3, <1>4, <1>5, <1>6, <1>7, <1>8, <1>9, <1>10, <1>11, <1>12, <1>13 DEF Step

(* What was read so far is what the clock showed when it was read. *)
LEMMA ReadingsStep == ClockType /\ Registers /\ Readings /\ [ClockNext]_cvars => Readings'
<1> SUFFICES ASSUME ClockType, Registers, Readings, [ClockNext]_cvars PROVE Readings'
  OBVIOUS
<1>1. CASE Timer
  BY <1>1 DEF Timer, Readings, HasRead, sleeping, history
<1>2. CASE SecondPasses
  BY <1>2 DEF SecondPasses, Readings, HasRead
<1>3. ASSUME NEW p \in Process, Step(p) PROVE Readings'
  <2> SUFFICES ASSUME NEW q \in Process PROVE HasRead(q)'
    BY DEF Readings
  <2>1. CASE q = p
    BY <2>1, <1>3, StepReads
  <2>2. CASE q # p
    <3>1. UNCHANGED <<now, got[q], clean[q], mode[q]>>
      BY <2>2, <1>3, StepReads
    <3>2. HasRead(q)
      BY DEF Readings
    <3> QED BY <3>1, <3>2 DEF HasRead
  <2> QED BY <2>1, <2>2
<1>4. CASE UNCHANGED cvars
  BY <1>4 DEF cvars, Readings, HasRead
<1> QED BY <1>1, <1>2, <1>3, <1>4 DEF ClockNext

ClockInv == ClockType /\ Alone /\ Registers /\ Readings

(* Where the time was read within this second, it is this second. *)
LEMMA ReadNow ==
  ASSUME ClockInv, NEW p \in Process, mode[p] = "return", clean[p]
  PROVE  current_time(p) = now
<1>1. got[p].hour = HourAt(now) /\ got[p].minute = MinuteAt(now) /\ got[p].second = now % Seconds
  BY DEF ClockInv, Readings, HasRead
<1> QED BY <1>1, TimeOfDay DEF current_time, ClockInv, ClockType

(* The invariant when load_idt has run; before that nothing of it moves. *)
LEMMA ClockBegins == Init => ClockInv
<1> SUFFICES ASSUME Init PROVE ClockInv
  OBVIOUS
<1>1. ClockType
  <2>1. Midnight \in Time
    BY DEF Midnight, Time
  <2>2. 0 \in 0 .. Day - 1
    BY DayType
  <2> QED BY <2>1, <2>2 DEF Init, ClockInit, ClockType, Modes, Mode
<1> QED BY <1>1 DEF Init, ClockInit, ClockInv, Alone, Mode, Open, Registers, Readings, HasRead

(* The invariant from step to step, with Boot before it. *)
LEMMA ClockGoesOn == ClockInv /\ [Next]_vars => ClockInv'
BY TypeStep, AloneStep, RegistersStep, ReadingsStep DEF Next, vars, Works, ClockInv, ClockType

(* Each value is read from its own register, and a reading during which no *)
(* second passed is the time of the day.                                   *)
THEOREM ReadsTheTimeHolds == Spec => []ReadsTheTime
<1>1. ClockInv => ReadsTheTime
  <2> SUFFICES ASSUME ClockInv, NEW p \in Process
               PROVE  /\ mode[p] = "hours" => index = 4 /\ cpu = p
                      /\ mode[p] = "minutes" => index = 2 /\ cpu = p
                      /\ Runs(p, "seconds") /\ index # 0 =>
                           index = 2 /\ \E q \in Process \ {p} : mode[q] = "to seconds"
                      /\ mode[p] = "return" /\ clean[p] => current_time(p) = now
    BY DEF ReadsTheTime, ReadsItsRegister
  <2> USE DEF ClockInv
  <2>1. \A q \in Process : mode[q] \in {"hours", "minutes"} => cpu = q
    BY DEF Alone, Mode, Open
  <2>2. ASSUME Runs(p, "seconds"), index # 0
        PROVE  index = 2 /\ \E q \in Process \ {p} : mode[q] = "to seconds"
    <3>1. cpu = p /\ mode[p] = "seconds"
      BY <2>2 DEF Runs
    <3>2. \A q \in Process : mode[q] # "hours" /\ mode[q] # "minutes"
      BY <2>1, <3>1
    <3>3. index = 2
      BY <3>2, <2>2 DEF Registers, ClockType
    <3>4. \E q \in Process : mode[q] = "to seconds"
      BY <3>1, <3>2, <2>2 DEF Registers
    <3> QED BY <3>1, <3>3, <3>4
  <2> QED BY <2>1, <2>2, ReadNow DEF Registers
<1> QED BY <1>1, ClockBegins, ClockGoesOn, PTL DEF Spec

-----------------------------------------------------------------------------
(* Sleep *)

\* A sleep from a clean reading ends in the second of its target, before
\* another reading, or its last reading is that of that second.
Due(p) ==
  \/ /\ elapsed[p] <= extra[p]
     /\ \/ target[p] = now + extra[p] - elapsed[p]
        \/ target[p] = now + extra[p] - elapsed[p] - Day
     /\ elapsed[p] = extra[p] /\ polled[p] => mode[p] = "return" /\ clean[p]
  \/ /\ elapsed[p] = extra[p] + 1
     /\ mode[p] = "return" /\ ~ clean[p] /\ current_time(p) = target[p]

SleepsRight(p) ==
  /\ straight[p] => prog[p] = "sleeps" /\ Due(p)
  /\ ~ straight[p] => elapsed[p] = 0
  /\ prog[p] \in {"starts", "sleeps"} =>
       extra[p] \in 1 .. MaxSleep /\ mode[p] \in {"hours", "minutes", "to seconds", "seconds", "return"}

Sleeps == \A p \in Process : SleepsRight(p)

(* What one process does concerns no other. *)
LEMMA StepOthers ==
  ASSUME ClockType, NEW p \in Process, Step(p), NEW q \in Process, q # p
  PROVE  /\ now' = now /\ mode'[q] = mode[q] /\ got'[q] = got[q] /\ prog'[q] = prog[q]
         /\ extra'[q] = extra[q] /\ target'[q] = target[q] /\ clean'[q] = clean[q]
         /\ straight'[q] = straight[q] /\ elapsed'[q] = elapsed[q] /\ polled'[q] = polled[q]
<1> USE DEF ClockType, Modes, Goes, machine, sleeping, history, ClockCall
<1>1. CASE Call(p)  BY <1>1 DEF Call
<1>2. CASE Done(p)  BY <1>2 DEF Done
<1>3. CASE Leave(p)  BY <1>3 DEF Leave
<1>4. CASE ComesBack(p)  BY <1>4 DEF ComesBack
<1>5. CASE ReadHours(p)  BY <1>5 DEF ReadHours
<1>6. CASE ReadMinutes(p)  BY <1>6 DEF ReadMinutes
<1>7. CASE SelectSeconds(p)  BY <1>7 DEF SelectSeconds
<1>8. CASE ReadSeconds(p)  BY <1>8 DEF ReadSeconds
<1>9. CASE Sleep(p)  BY <1>9 DEF Sleep
<1>10. CASE Watch(p)  BY <1>10 DEF Watch
<1>11. CASE WatchEnds(p)  BY <1>11 DEF WatchEnds, Forgets
<1>12. CASE SleepStarts(p)  BY <1>12 DEF SleepStarts
<1>13. CASE SleepGoesOn(p)  BY <1>13 DEF SleepGoesOn, Forgets
<1> QED BY <1>1, <1>2, <1>3, <1>4, <1>5, <1>6, <1>7, <1>8, <1>9, <1>10, <1>11, <1>12, <1>13 DEF Step

(* The target of a sleep lies at most a day ahead. *)
LEMMA TargetOfSleep ==
  ASSUME NEW t \in 0 .. Day - 1, NEW n \in 1 .. MaxSleep
  PROVE  (t + n) % Day = t + n \/ (t + n) % Day = t + n - Day
<1>1. Day \in Nat \ {0} /\ n < Day /\ t + n \in Nat
  BY DayType
<1>2. (t + n) \div Day \in Nat /\ (t + n) % Day \in 0 .. Day - 1
      /\ t + n = Day * ((t + n) \div Day) + ((t + n) % Day)
  BY <1>1, Quotient
<1> DEFINE a == (t + n) \div Day  r == (t + n) % Day
<1>3. a \in Nat /\ r \in 0 .. Day - 1 /\ t + n = Day * a + r
  BY <1>2
<1> HIDE DEF a, r
<1>4. a = 0 \/ a = 1
  <2>1. ASSUME a >= 2 PROVE FALSE
    <3>1. Day * a >= Day * 2
      BY <2>1, <1>1, <1>3
    <3> QED BY <3>1, <1>1, <1>3
  <2> QED BY <2>1, <1>3
<1>5. r = t + n \/ r = t + n - Day
  BY <1>1, <1>3, <1>4
<1> QED BY <1>5 DEF r

(* So it does when a second passes, at midnight too. *)
LEMMA TargetApproaches ==
  ASSUME NEW t \in 0 .. Day - 1, NEW d \in 1 .. MaxSleep, NEW x \in 0 .. Day - 1,
         x = t + d \/ x = t + d - Day
  PROVE  x = ((t + 1) % Day) + (d - 1) \/ x = ((t + 1) % Day) + (d - 1) - Day
<1>1. MaxSleep >= 1 /\ MaxSleep \in Int /\ Day \in Int
  BY DayType
<1>2. (t + 1) % Day = t + 1 \/ (t + 1) % Day = t + 1 - Day
  BY <1>1, TargetOfSleep
<1>3. (t + 1) % Day \in 0 .. Day - 1
  <2>1. t + 1 \in Nat
    BY <1>1
  <2> QED BY <2>1, DayType
<1> QED BY <1>1, <1>2, <1>3

(* A step of a process keeps its own sleep on course. *)
LEMMA OwnSleep ==
  ASSUME ClockInv, Sleeps, NEW p \in Process, Step(p)
  PROVE  SleepsRight(p)'
<1>t. ClockType /\ SleepsRight(p)
  BY DEF ClockInv, Sleeps
<1>m. MaxSleep \in Nat /\ Day \in Int
  BY DayType
<1>n. now \in 0 .. Day - 1 /\ elapsed[p] \in Nat /\ extra[p] \in Nat /\ target[p] \in 0 .. Day - 1
  BY <1>t DEF ClockType
<1> USE DEF Modes, Mode, Runs, Goes, machine, sleeping, history, ClockCall, SleepsRight, Due
<1>1. CASE Call(p)  BY <1>1, <1>t DEF Call, ClockType
<1>2. CASE Done(p)  BY <1>2, <1>t DEF Done, ClockType
<1>3. CASE Leave(p)  BY <1>3, <1>t DEF Leave, ClockType
<1>4. CASE ComesBack(p)  BY <1>4, <1>t DEF ComesBack, ClockType
<1>5. CASE ReadHours(p)  BY <1>5, <1>t DEF ReadHours, ClockType
<1>6. CASE ReadMinutes(p)  BY <1>6, <1>t DEF ReadMinutes, ClockType
<1>7. CASE SelectSeconds(p)  BY <1>7, <1>t DEF SelectSeconds, ClockType
<1>8. CASE ReadSeconds(p)  BY <1>8, <1>t DEF ReadSeconds, ClockType
<1>9. CASE Sleep(p)  BY <1>9, <1>t, <1>m DEF Sleep, ClockType
<1>10. CASE Watch(p)  BY <1>10, <1>t DEF Watch, ClockType
<1>11. CASE WatchEnds(p)  BY <1>11, <1>t DEF WatchEnds, Forgets, ClockType
<1>12. CASE SleepStarts(p)
  <2>1. /\ prog'[p] = "sleeps" /\ mode'[p] = "hours" /\ straight'[p] = clean[p]
        /\ extra'[p] = extra[p] /\ extra[p] \in 1 .. MaxSleep /\ extra[p] \in Nat
        /\ elapsed'[p] = 0 /\ now' = now /\ polled' = polled
        /\ target'[p] = (current_time(p) + extra[p]) % Day
    BY <1>12, <1>t DEF SleepStarts, ClockType
  <2>2. now \in 0 .. Day - 1 /\ Day \in Int
    BY <1>n, <1>m
  <2>3. ASSUME clean[p]
        PROVE  target'[p] = now + extra[p] - 0 \/ target'[p] = now + extra[p] - 0 - Day
    <3>1. target'[p] = (now + extra[p]) % Day
      BY <2>1, <2>3, <1>12, ReadNow DEF SleepStarts
    <3>2. target'[p] = now + extra[p] \/ target'[p] = now + extra[p] - Day
      BY <3>1, <2>1, <2>2, TargetOfSleep
    <3> QED BY <3>2, <2>1, <2>2
  <2> QED BY <2>1, <2>3
<1>13. CASE SleepGoesOn(p)
  <2>1. CASE current_time(p) = target[p]
    <3>1. /\ prog'[p] = "idle" /\ straight'[p] = FALSE /\ elapsed'[p] = 0
      <4>1. Forgets(p) /\ prog' = [prog EXCEPT ![p] = "idle"]
        BY <1>13, <2>1 DEF SleepGoesOn
      <4> QED BY <4>1, <1>t DEF Forgets, ClockType
    <3> QED BY <3>1
  <2>2. CASE current_time(p) # target[p]
    <3>1. ~ (elapsed[p] = extra[p] /\ polled[p] /\ straight[p])
      <4> SUFFICES ASSUME elapsed[p] = extra[p], polled[p], straight[p] PROVE FALSE
        OBVIOUS
      <4>1. clean[p] /\ (target[p] = now \/ target[p] = now - Day)
        <5>1. Due(p)
          BY <1>t
        <5>2. elapsed[p] # extra[p] + 1
          BY <1>n
        <5>3. clean[p] /\ (target[p] = now + extra[p] - elapsed[p] \/ target[p] = now + extra[p] - elapsed[p] - Day)
          BY <5>1, <5>2
        <5> QED BY <5>3, <1>n, <1>m
      <4> QED BY <4>1, <1>n, <1>m, <2>2, <1>13, ReadNow DEF SleepGoesOn
    <3> QED BY <3>1, <1>13, <1>t, <2>2 DEF SleepGoesOn, ClockType
  <2> QED BY <2>1, <2>2
<1> QED BY <1>1, <1>2, <1>3, <1>4, <1>5, <1>6, <1>7, <1>8, <1>9, <1>10, <1>11, <1>12, <1>13 DEF Step

(* The clock goes on: nobody misses the second it waits for. *)
LEMMA SleepSecond ==
  ASSUME ClockInv, Sleeps, SecondPasses, NEW p \in Process
  PROVE  SleepsRight(p)'
<1>t. SleepsRight(p)
  BY DEF Sleeps
<1>m. MaxSleep \in Nat /\ Day \in Int
  BY DayType
<1>n. now \in 0 .. Day - 1 /\ elapsed[p] \in Nat /\ extra[p] \in Nat /\ target[p] \in 0 .. Day - 1
  BY DEF ClockInv, ClockType
<1>1. /\ mode[p] = "return" => clean[p]
      /\ prog[p] = "sleeps" => polled[p]
      /\ now' = (now + 1) % Day
      /\ clean'[p] = FALSE /\ polled'[p] = FALSE
      /\ elapsed'[p] = IF straight[p] /\ elapsed[p] <= MaxSleep THEN elapsed[p] + 1 ELSE elapsed[p]
      /\ mode' = mode /\ got' = got /\ prog' = prog /\ extra' = extra /\ target' = target /\ straight' = straight
  BY DEF SecondPasses, sleeping
<1>2. CASE ~ straight[p]
  BY <1>1, <1>2, <1>t DEF SleepsRight
<1>3. CASE straight[p]
  <2>1. prog[p] = "sleeps" /\ Due(p) /\ extra[p] \in 1 .. MaxSleep
    BY <1>3, <1>t DEF SleepsRight
  <2>2. /\ elapsed[p] <= extra[p]
        /\ \/ target[p] = now + extra[p] - elapsed[p]
           \/ target[p] = now + extra[p] - elapsed[p] - Day
        /\ elapsed[p] = extra[p] /\ polled[p] => mode[p] = "return" /\ clean[p]
    BY <2>1, <1>1 DEF Due
  <2>3. elapsed'[p] = elapsed[p] + 1
    BY <1>1, <1>3, <2>1, <2>2, <1>m, <1>n
  <2>4. Due(p)'
    <3>1. CASE elapsed[p] < extra[p]
      <4> DEFINE d == extra[p] - elapsed[p]
      <4>1. d \in 1 .. MaxSleep
        BY <3>1, <2>1, <1>m, <1>n
      <4>2. target[p] = now + d \/ target[p] = now + d - Day
        BY <2>2, <1>m, <1>n
      <4>3. target[p] = ((now + 1) % Day) + (d - 1) \/ target[p] = ((now + 1) % Day) + (d - 1) - Day
        BY <4>1, <4>2, <1>n, TargetApproaches
      <4>4. d - 1 = extra[p] - elapsed'[p] /\ elapsed'[p] <= extra[p] /\ d - 1 \in Int
        BY <2>3, <3>1, <1>n
      <4> HIDE DEF d
      <4>5. (now + 1) % Day \in Int
        BY <1>m, <1>n
      <4>6. \/ target'[p] = now' + extra'[p] - elapsed'[p]
            \/ target'[p] = now' + extra'[p] - elapsed'[p] - Day
        BY <1>1, <4>3, <4>4, <4>5, <1>m, <1>n, <2>3
      <4> QED BY <4>4, <4>6, <1>1 DEF Due
    <3>2. CASE elapsed[p] = extra[p]
      <4>1. mode[p] = "return" /\ clean[p]
        BY <2>1, <2>2, <3>2, <1>1
      <4>2. current_time(p) = now
        BY <4>1, ReadNow
      <4>3. target[p] = now
        BY <2>2, <3>2, <1>m, <1>n
      <4>4. current_time(p)' = target'[p]
        BY <4>2, <4>3, <1>1 DEF current_time
      <4>5. elapsed'[p] = extra'[p] + 1 /\ mode'[p] = "return" /\ clean'[p] = FALSE
        BY <4>1, <3>2, <2>3, <1>1
      <4> QED BY <4>4, <4>5 DEF Due
    <3> QED BY <3>1, <3>2, <2>2, <1>n
  <2> QED BY <2>1, <2>4, <1>1, <1>3, <1>t DEF SleepsRight
<1> QED BY <1>2, <1>3

(* The seconds a process has slept follow from where its readings stand. *)
LEMMA SleepsStep == ClockInv /\ Sleeps /\ [ClockNext]_cvars => Sleeps'
<1> SUFFICES ASSUME ClockInv, Sleeps, [ClockNext]_cvars, NEW p \in Process PROVE SleepsRight(p)'
  BY DEF Sleeps
<1>t. SleepsRight(p)
  BY DEF Sleeps
<1>1. CASE Timer
  BY <1>1, <1>t DEF Timer, SleepsRight, Due, current_time, sleeping, history
<1>2. CASE SecondPasses
  BY <1>2, SleepSecond
<1>3. ASSUME NEW q \in Process, Step(q) PROVE SleepsRight(p)'
  <2>1. CASE q = p
    BY <1>3, <2>1, OwnSleep
  <2>2. CASE q # p
    <3>1. /\ now' = now /\ mode'[p] = mode[p] /\ got'[p] = got[p] /\ prog'[p] = prog[p]
          /\ extra'[p] = extra[p] /\ target'[p] = target[p] /\ clean'[p] = clean[p]
          /\ straight'[p] = straight[p] /\ elapsed'[p] = elapsed[p] /\ polled'[p] = polled[p]
      BY <1>3, <2>2, StepOthers DEF ClockInv
    <3> QED BY <3>1, <1>t DEF SleepsRight, Due, current_time
  <2> QED BY <2>1, <2>2
<1>4. CASE UNCHANGED cvars
  BY <1>4, <1>t DEF cvars, SleepsRight, Due, current_time
<1> QED BY <1>1, <1>2, <1>3, <1>4 DEF ClockNext

(* sleep(n) between such readings is n seconds long, midnight included. *)
THEOREM SleepsAsAskedHolds == Spec => SleepsAsAsked
<1>1. Init => Sleeps
  BY DEF Init, ClockInit, Sleeps, SleepsRight
<1>2. ClockInv /\ Sleeps /\ [Next]_vars => Sleeps'
  BY SleepsStep DEF Next, vars, Works
<1>3. ClockInv /\ Sleeps /\ [Next]_vars =>
        [\A p \in Process :
           prog[p] = "sleeps" /\ prog'[p] = "idle" /\ straight[p] /\ clean[p] => elapsed[p] = extra[p]]_cvars
  <2> SUFFICES ASSUME ClockInv, Sleeps, ClockNext, NEW p \in Process,
                      prog[p] = "sleeps", prog'[p] = "idle", straight[p], clean[p]
               PROVE  elapsed[p] = extra[p]
    BY DEF Next, vars, Works
  <2>1. SleepGoesOn(p)
    <3>1. prog'[p] # prog[p]
      OBVIOUS
    <3>2. ~ Timer /\ ~ SecondPasses
      BY <3>1 DEF Timer, SecondPasses, sleeping
    <3>3. Step(p)
      BY <3>1, <3>2, StepOthers DEF ClockNext, ClockInv
    <3>4. mode[p] \in {"hours", "minutes", "to seconds", "seconds", "return"}
      BY DEF Sleeps, SleepsRight
    <3>5. ~ (Call(p) \/ Done(p) \/ Leave(p) \/ ComesBack(p) \/ Sleep(p) \/ Watch(p))
      BY <3>4 DEF Call, Done, Leave, ComesBack, Sleep, Watch, Runs
    <3>6. ~ (ReadHours(p) \/ ReadMinutes(p) \/ SelectSeconds(p) \/ ReadSeconds(p))
      BY <3>1 DEF ReadHours, ReadMinutes, SelectSeconds, ReadSeconds, sleeping
    <3>7. ~ (WatchEnds(p) \/ SleepStarts(p))
      BY DEF WatchEnds, SleepStarts
    <3> QED BY <3>3, <3>5, <3>6, <3>7 DEF Step
  <2>2. mode[p] = "return" /\ current_time(p) = target[p]
    BY <2>1 DEF SleepGoesOn, Runs, sleeping
  <2>3. target[p] = now
    BY <2>2, ReadNow
  <2>4. /\ elapsed[p] <= extra[p]
        /\ target[p] = now + extra[p] - elapsed[p] \/ target[p] = now + extra[p] - elapsed[p] - Day
        /\ extra[p] \in 1 .. MaxSleep
    BY DEF Sleeps, SleepsRight, Due
  <2>5. elapsed[p] \in Nat /\ now \in 0 .. Day - 1 /\ MaxSleep \in 1 .. Day - 1 /\ Day \in Int
    BY DayType DEF ClockInv, ClockType
  <2> QED BY <2>3, <2>4, <2>5
<1> QED BY <1>1, <1>2, <1>3, ClockBegins, ClockGoesOn, PTL DEF Spec, SleepsAsAsked

-----------------------------------------------------------------------------
(* From the packer to load_idt *)

\* What the packer leaves behind the kernel: how many modules there are, and
\* each of the two behind its size.
Packed(m, f, g) ==
  /\ \A c \in 0 .. endOfKernelBinary - 1 : m[c] = Kernel[c + 1]
  /\ m[endOfKernelBinary] = 2
  /\ m[endOfKernelBinary + 1] = Len(f)
  /\ \A k \in 1 .. Len(f) : m[endOfKernelBinary + 1 + k] = f[k]
  /\ m[endOfKernelBinary + 2 + Len(f)] = Len(g)
  /\ \A k \in 1 .. Len(g) : m[endOfKernelBinary + 2 + Len(f) + k] = g[k]

\* The module f is where it belongs.
Copied(m, a, f) == \A k \in 1 .. Len(f) : m[a + k - 1] = f[k]

\* Nothing has been written into the image, and what is loaded is whole.
BootInv ==
  /\ files \in File \X File
  /\ stage = "load" =>
       /\ Packed(mem, files[1], files[2])
       /\ loaded \in 0 .. 2
       /\ loaded = 0 => current = endOfKernelBinary + 1
       /\ loaded = 1 => current = endOfKernelBinary + 2 + Len(files[1])
       /\ loaded >= 1 => Copied(mem, moduleAddresses[1], files[1])
       /\ loaded >= 2 => Copied(mem, moduleAddresses[2], files[2])
  /\ ModulesIntact

(* Two sequences, flattened, are one behind the other.                         *)
LEMMA FlattenTwo ==
  ASSUME NEW s, NEW t
  PROVE  FlattenSeq(<<s, t>>) = s \o t
<1> DEFINE u == <<s, t>>
           Body(h, i) == IF i = 1 THEN u[i] ELSE h[i - 1] \o u[i]
           g == [i \in 1 .. 2 |-> IF i = 1 THEN s ELSE s \o t]
           flatten == CHOOSE h : h = [i \in 1 .. 2 |-> Body(h, i)]
<1>1. Len(u) = 2 /\ u[1] = s /\ u[2] = t
  OBVIOUS
<1>2. FlattenSeq(u) = flatten[2]
  BY <1>1 DEF FlattenSeq
<1> HIDE DEF u
<1>3. g = [i \in 1 .. 2 |-> Body(g, i)]
  BY <1>1
<1>4. flatten = [i \in 1 .. 2 |-> Body(flatten, i)]
  BY <1>3
<1> HIDE DEF flatten
<1>5. flatten[1] = s
  BY <1>1, <1>4
<1>6. flatten[2] = flatten[1] \o t
  <2>1. 2 \in 1 .. 2 /\ 2 # 1 /\ 2 - 1 = 1
    OBVIOUS
  <2>2. flatten[2] = Body(flatten, 2)
    BY <1>4, <2>1
  <2>3. Body(flatten, 2) = flatten[1] \o u[2]
    BY <2>1
  <2> QED BY <1>1, <2>2, <2>3
<1> QED BY <1>2, <1>5, <1>6 DEF u

(* A function on 1 .. 2 is a pair.                                             *)
LEMMA Pair ==
  ASSUME NEW z, NEW a, NEW b, z = [i \in 1 .. 2 |-> z[i]], z[1] = a, z[2] = b
  PROVE  z = <<a, b>>
<1> DEFINE p == <<a, b>>
<1>1. p = [i \in 1 .. 2 |-> p[i]] /\ p[1] = a /\ p[2] = b
  OBVIOUS
<1> HIDE DEF p
<1>2. \A i \in 1 .. 2 : z[i] = p[i]
  <2>1. \A i \in 1 .. 2 : i = 1 \/ i = 2
    OBVIOUS
  <2> QED BY <1>1, <2>1
<1>3. z = p
  BY <1>1, <1>2
<1> QED BY <1>3 DEF p

(* What stands where in two sequences put together.                            *)
LEMMA Joined ==
  ASSUME NEW s \in Seq(Nat), NEW t \in Seq(Nat)
  PROVE  /\ s \o t \in Seq(Nat) /\ Len(s \o t) = Len(s) + Len(t)
         /\ \A k \in 1 .. Len(s) : (s \o t)[k] = s[k]
         /\ \A k \in 1 .. Len(t) : (s \o t)[Len(s) + k] = t[k]
OBVIOUS

(* Where everything lies, for two modules that fit.                            *)
LEMMA Fits ==
  ASSUME NEW f \in File, NEW g \in File
  PROVE  /\ f \in Seq(Nat) /\ g \in Seq(Nat) /\ Kernel \in Seq(Nat)
         /\ {Len(f), Len(g), bss, endOfKernel, MemorySize, endOfKernelBinary} \subseteq Nat
         /\ {moduleAddresses[1], moduleAddresses[2]} \subseteq Nat
         /\ endOfKernelBinary <= bss /\ bss <= endOfKernel /\ endOfKernel <= moduleAddresses[1]
         /\ endOfKernelBinary + 3 + Len(f) + Len(g) <= moduleAddresses[1]
         /\ moduleAddresses[1] + Len(f) <= moduleAddresses[2]
         /\ moduleAddresses[2] + Len(g) <= MemorySize
BY BootAssumption DEF endOfKernelBinary

(* What the packer wrote is what the kernel reads.                             *)
LEMMA BootStarts == BootInit => BootInv
<1> SUFFICES ASSUME BootInit PROVE BootInv
  OBVIOUS
<1> DEFINE f == files[1]
           g == files[2]
           K == endOfKernelBinary
           image == buildImage(files)
<1>1. files = <<f, g>> /\ f \in File /\ g \in File
  BY DEF BootInit
<1>2. /\ f \in Seq(Nat) /\ g \in Seq(Nat) /\ Kernel \in Seq(Nat)
      /\ Len(f) \in Nat /\ Len(g) \in Nat /\ K \in Nat /\ K = Len(Kernel)
      /\ K + 3 + Len(f) + Len(g) <= MemorySize /\ MemorySize \in Nat
  <2> HIDE DEF f, g
  <2>1. /\ f \in Seq(Nat) /\ g \in Seq(Nat) /\ Kernel \in Seq(Nat)
        /\ {Len(f), Len(g), MemorySize, K, moduleAddresses[1], moduleAddresses[2]} \subseteq Nat
        /\ K + 3 + Len(f) + Len(g) <= moduleAddresses[1]
        /\ moduleAddresses[1] + Len(f) <= moduleAddresses[2]
        /\ moduleAddresses[2] + Len(g) <= MemorySize
    BY <1>1, Fits
  <2> QED BY <2>1 DEF endOfKernelBinary
<1>3. image = Kernel \o <<2>> \o ((<<Len(f)>> \o f) \o (<<Len(g)>> \o g))
  <2> DEFINE sized == [i \in DOMAIN files |-> <<Len(files[i])>> \o files[i]]
  <2>1. DOMAIN files = 1 .. 2 /\ Len(files) = 2
    BY <1>1
  <2>2. sized = <<<<Len(f)>> \o f, <<Len(g)>> \o g>>
    <3>1. sized[1] = <<Len(f)>> \o f /\ sized[2] = <<Len(g)>> \o g
      BY <2>1
    <3>2. sized = [i \in 1 .. 2 |-> sized[i]]
      BY <2>1
    <3> HIDE DEF sized, f, g
    <3> QED BY <3>1, <3>2, Pair
  <2>3. FlattenSeq(sized) = (<<Len(f)>> \o f) \o (<<Len(g)>> \o g)
    BY <2>2, FlattenTwo
  <2> QED BY <2>1, <2>3 DEF buildImage
<1> HIDE DEF f, g, K, image
<1> DEFINE a == <<Len(f)>> \o f
           b == <<Len(g)>> \o g
           h == Kernel \o <<2>>
<1>4. /\ a \in Seq(Nat) /\ Len(a) = Len(f) + 1
      /\ a[1] = Len(f) /\ \A k \in 1 .. Len(f) : a[k + 1] = f[k]
  BY <1>2
<1>5. /\ b \in Seq(Nat) /\ Len(b) = Len(g) + 1
      /\ b[1] = Len(g) /\ \A k \in 1 .. Len(g) : b[k + 1] = g[k]
  BY <1>2
<1>6. /\ h \in Seq(Nat) /\ Len(h) = K + 1
      /\ h[K + 1] = 2 /\ \A k \in 1 .. K : h[k] = Kernel[k]
  BY <1>2
<1>7. image = h \o (a \o b)
  BY <1>3
<1> HIDE DEF a, b, h
<1> DEFINE ab == a \o b
<1>8. /\ ab \in Seq(Nat) /\ Len(ab) = Len(f) + Len(g) + 2
      /\ \A k \in 1 .. Len(f) + 1 : ab[k] = a[k]
      /\ \A k \in 1 .. Len(g) + 1 : ab[Len(f) + 1 + k] = b[k]
  <2>1. /\ a \o b \in Seq(Nat) /\ Len(a \o b) = Len(a) + Len(b)
        /\ \A k \in 1 .. Len(a) : (a \o b)[k] = a[k]
        /\ \A k \in 1 .. Len(b) : (a \o b)[Len(a) + k] = b[k]
    BY <1>4, <1>5, Joined
  <2>2. Len(a) = Len(f) + 1 /\ Len(b) = Len(g) + 1
    BY <1>4, <1>5
  <2>3. Len(ab) = Len(f) + Len(g) + 2
    BY <1>2, <2>1, <2>2
  <2>4. \A k \in 1 .. Len(f) + 1 : ab[k] = a[k]
    BY <2>1, <2>2
  <2>5. \A k \in 1 .. Len(g) + 1 : ab[Len(f) + 1 + k] = b[k]
    BY <2>1, <2>2
  <2> QED BY <2>1, <2>3, <2>4, <2>5
<1> HIDE DEF ab
<1>9. /\ Len(image) = K + 3 + Len(f) + Len(g)
      /\ \A k \in 1 .. K + 1 : image[k] = h[k]
      /\ \A k \in 1 .. Len(f) + Len(g) + 2 : image[K + 1 + k] = ab[k]
  <2>1. /\ Len(h \o ab) = Len(h) + Len(ab)
        /\ \A k \in 1 .. Len(h) : (h \o ab)[k] = h[k]
        /\ \A k \in 1 .. Len(ab) : (h \o ab)[Len(h) + k] = ab[k]
    BY <1>6, <1>8, Joined
  <2>2. image = h \o ab
    BY <1>7 DEF ab
  <2>3. Len(h) = K + 1 /\ Len(ab) = Len(f) + Len(g) + 2
    BY <1>6, <1>8
  <2> QED BY <1>2, <2>1, <2>2, <2>3
<1>10. \A c \in 0 .. Len(image) - 1 : mem[c] = image[c + 1]
  BY <1>2, <1>9 DEF BootInit, image, Cell
<1>11. Packed(mem, f, g)
  <2>1. ASSUME NEW c \in 0 .. K - 1 PROVE mem[c] = Kernel[c + 1]
    <3>1. c \in 0 .. Len(image) - 1 /\ c + 1 \in 1 .. K /\ c + 1 \in 1 .. K + 1
      BY <1>2, <1>9
    <3> QED BY <1>6, <1>9, <1>10, <3>1
  <2>2. mem[K] = 2
    <3>1. K \in 0 .. Len(image) - 1 /\ K + 1 \in 1 .. K + 1
      BY <1>2, <1>9
    <3> QED BY <1>6, <1>9, <1>10, <3>1
  <2>3. mem[K + 1] = Len(f)
    <3>1. image[K + 2] = ab[1]
      BY <1>2, <1>9
    <3> QED BY <1>2, <1>4, <1>8, <1>9, <1>10, <3>1
  <2>4. ASSUME NEW k \in 1 .. Len(f) PROVE mem[K + 1 + k] = f[k]
    <3>1. image[K + 1 + (k + 1)] = ab[k + 1]
      BY <1>2, <1>9
    <3>2. ab[k + 1] = f[k]
      <4>1. k + 1 \in 1 .. Len(f) + 1
        BY <1>2
      <4> QED BY <1>4, <1>8, <4>1
    <3> QED BY <1>2, <1>9, <1>10, <3>1, <3>2
  <2>5. mem[K + 2 + Len(f)] = Len(g)
    <3>1. image[K + 1 + (Len(f) + 2)] = ab[Len(f) + 2]
      BY <1>2, <1>9
    <3>2. ab[Len(f) + 2] = Len(g)
      BY <1>2, <1>5, <1>8
    <3> QED BY <1>2, <1>9, <1>10, <3>1, <3>2
  <2>6. ASSUME NEW k \in 1 .. Len(g) PROVE mem[K + 2 + Len(f) + k] = g[k]
    <3>1. image[K + 1 + (Len(f) + 2 + k)] = ab[Len(f) + 2 + k]
      BY <1>2, <1>9
    <3>2. ab[Len(f) + 2 + k] = g[k]
      <4>1. k + 1 \in 1 .. Len(g) + 1 /\ Len(f) + 1 + (k + 1) = Len(f) + 2 + k
        BY <1>2
      <4> QED BY <1>5, <1>8, <4>1
    <3> QED BY <1>2, <1>9, <1>10, <3>1, <3>2
  <2> QED BY <2>1, <2>2, <2>3, <2>4, <2>5, <2>6 DEF Packed, K
<1> QED BY <1>1, <1>11 DEF BootInit, BootInv, ModulesIntact, f, g

(* The image is what it was when all its cells are.                            *)
LEMMA PackedKeeps ==
  ASSUME NEW f \in File, NEW g \in File, NEW m, NEW n, Packed(m, f, g),
         \A c \in 0 .. endOfKernelBinary + 2 + Len(f) + Len(g) : n[c] = m[c]
  PROVE  Packed(n, f, g)
<1> DEFINE K == endOfKernelBinary
<1>1. Len(f) \in Nat /\ Len(g) \in Nat /\ K \in Nat
  BY Fits
<1>2. /\ \A c \in 0 .. K - 1 : c \in 0 .. K + 2 + Len(f) + Len(g)
      /\ {K, K + 1, K + 2 + Len(f)} \subseteq 0 .. K + 2 + Len(f) + Len(g)
      /\ \A k \in 1 .. Len(f) : K + 1 + k \in 0 .. K + 2 + Len(f) + Len(g)
      /\ \A k \in 1 .. Len(g) : K + 2 + Len(f) + k \in 0 .. K + 2 + Len(f) + Len(g)
  BY <1>1
<1> QED BY <1>2 DEF Packed

(* Loading a module writes into no module and nothing that is still to be      *)
(* read; clearing the bss into no module.                                      *)
LEMMA BootGoesOn == BootInv /\ BootNext => BootInv'
<1> SUFFICES ASSUME BootInv, BootNext PROVE BootInv'
  OBVIOUS
<1> DEFINE f == files[1]
           g == files[2]
           K == endOfKernelBinary
           A == moduleAddresses[1]
           B == moduleAddresses[2]
<1>1. f \in File /\ g \in File /\ files \in File \X File
  BY DEF BootInv
<1>2. /\ Len(f) \in Nat /\ Len(g) \in Nat /\ K \in Nat /\ A \in Nat /\ B \in Nat
      /\ bss \in Nat /\ endOfKernel \in Nat /\ MemorySize \in Nat
      /\ K <= bss /\ bss <= endOfKernel /\ endOfKernel <= A
      /\ K + 3 + Len(f) + Len(g) <= A /\ A + Len(f) <= B /\ B + Len(g) <= MemorySize
  BY <1>1, Fits
<1>3. CASE loadModule
  <2>1. /\ Packed(mem, f, g) /\ loaded \in 0 .. 1 /\ loaded' = loaded + 1
        /\ stage = "load" /\ stage' = "load" /\ files' = files
        /\ loaded = 0 => current = K + 1
        /\ loaded = 1 => current = K + 2 + Len(f) /\ Copied(mem, A, f)
    BY <1>3 DEF loadModule, BootInv, Packed, readUint32
  <2> HIDE DEF f, g, K, A, B
  <2>2. CASE loaded = 0
    <3>1. mem[current] = Len(f) /\ current = K + 1
      BY <2>1, <2>2 DEF Packed, K
    <3>2. /\ current' = K + 2 + Len(f)
          /\ mem' = [c \in Cell |-> IF c \in A .. A + Len(f) - 1 THEN mem[K + 2 + c - A] ELSE mem[c]]
      BY <1>2, <1>3, <2>2, <3>1 DEF loadModule, memcpy, readUint32, A
    <3>3. ASSUME NEW c \in 0 .. K + 2 + Len(f) + Len(g) PROVE mem'[c] = mem[c]
      BY <1>2, <3>2 DEF Cell
    <3>4. Packed(mem', f, g)
      <4>2. \A c \in 0 .. K + 2 + Len(f) + Len(g) : mem'[c] = mem[c]
        BY <3>3
      <4> QED BY <1>1, <2>1, <4>2, PackedKeeps DEF K, f, g
    <3>5. ASSUME NEW k \in 1 .. Len(f) PROVE mem'[A + k - 1] = f[k]
      <4>1. A + k - 1 \in Cell /\ A + k - 1 \in A .. A + Len(f) - 1
        BY <1>2 DEF Cell
      <4>2. mem'[A + k - 1] = mem[K + 2 + (A + k - 1) - A]
        BY <3>2, <4>1
      <4>3. K + 2 + (A + k - 1) - A = K + 1 + k
        BY <1>2
      <4> QED BY <2>1, <4>2, <4>3 DEF Packed, K
    <3>6. Copied(mem', A, f)
      BY <2>1, <3>5 DEF Copied, A, f
    <3> QED BY <1>1, <2>1, <2>2, <3>2, <3>4, <3>6 DEF BootInv, ModulesIntact, f, g, K, A, B
  <2>3. CASE loaded = 1
    <3>1. mem[current] = Len(g) /\ current = K + 2 + Len(f)
      BY <2>1, <2>3 DEF Packed, K
    <3>2. mem' = [c \in Cell |-> IF c \in B .. B + Len(g) - 1
                                 THEN mem[K + 3 + Len(f) + c - B] ELSE mem[c]]
      BY <1>2, <1>3, <2>3, <3>1 DEF loadModule, memcpy, readUint32, B
    <3>3. ASSUME NEW c \in 0 .. B - 1 PROVE mem'[c] = mem[c]
      BY <1>2, <3>2 DEF Cell
    <3>4. Packed(mem', f, g)
      <4>2. \A c \in 0 .. K + 2 + Len(f) + Len(g) : mem'[c] = mem[c]
        BY <1>2, <3>3
      <4> QED BY <1>1, <2>1, <4>2, PackedKeeps DEF K, f, g
    <3>5. ASSUME NEW k \in 1 .. Len(g) PROVE mem'[B + k - 1] = g[k]
      <4>1. B + k - 1 \in Cell /\ B + k - 1 \in B .. B + Len(g) - 1
        BY <1>2 DEF Cell
      <4>2. mem'[B + k - 1] = mem[K + 3 + Len(f) + (B + k - 1) - B]
        BY <3>2, <4>1
      <4>3. K + 3 + Len(f) + (B + k - 1) - B = K + 2 + Len(f) + k
        BY <1>2
      <4> QED BY <2>1, <4>2, <4>3 DEF Packed, K
    <3>6. ASSUME NEW k \in 1 .. Len(f) PROVE mem'[A + k - 1] = f[k]
      <4>1. A + k - 1 \in 0 .. B - 1
        BY <1>2
      <4> QED BY <2>1, <2>3, <3>3, <4>1 DEF Copied
    <3>7. Copied(mem', A, f) /\ Copied(mem', B, g)
      BY <2>1, <3>5, <3>6 DEF Copied, A, B, f, g
    <3> QED BY <1>1, <2>1, <2>3, <3>4, <3>7 DEF BootInv, ModulesIntact, f, g, K, A, B
  <2> QED BY <2>1, <2>2, <2>3
<1>4. CASE clearBSS
  <2>1. /\ Packed(mem, f, g) /\ Copied(mem, A, f) /\ Copied(mem, B, g)
        /\ stage' = "clear" /\ files' = files
        /\ mem' = [c \in Cell |-> IF c \in bss .. bss + (endOfKernel - bss) - 1 THEN 0 ELSE mem[c]]
    BY <1>4 DEF clearBSS, memset, BootInv, Packed, readUint32
  <2>2. f \in Seq(Nat) /\ g \in Seq(Nat) /\ Kernel \in Seq(Nat) /\ K = Len(Kernel)
    BY <1>1, Fits DEF endOfKernelBinary
  <2> HIDE DEF f, g, K, A, B
  <2>3. \A c \in 0 .. K - 1 : mem'[c] = Kernel[c + 1]
    BY <1>2, <2>1 DEF Packed, K, Cell
  <2>4. \A c \in bss .. endOfKernel - 1 : mem'[c] = 0
    BY <1>2, <2>1 DEF Cell
  <2>5. \A k \in 1 .. Len(f) : mem'[A + k - 1] = f[k]
    BY <1>2, <2>1 DEF Copied, Cell
  <2>6. \A k \in 1 .. Len(g) : mem'[B + k - 1] = g[k]
    BY <1>2, <2>1 DEF Copied, Cell
  <2>7. Segment(A, Len(f))' = f
    <3>1. Segment(A, Len(f))' = [k \in 1 .. Len(f) |-> mem'[A + k - 1]]
      BY <2>1 DEF Segment, A, f
    <3> QED BY <2>2, <2>5, <3>1
  <2>8. Segment(B, Len(g))' = g
    <3>1. Segment(B, Len(g))' = [k \in 1 .. Len(g) |-> mem'[B + k - 1]]
      BY <2>1 DEF Segment, B, g
    <3> QED BY <2>2, <2>6, <3>1
  <2>9. Segment(0, K)' = Kernel
    <3>1. Segment(0, K)' = [k \in 1 .. K |-> mem'[0 + k - 1]]
      BY DEF Segment, K
    <3>2. ASSUME NEW k \in 1 .. K PROVE mem'[0 + k - 1] = Kernel[k]
      <4>1. k - 1 \in 0 .. K - 1 /\ 0 + k - 1 = k - 1 /\ (k - 1) + 1 = k
        BY <1>2
      <4> QED BY <2>3, <4>1
    <3>3. [k \in 1 .. K |-> mem'[0 + k - 1]] = [k \in 1 .. K |-> Kernel[k]]
      BY <3>2
    <3>4. Kernel = [k \in 1 .. K |-> Kernel[k]]
      BY <2>2
    <3> QED BY <3>1, <3>3, <3>4
  <2>10. ModulesIntact'
    BY <2>1, <2>4, <2>7, <2>8, <2>9 DEF ModulesIntact, f, g, A, B, K
  <2> QED BY <1>1, <2>1, <2>10 DEF BootInv
<1>5. CASE Initialise
  <2>1. stage # "load" /\ stage' # "load" /\ files' = files /\ mem' = mem
    <3>1. ASSUME NEW n \in 1 .. 7 PROVE Initialises[n] # "load"
      <4>1. n = 1 \/ n = 2 \/ n = 3 \/ n = 4 \/ n = 5 \/ n = 6 \/ n = 7
        OBVIOUS
      <4>2. /\ Initialises[1] # "load" /\ Initialises[2] # "load" /\ Initialises[3] # "load"
            /\ Initialises[4] # "load" /\ Initialises[5] # "load" /\ Initialises[6] # "load"
            /\ Initialises[7] # "load"
        BY DEF Initialises
      <4> QED BY <4>1, <4>2
    <3>2. Len(Initialises) = 7
      BY DEF Initialises
    <3> QED BY <1>5, <3>1, <3>2 DEF Initialise
  <2> QED BY <2>1 DEF BootInv, ModulesIntact, Segment
<1> QED BY <1>3, <1>4, <1>5 DEF BootNext

(* When main runs, both modules are where they are run from, whatever their    *)
(* sizes, although they were brought in the bss that was then cleared          *)
(* (ModulePacker/main.c, moduleLoader.c, kernel.c).                            *)
THEOREM ModulesIntactHolds == Spec => []ModulesIntact
<1>1. Init => BootInv
  BY BootStarts DEF Init
<1>2. BootInv /\ [Next]_vars => BootInv'
  <2> SUFFICES ASSUME BootInv, [Next]_vars PROVE BootInv'
    OBVIOUS
  <2>1. CASE BootNext
    BY <2>1, BootGoesOn
  <2>2. CASE UNCHANGED bvars
    BY <2>2 DEF bvars, BootInv, ModulesIntact, Segment
  <2> QED BY <2>1, <2>2 DEF Next, vars, Works
<1>3. BootInv => ModulesIntact
  BY DEF BootInv
<1> QED BY <1>1, <1>2, <1>3, PTL DEF Spec

(***************************************************************************)
(* Numbers, and the tree of pages                                           *)
(***************************************************************************)

(* A set of natural numbers has a smallest. *)
LEMMA Smallest ==
  ASSUME NEW S \in SUBSET Nat, S # {}
  PROVE  \E n \in S : \A m \in S : n <= m
<1> DEFINE R == OpToRel(<, Nat)
<1>1. IsWellFoundedOn(R, Nat)
  BY NatLessThanWellFounded
<1>2. \A m, n \in Nat : m < n => <<m, n>> \in R
  BY DEF OpToRel
<1> HIDE DEF R
<1>3. PICK n \in S : \A m \in S : <<m, n>> \notin R
  BY <1>1, WFMin
<1>4. \A m \in S : m \in Nat /\ n \in Nat /\ ~ (m < n)
  BY <1>2, <1>3
<1> QED BY <1>4

(* What holds of 0, and of every number whose predecessor it holds of, is true *)
(* up to n: a set of numbers that has no smallest is empty.                    *)
LEMMA UpTo ==
  ASSUME NEW n \in Nat, NEW S, n \in Nat,
         0 \in S, \A k \in 1 .. n : k - 1 \in S => k \in S
  PROVE  0 .. n \subseteq S
<1> SUFFICES ASSUME ~ (0 .. n \subseteq S) PROVE FALSE
  OBVIOUS
<1> DEFINE T == {k \in 0 .. n : k \notin S}
<1>1. T \in SUBSET Nat /\ T # {}
  OBVIOUS
<1>2. PICK k \in T : \A m \in T : k <= m
  BY <1>1, Smallest
<1>3. k \in 1 .. n /\ k - 1 \in 0 .. n /\ k - 1 \notin T
  BY <1>2
<1> QED BY <1>2, <1>3

\* T has every x of S below which it has all of S; M measures how far up x is.
Inherits(S, M, T) ==
  /\ \A x \in S : M[x] \in Nat
  /\ \A x \in S : (\A y \in S : M[y] < M[x] => y \in T) => x \in T

(* What every x of S has when all below it have, all of S have. *)
LEMMA Descent ==
  ASSUME NEW S, NEW M, NEW T, Inherits(S, M, T)
  PROVE  S \subseteq T
<1> SUFFICES ASSUME ~ (S \subseteq T) PROVE FALSE
  OBVIOUS
<1> DEFINE B == {x \in S : x \notin T}
           V == {M[x] : x \in B}
<1>1. V \in SUBSET Nat /\ V # {}
  BY DEF Inherits
<1>2. PICK v \in V : \A w \in V : v <= w
  BY <1>1, Smallest
<1>3. PICK x \in B : M[x] = v
  BY <1>2
<1>4. \A y \in S : M[y] < M[x] => y \in T
  BY <1>1, <1>2, <1>3
<1> QED BY <1>3, <1>4 DEF Inherits

\* A function on S with values in D can be computed from each x along next, which
\* leads down by the measure M, until it stops.
IsWalk(S, m, M, D, next, value, step, stop) ==
  /\ M \in [S -> 0 .. m]
  /\ next \in [S -> S] /\ value \in [S -> D] /\ step \in [D \X S -> D]
  /\ \A x \in S : x \notin stop => M[next[x]] < M[x]

Walks(f, S, D, next, value, step, stop) ==
  /\ f \in [S -> D]
  /\ \A x \in S : f[x] = IF x \in stop THEN value[x] ELSE step[<<f[next[x]], x>>]

(* There is such a function. *)
LEMMA WalkExists ==
  ASSUME NEW S, NEW m \in Nat, NEW M, NEW D, NEW next, NEW value, NEW step, NEW stop,
         IsWalk(S, m, M, D, next, value, step, stop)
  PROVE  \E f : Walks(f, S, D, next, value, step, stop)
<1> USE DEF IsWalk
<1> DEFINE Low(j) == {x \in S : M[x] < j}
           Reaches(g, j) == /\ g \in [Low(j) -> D]
                            /\ \A x \in Low(j) : g[x] = IF x \in stop THEN value[x]
                                                        ELSE step[<<g[next[x]], x>>]
           J == {j \in 0 .. m + 1 : \E g : Reaches(g, j)}
<1>1. 0 \in J
  <2>1. Low(0) = {}
    OBVIOUS
  <2>2. Reaches([x \in Low(0) |-> value[x]], 0)
    BY <2>1
  <2>3. 0 \in 0 .. m + 1
    OBVIOUS
  <2> HIDE DEF Reaches
  <2> QED BY <2>2, <2>3
<1>2. ASSUME NEW j \in 1 .. m + 1, j - 1 \in J PROVE j \in J
  <2>1. PICK g : Reaches(g, j - 1)
    BY <1>2
  <2> DEFINE h == [x \in Low(j) |-> IF M[x] < j - 1 THEN g[x] ELSE
                     IF x \in stop THEN value[x] ELSE step[<<g[next[x]], x>>]]
  <2>2. ASSUME NEW x \in Low(j) PROVE x \in stop \/ next[x] \in Low(j - 1)
    BY <1>2
  <2>3. ASSUME NEW x \in Low(j) PROVE h[x] \in D
    <3>1. CASE M[x] < j - 1
      BY <2>1, <3>1
    <3>2. CASE ~ (M[x] < j - 1) /\ x \in stop
      BY <3>2
    <3>3. CASE ~ (M[x] < j - 1) /\ x \notin stop
      <4>1. g[next[x]] \in D
        BY <2>1, <2>2, <3>3
      <4> QED BY <3>3, <4>1
    <3> QED BY <3>1, <3>2, <3>3
  <2>4. ASSUME NEW x \in Low(j), x \notin stop PROVE h[next[x]] = g[next[x]]
    <3>1. next[x] \in Low(j - 1) /\ next[x] \in Low(j)
      BY <2>2, <2>4
    <3> QED BY <3>1
  <2>5. ASSUME NEW x \in Low(j)
        PROVE  h[x] = IF x \in stop THEN value[x] ELSE step[<<h[next[x]], x>>]
    <3>1. CASE M[x] < j - 1
      <4>1. x \in Low(j - 1) /\ h[x] = g[x]
        BY <3>1
      <4>2. g[x] = IF x \in stop THEN value[x] ELSE step[<<g[next[x]], x>>]
        BY <2>1, <4>1
      <4> HIDE DEF h
      <4> QED BY <2>4, <4>1, <4>2
    <3>2. CASE ~ (M[x] < j - 1)
      <4>1. h[x] = IF x \in stop THEN value[x] ELSE step[<<g[next[x]], x>>]
        BY <3>2
      <4> HIDE DEF h
      <4> QED BY <2>4, <4>1
    <3> QED BY <3>1, <3>2
  <2>6. h \in [Low(j) -> D]
    BY <2>3
  <2> HIDE DEF h
  <2>7. Reaches(h, j)
    BY <2>5, <2>6
  <2>8. j \in 0 .. m + 1
    OBVIOUS
  <2> HIDE DEF Reaches
  <2> QED BY <2>7, <2>8
<1>3. m + 1 \in J
  <2> HIDE DEF J
  <2>1. m + 1 \in Nat
    OBVIOUS
  <2>2. \A j \in 1 .. m + 1 : j - 1 \in J => j \in J
    BY <1>2
  <2>3. 0 .. m + 1 \subseteq J
    BY <1>1, <2>1, <2>2, UpTo
  <2>4. m + 1 \in 0 .. m + 1
    OBVIOUS
  <2> QED BY <2>3, <2>4
<1>4. PICK g : Reaches(g, m + 1)
  BY <1>3
<1>5. Low(m + 1) = S
  OBVIOUS
<1>6. Walks(g, S, D, next, value, step, stop)
  BY <1>4, <1>5 DEF Walks
<1> QED BY <1>6

-----------------------------------------------------------------------------
(* The powers of two *)

LEMMA PowIs ==
  /\ pow \in [0 .. maxOrder + 1 -> Nat]
  /\ pow[0] = 1
  /\ \A k \in 1 .. maxOrder + 1 : pow[k] = 2 * pow[k - 1]
<1> DEFINE n == maxOrder + 1
           S == 0 .. n
           Body(f, k) == IF k = 0 THEN 1 ELSE 2 * f[k - 1]
           M == [k \in S |-> k]
           next == [k \in S |-> IF k = 0 THEN 0 ELSE k - 1]
           value == [k \in S |-> 1]
           step == [p \in Nat \X S |-> 2 * p[1]]
<1>1. n \in Nat
  BY MemoryAssumption
<1>2. IsWalk(S, n, M, Nat, next, value, step, {0})
  <2>1. M \in [S -> 0 .. n] /\ value \in [S -> Nat]
    OBVIOUS
  <2>2. next \in [S -> S]
    BY <1>1
  <2>3. step \in [Nat \X S -> Nat]
    OBVIOUS
  <2>4. \A k \in S : k \notin {0} => M[next[k]] < M[k]
    BY <1>1
  <2> HIDE DEF M, next, value, step
  <2> QED BY <2>1, <2>2, <2>3, <2>4 DEF IsWalk
<1>3. \A d \in Nat, k \in S : step[<<d, k>>] = 2 * d
  OBVIOUS
<1>4. \A k \in S : k # 0 => next[k] = k - 1 /\ k - 1 \in S
  BY <1>1
<1>5. \A k \in S : value[k] = 1
  OBVIOUS
<1> HIDE DEF M, next, value, step
<1>6. PICK f : Walks(f, S, Nat, next, value, step, {0})
  BY <1>1, <1>2, WalkExists
<1>7. f \in [S -> Nat] /\ \A k \in S : f[k] = Body(f, k)
  BY <1>3, <1>4, <1>5, <1>6 DEF Walks
<1>8. f = [k \in S |-> Body(f, k)]
  BY <1>7
<1>9. pow = CHOOSE g : g = [k \in S |-> Body(g, k)]
  BY DEF pow
<1> HIDE DEF Body
<1>10. pow = [k \in S |-> Body(pow, k)]
  BY <1>8, <1>9
<1> USE DEF Body
<1>11. \A k \in S : pow[k] = IF k = 0 THEN 1 ELSE 2 * pow[k - 1]
  BY <1>10
<1> DEFINE T == {k \in S : pow[k] \in Nat}
<1>12. 0 \in T /\ \A k \in 1 .. n : k - 1 \in T => k \in T
  BY <1>1, <1>11
<1>13. S \subseteq T
  <2> HIDE DEF T
  <2> QED BY <1>1, <1>12, UpTo
<1>14. pow \in [S -> Nat]
  BY <1>10, <1>13
<1> QED BY <1>1, <1>11, <1>14

LEMMA PowPositive == \A k \in 0 .. maxOrder + 1 : pow[k] \in Nat \ {0}
<1> DEFINE n == maxOrder + 1
           T == {k \in 0 .. n : pow[k] \in Nat \ {0}}
<1>1. n \in Nat
  BY MemoryAssumption
<1>2. 0 \in T
  BY <1>1, PowIs
<1>3. ASSUME NEW k \in 1 .. n, k - 1 \in T PROVE k \in T
  <2>1. pow[k] = 2 * pow[k - 1]
    BY PowIs
  <2> QED BY <1>3, <2>1
<1> HIDE DEF T
<1>4. 0 .. n \subseteq T
  BY <1>1, <1>2, <1>3, UpTo
<1> QED BY <1>4 DEF T

(* A greater power is at least twice as great. *)
LEMMA PowGrows ==
  ASSUME NEW i \in 0 .. maxOrder + 1, NEW j \in 0 .. maxOrder + 1, i < j
  PROVE  2 * pow[i] <= pow[j]
<1> DEFINE d == j - i - 1
           T == {k \in 0 .. d : 2 * pow[i] <= pow[i + 1 + k]}
<1>1. d \in Nat /\ i + 1 + d = j /\ maxOrder \in Nat
  BY MemoryAssumption
<1>2. 0 \in T
  <2>1. i + 1 \in 1 .. maxOrder + 1 /\ i + 1 - 1 = i /\ i + 1 + 0 = i + 1 /\ 0 \in 0 .. d
    BY <1>1
  <2>2. pow[i + 1] = 2 * pow[i]
    BY <2>1, PowIs
  <2>3. pow[i] \in Nat
    BY PowPositive
  <2> HIDE DEF d
  <2> QED BY <2>1, <2>2, <2>3
<1>3. ASSUME NEW k \in 1 .. d, k - 1 \in T PROVE k \in T
  <2>1. i + 1 + k \in 1 .. maxOrder + 1 /\ (i + 1 + k) - 1 = i + 1 + (k - 1)
        /\ i + 1 + (k - 1) \in 0 .. maxOrder + 1 /\ k \in 0 .. d
    BY <1>1
  <2>2. pow[i + 1 + k] = 2 * pow[i + 1 + (k - 1)]
    BY <2>1, PowIs
  <2>3. pow[i] \in Nat /\ pow[i + 1 + (k - 1)] \in Nat
    BY <2>1, PowPositive
  <2> HIDE DEF d
  <2> QED BY <1>3, <2>1, <2>2, <2>3
<1>4. 0 .. d \subseteq T
  <2> HIDE DEF T, d
  <2> QED BY <1>1, <1>2, <1>3, UpTo
<1> QED BY <1>1, <1>4

LEMMA PowSplits == \A k \in 0 .. maxOrder : pow[k] * pow[maxOrder - k] = pow[maxOrder]
<1> DEFINE n == maxOrder
           T == {k \in 0 .. n : pow[k] * pow[n - k] = pow[n]}
<1>1. n \in Nat
  BY MemoryAssumption
<1>2. 0 \in T
  <2>1. pow[0] = 1 /\ n - 0 = n /\ pow[n] \in Nat
    BY <1>1, PowIs
  <2> QED BY <1>1, <2>1
<1>3. ASSUME NEW k \in 1 .. n, k - 1 \in T PROVE k \in T
  <2>1. k \in 1 .. n + 1 /\ n - (k - 1) \in 1 .. n + 1 /\ n - (k - 1) - 1 = n - k
        /\ k - 1 \in 0 .. n + 1 /\ n - k \in 0 .. n + 1
    BY <1>1
  <2>2. pow[k] = 2 * pow[k - 1] /\ pow[n - (k - 1)] = 2 * pow[n - k]
    BY <2>1, PowIs
  <2> DEFINE x == pow[k - 1]
             y == pow[n - k]
  <2>3. x \in Nat /\ y \in Nat
    BY <2>1, PowPositive
  <2> HIDE DEF x, y
  <2>4. (2 * x) * y = x * (2 * y)
    BY <2>3
  <2>5. k \in 0 .. n
    OBVIOUS
  <2> QED BY <1>3, <2>2, <2>4, <2>5 DEF x, y
<1>4. 0 .. n \subseteq T
  <2> HIDE DEF T, n
  <2> QED BY <1>1, <1>2, <1>3, UpTo
<1> QED BY <1>4

-----------------------------------------------------------------------------
(* The tree *)

LEMMA NodeIs ==
  /\ amount_of_blocks \in Nat \ {0} /\ Node = 0 .. 2 * amount_of_blocks - 2 /\ 0 \in Node
  /\ Node \subseteq Nat
<1>1. maxOrder \in 0 .. maxOrder + 1
  BY MemoryAssumption
<1> QED BY <1>1, PowPositive DEF amount_of_blocks, Node

LEMMA Family ==
  ASSUME NEW n \in Node, n # 0
  PROVE  LET p == PARENT_INDEX(n)
             b == getBuddyIndex(n)
         IN  /\ p \in Node /\ p < n /\ ~ Leaf(p)
             /\ n = LEFT_CHILD_INDEX(p) \/ n = RIGHT_CHILD_INDEX(p)
             /\ IS_LEFT_CHILD(n) <=> n = LEFT_CHILD_INDEX(p)
             /\ b \in Node /\ b # 0 /\ b # n /\ PARENT_INDEX(b) = p
             /\ {n, b} = {LEFT_CHILD_INDEX(p), RIGHT_CHILD_INDEX(p)}
             /\ getBuddyIndex(b) = n
BY NodeIs DEF PARENT_INDEX, getBuddyIndex, Leaf, LEFT_CHILD_INDEX, RIGHT_CHILD_INDEX, IS_LEFT_CHILD

LEMMA Children ==
  ASSUME NEW n \in Node, ~ Leaf(n)
  PROVE  /\ LEFT_CHILD_INDEX(n) \in Node /\ RIGHT_CHILD_INDEX(n) \in Node
         /\ LEFT_CHILD_INDEX(n) > n /\ RIGHT_CHILD_INDEX(n) > n
         /\ LEFT_CHILD_INDEX(n) # RIGHT_CHILD_INDEX(n)
         /\ PARENT_INDEX(LEFT_CHILD_INDEX(n)) = n /\ PARENT_INDEX(RIGHT_CHILD_INDEX(n)) = n
         /\ LEFT_CHILD_INDEX(n) # 0 /\ RIGHT_CHILD_INDEX(n) # 0
BY NodeIs DEF PARENT_INDEX, Leaf, LEFT_CHILD_INDEX, RIGHT_CHILD_INDEX

Width(n) == pow[maxOrder - Order[n]]

First(n) == (n + 1 - pow[Order[n]]) * Width(n)

\* A measure for what goes from a node to its parent.
Self == [n \in Node |-> n]

Parents == [n \in Node |-> IF n = 0 THEN 0 ELSE PARENT_INDEX(n)]

LEMMA ParentsLead ==
  /\ Self \in [Node -> 0 .. 2 * amount_of_blocks - 2] /\ Parents \in [Node -> Node]
  /\ \A n \in Node : n \notin {0} => Self[Parents[n]] < Self[n]
<1>1. \A n \in Node : n # 0 => PARENT_INDEX(n) \in Node /\ PARENT_INDEX(n) < n
  BY Family
<1>2. Parents \in [Node -> Node]
  BY <1>1, NodeIs DEF Parents
<1>3. Self \in [Node -> 0 .. 2 * amount_of_blocks - 2]
  BY NodeIs DEF Self
<1>4. \A n \in Node : n \notin {0} => Self[Parents[n]] < Self[n]
  BY <1>1, NodeIs DEF Self, Parents
<1> QED BY <1>2, <1>3, <1>4

LEMMA OrderIs ==
  /\ Order \in [Node -> Nat] /\ Order[0] = 0
  /\ \A n \in Node \ {0} : Order[n] = Order[PARENT_INDEX(n)] + 1
<1> DEFINE Body(f, n) == IF n = 0 THEN 0 ELSE f[PARENT_INDEX(n)] + 1
           value == [n \in Node |-> 0]
           step == [p \in Nat \X Node |-> p[1] + 1]
           m == 2 * amount_of_blocks - 2
<1>1. m \in Nat
  BY NodeIs
<1>2. IsWalk(Node, m, Self, Nat, Parents, value, step, {0})
  <2>1. value \in [Node -> Nat] /\ step \in [Nat \X Node -> Nat]
    OBVIOUS
  <2> HIDE DEF value, step
  <2> QED BY <2>1, ParentsLead DEF IsWalk
<1>3. \A d \in Nat, n \in Node : step[<<d, n>>] = d + 1 /\ value[n] = 0
  OBVIOUS
<1>4. \A n \in Node : n # 0 => Parents[n] = PARENT_INDEX(n) /\ PARENT_INDEX(n) \in Node
  BY Family DEF Parents
<1> HIDE DEF m, value, step
<1>5. PICK f : Walks(f, Node, Nat, Parents, value, step, {0})
  BY <1>1, <1>2, WalkExists
<1>6. f \in [Node -> Nat] /\ \A n \in Node : f[n] = Body(f, n)
  <2>1. /\ f \in [Node -> Nat]
        /\ \A n \in Node : f[n] = IF n \in {0} THEN value[n] ELSE step[<<f[Parents[n]], n>>]
    BY <1>5 DEF Walks
  <2>2. ASSUME NEW n \in Node PROVE f[n] = Body(f, n)
    <3>1. CASE n = 0
      BY <1>3, <2>1, <3>1
    <3>2. CASE n # 0
      <4>1. f[n] = step[<<f[PARENT_INDEX(n)], n>>] /\ f[PARENT_INDEX(n)] \in Nat
        BY <1>4, <2>1, <3>2
      <4> QED BY <1>3, <3>2, <4>1
    <3> QED BY <3>1, <3>2
  <2> QED BY <2>1, <2>2
<1>7. f = [n \in Node |-> Body(f, n)]
  BY <1>6
<1>8. Order = CHOOSE g : g = [n \in Node |-> Body(g, n)]
  BY DEF Order
<1> HIDE DEF Body
<1>9. Order = [n \in Node |-> Body(Order, n)]
  BY <1>7, <1>8
<1> USE DEF Body
<1>10. \A n \in Node : Order[n] = IF n = 0 THEN 0 ELSE Order[PARENT_INDEX(n)] + 1
  BY <1>9
<1> DEFINE T == {n \in Node : Order[n] \in Nat}
<1>11. ASSUME NEW n \in Node, \A k \in Node : Self[k] < Self[n] => k \in T PROVE n \in T
  <2>1. CASE n = 0
    BY <1>10, <2>1
  <2>2. CASE n # 0
    <3>1. PARENT_INDEX(n) \in T
      BY <1>4, <1>11, <2>2, ParentsLead
    <3> QED BY <1>10, <2>2, <3>1
  <2> QED BY <2>1, <2>2
<1>12. Node \subseteq T
  <2>1. \A n \in Node : Self[n] \in Nat
    BY NodeIs DEF Self
  <2> HIDE DEF T
  <2>2. Inherits(Node, Self, T)
    BY <1>11, <2>1 DEF Inherits
  <2> QED BY <2>2, Descent
<1>13. Order \in [Node -> Nat]
  BY <1>9, <1>12
<1> QED BY <1>10, <1>13, NodeIs

(* What every node has whose parent has it, all nodes have. *)
LEMMA DownTree ==
  ASSUME NEW T, 0 \in T,
         \A n \in Node : n # 0 /\ PARENT_INDEX(n) \in T => n \in T
  PROVE  Node \subseteq T
<1>1. \A n \in Node : Self[n] \in Nat
  BY NodeIs DEF Self
<1>2. ASSUME NEW n \in Node, \A k \in Node : Self[k] < Self[n] => k \in T PROVE n \in T
  <2>1. CASE n # 0
    <3>1. PARENT_INDEX(n) \in Node /\ PARENT_INDEX(n) < n
      BY <2>1, Family
    <3> QED BY <1>2, <2>1, <3>1 DEF Self
  <2> QED BY <2>1
<1> QED BY <1>1, <1>2, Descent DEF Inherits

(* The nodes of a level are one behind the other in the array. *)
LEMMA Level ==
  ASSUME NEW n \in Node
  PROVE  /\ Order[n] \in 0 .. maxOrder
         /\ pow[Order[n]] <= n + 1 /\ n + 1 < 2 * pow[Order[n]]
<1> DEFINE OK(k) == /\ Order[k] \in 0 .. maxOrder
                    /\ pow[Order[k]] <= k + 1 /\ k + 1 < 2 * pow[Order[k]]
           T == {k \in Node : OK(k)}
<1>1. maxOrder \in Nat
  BY MemoryAssumption
<1>2. 0 \in T
  BY <1>1, OrderIs, PowIs, NodeIs
<1>3. ASSUME NEW k \in Node, k # 0, PARENT_INDEX(k) \in T PROVE k \in T
  <2> DEFINE p == PARENT_INDEX(k)
             o == Order[p]
  <2>1. p \in Node /\ (k = 2 * p + 1 \/ k = 2 * p + 2)
    BY <1>3, Family DEF LEFT_CHILD_INDEX, RIGHT_CHILD_INDEX
  <2>2. o \in 0 .. maxOrder /\ pow[o] <= p + 1 /\ p + 1 < 2 * pow[o] /\ Order[k] = o + 1
    BY <1>3, OrderIs
  <2>3. o + 1 \in 1 .. maxOrder + 1 /\ (o + 1) - 1 = o /\ o \in 0 .. maxOrder + 1
        /\ maxOrder + 1 \in 1 .. maxOrder + 1 /\ (maxOrder + 1) - 1 = maxOrder
    BY <1>1, <2>2
  <2>4. pow[o + 1] = 2 * pow[o] /\ pow[o] \in Nat /\ pow[maxOrder + 1] = 2 * pow[maxOrder]
    BY <2>3, PowIs
  <2> HIDE DEF p, o
  <2>5. pow[o + 1] <= k + 1 /\ k + 1 < 2 * pow[o + 1]
    BY <2>1, <2>2, <2>4, NodeIs
  <2>6. k + 1 < pow[maxOrder + 1]
    BY <2>4, NodeIs DEF amount_of_blocks
  <2>7. o + 1 # maxOrder + 1
    BY <2>4, <2>5, <2>6, NodeIs
  <2>8. o + 1 \in 0 .. maxOrder
    BY <1>1, <2>2, <2>7
  <2> QED BY <2>2, <2>5, <2>8
<1> HIDE DEF T
<1>4. Node \subseteq T
  BY <1>2, <1>3, DownTree
<1> QED BY <1>4 DEF T

(* Node j of level o. *)
LEMMA OfLevel ==
  ASSUME NEW o \in 0 .. maxOrder, NEW j \in 0 .. pow[o] - 1
  PROVE  pow[o] - 1 + j \in Node /\ Order[pow[o] - 1 + j] = o
<1> DEFINE n == pow[o] - 1 + j
<1>1. maxOrder \in Nat /\ o \in 0 .. maxOrder + 1 /\ maxOrder \in 0 .. maxOrder + 1
  BY MemoryAssumption
<1>2. pow[o] \in Nat \ {0} /\ pow[maxOrder] \in Nat /\ pow[o] <= pow[maxOrder]
  <2>1. CASE o = maxOrder
    BY <1>1, <2>1, PowPositive
  <2>2. CASE o # maxOrder
    BY <1>1, <2>2, PowGrows, PowPositive
  <2> QED BY <2>1, <2>2
<1>3. n \in Node
  BY <1>2, NodeIs DEF amount_of_blocks
<1> DEFINE q == Order[n]
<1>4. q \in 0 .. maxOrder /\ pow[q] <= n + 1 /\ n + 1 < 2 * pow[q]
  BY <1>3, Level
<1>5. q \in 0 .. maxOrder + 1 /\ pow[q] \in Nat \ {0}
  BY <1>1, <1>4, PowPositive
<1>6. n + 1 < 2 * pow[o] /\ n + 1 >= pow[o]
  BY <1>2
<1> HIDE DEF q, n
<1>7. ~ (q < o)
  <2>1. q < o => 2 * pow[q] <= pow[o]
    BY <1>1, <1>5, PowGrows
  <2> QED BY <1>2, <1>3, <1>4, <1>5, <1>6, <2>1, NodeIs
<1>8. ~ (o < q)
  <2>1. o < q => 2 * pow[o] <= pow[q]
    BY <1>1, <1>5, PowGrows
  <2> QED BY <1>2, <1>3, <1>4, <1>5, <1>6, <2>1, NodeIs
<1>9. q = o
  BY <1>1, <1>4, <1>7, <1>8
<1> QED BY <1>3, <1>9 DEF q, n

(* Where the memory of a node is. *)
LEMMA Extent ==
  ASSUME NEW n \in Node
  PROVE  /\ Width(n) \in Nat \ {0} /\ First(n) \in Nat
         /\ First(n) + Width(n) <= amount_of_blocks
         /\ Leaf(n) <=> Width(n) = 1
<1> DEFINE o == Order[n]
           w == Width(n)
           p == pow[o]
<1>1. maxOrder \in Nat /\ o \in 0 .. maxOrder /\ p <= n + 1 /\ n + 1 < 2 * p /\ n \in Nat
  BY MemoryAssumption, Level, NodeIs
<1>2. maxOrder - o \in 0 .. maxOrder + 1 /\ o \in 0 .. maxOrder + 1 /\ maxOrder \in 0 .. maxOrder + 1
  BY <1>1
<1>3. w \in Nat \ {0} /\ p \in Nat \ {0} /\ p * w = amount_of_blocks
  BY <1>1, <1>2, PowPositive, PowSplits DEF Width, amount_of_blocks
<1>4. First(n) = (n + 1 - p) * w
  BY DEF First
<1>5. Leaf(n) <=> w = 1
  <2>1. Leaf(n) <=> n + 1 >= amount_of_blocks
    BY NodeIs DEF Leaf, LEFT_CHILD_INDEX
  <2>2. CASE o = maxOrder
    <3>1. w = 1 /\ p = amount_of_blocks
      BY <1>1, <2>2, PowIs DEF Width, amount_of_blocks
    <3> QED BY <1>1, <2>1, <3>1
  <2>3. CASE o # maxOrder
    <3>1. 2 * p <= amount_of_blocks
      BY <1>1, <1>2, <2>3, PowGrows DEF amount_of_blocks
    <3>2. 2 * pow[0] <= w
      <4>1. 0 < maxOrder - o /\ 0 \in 0 .. maxOrder + 1
        BY <1>1, <2>3
      <4> QED BY <1>2, <4>1, PowGrows DEF Width
    <3>3. w # 1
      BY <1>3, <3>2, PowIs
    <3> QED BY <1>1, <1>3, <2>1, <3>1, <3>3, NodeIs
  <2> QED BY <2>2, <2>3
<1> HIDE DEF o, p, w
<1> DEFINE d == n + 1 - p
<1>6. d \in Nat /\ d + 1 <= p
  BY <1>1, <1>3
<1> HIDE DEF d
<1>7. d * w \in Nat /\ d * w + w <= p * w
  <2>1. (d + 1) * w <= p * w
    BY <1>3, <1>6
  <2>2. (d + 1) * w = d * w + w
    BY <1>3, <1>6
  <2>3. d * w \in Nat
    BY <1>3, <1>6
  <2> QED BY <2>1, <2>2, <2>3
<1> QED BY <1>3, <1>4, <1>5, <1>7 DEF d, w

(* The halves of a node. *)
LEMMA Halves ==
  ASSUME NEW n \in Node, ~ Leaf(n)
  PROVE  LET l == LEFT_CHILD_INDEX(n)
             r == RIGHT_CHILD_INDEX(n)
         IN  /\ Width(l) = Width(r) /\ 2 * Width(l) = Width(n)
             /\ First(l) = First(n) /\ First(r) = First(n) + Width(l)
<1> DEFINE l == LEFT_CHILD_INDEX(n)
           r == RIGHT_CHILD_INDEX(n)
           o == Order[n]
           w == pow[maxOrder - o - 1]
           p == pow[o]
<1>1. l \in Node /\ r \in Node /\ l = 2 * n + 1 /\ r = 2 * n + 2 /\ n \in Nat
  BY Children, NodeIs DEF LEFT_CHILD_INDEX, RIGHT_CHILD_INDEX
<1>2. Order[l] = o + 1 /\ Order[r] = o + 1
  <2>1. l # 0 /\ r # 0 /\ PARENT_INDEX(l) = n /\ PARENT_INDEX(r) = n
    BY Children
  <2> QED BY <1>1, <2>1, OrderIs
<1>3. o + 1 \in 0 .. maxOrder /\ o \in 0 .. maxOrder /\ maxOrder \in Nat
  BY <1>1, <1>2, Level, MemoryAssumption
<1>4. /\ maxOrder - o \in 1 .. maxOrder + 1 /\ (maxOrder - o) - 1 = maxOrder - o - 1
      /\ maxOrder - (o + 1) = maxOrder - o - 1 /\ maxOrder - o - 1 \in 0 .. maxOrder + 1
      /\ o + 1 \in 1 .. maxOrder + 1 /\ (o + 1) - 1 = o /\ o \in 0 .. maxOrder + 1
  BY <1>3
<1>5. Width(n) = 2 * w /\ Width(l) = w /\ Width(r) = w /\ pow[o + 1] = 2 * p
  BY <1>2, <1>4, PowIs DEF Width
<1>6. w \in Nat /\ p \in Nat
  BY <1>4, PowPositive
<1>7. /\ First(n) = (n + 1 - p) * (2 * w)
      /\ First(l) = (2 * n + 2 - 2 * p) * w
      /\ First(r) = (2 * n + 3 - 2 * p) * w
  <2>1. l + 1 = 2 * n + 2 /\ r + 1 = 2 * n + 3
    BY <1>1
  <2>2. /\ First(n) = (n + 1 - pow[Order[n]]) * Width(n)
        /\ First(l) = (l + 1 - pow[Order[l]]) * Width(l)
        /\ First(r) = (r + 1 - pow[Order[r]]) * Width(r)
    BY DEF First
  <2> HIDE DEF l, r, w
  <2>3. /\ n + 1 - pow[Order[n]] = n + 1 - p
        /\ l + 1 - pow[Order[l]] = 2 * n + 2 - 2 * p
        /\ r + 1 - pow[Order[r]] = 2 * n + 3 - 2 * p
    BY <1>1, <1>2, <1>5, <1>6, <2>1 DEF o, p
  <2> QED BY <1>5, <2>2, <2>3
<1> HIDE DEF l, r, o, w, p
<1>8. (2 * n + 2 - 2 * p) * w = (n + 1 - p) * (2 * w)
  BY <1>1, <1>6
<1>9. (2 * n + 3 - 2 * p) * w = (n + 1 - p) * (2 * w) + w
  BY <1>1, <1>6
<1> QED BY <1>5, <1>7, <1>8, <1>9 DEF l, r

-----------------------------------------------------------------------------
(* The way up the tree *)

LEMMA AboveIs ==
  /\ Above \in [Node -> SUBSET Node] /\ Above[0] = {}
  /\ \A n \in Node \ {0} : Above[n] = {PARENT_INDEX(n)} \cup Above[PARENT_INDEX(n)]
<1> DEFINE D == SUBSET Node
           Body(f, n) == IF n = 0 THEN {} ELSE {PARENT_INDEX(n)} \cup f[PARENT_INDEX(n)]
           value == [n \in Node |-> {}]
           step == [p \in D \X Node |-> IF p[2] = 0 THEN {} ELSE {PARENT_INDEX(p[2])} \cup p[1]]
           m == 2 * amount_of_blocks - 2
<1>1. m \in Nat
  BY NodeIs
<1>2. \A n \in Node : n # 0 => Parents[n] = PARENT_INDEX(n) /\ PARENT_INDEX(n) \in Node
  BY Family DEF Parents
<1>3. IsWalk(Node, m, Self, D, Parents, value, step, {0})
  <2>1. value \in [Node -> D]
    OBVIOUS
  <2>2. ASSUME NEW p \in D \X Node PROVE step[p] \in D
    <3>1. p[1] \in D /\ p[2] \in Node
      OBVIOUS
    <3> QED BY <1>2, <3>1
  <2>3. step \in [D \X Node -> D]
    BY <2>2
  <2> HIDE DEF value, step, D
  <2> QED BY <2>1, <2>3, ParentsLead DEF IsWalk
<1>4. \A d \in D, n \in Node : step[<<d, n>>] = IF n = 0 THEN {} ELSE {PARENT_INDEX(n)} \cup d
  OBVIOUS
<1>5. \A n \in Node : value[n] = {}
  OBVIOUS
<1> HIDE DEF m, value, step, D
<1>6. PICK f : Walks(f, Node, D, Parents, value, step, {0})
  BY <1>1, <1>3, WalkExists
<1>7. f \in [Node -> D] /\ \A n \in Node : f[n] = Body(f, n)
  <2>1. /\ f \in [Node -> D]
        /\ \A n \in Node : f[n] = IF n \in {0} THEN value[n] ELSE step[<<f[Parents[n]], n>>]
    BY <1>6 DEF Walks
  <2>2. ASSUME NEW n \in Node PROVE f[n] = Body(f, n)
    <3>1. CASE n = 0
      BY <1>5, <2>1, <3>1
    <3>2. CASE n # 0
      <4>1. f[n] = step[<<f[PARENT_INDEX(n)], n>>] /\ f[PARENT_INDEX(n)] \in D
        BY <1>2, <2>1, <3>2
      <4> QED BY <1>4, <3>2, <4>1
    <3> QED BY <3>1, <3>2
  <2> HIDE DEF Body
  <2> QED BY <2>1, <2>2
<1> HIDE DEF Body
<1>8. f = [n \in Node |-> Body(f, n)]
  BY <1>7
<1>9. Above = CHOOSE g : g = [n \in Node |-> Body(g, n)]
  BY DEF Above, Body
<1>10. Above = [n \in Node |-> Body(Above, n)]
  BY <1>8, <1>9
<1>11. \A n \in Node : Above[n] = Body(Above, n)
  BY <1>10
<1> USE DEF Body
<1>12. \A n \in Node : Above[n] = IF n = 0 THEN {} ELSE {PARENT_INDEX(n)} \cup Above[PARENT_INDEX(n)]
  BY <1>11
<1> DEFINE T == {n \in Node : Above[n] \in SUBSET Node}
<1>13. 0 \in T
  BY <1>12, NodeIs
<1>14. ASSUME NEW n \in Node, n # 0, PARENT_INDEX(n) \in T PROVE n \in T
  BY <1>2, <1>12, <1>14
<1>15. Node \subseteq T
  <2> HIDE DEF T
  <2> QED BY <1>13, <1>14, DownTree
<1>16. Above \in [Node -> SUBSET Node]
  BY <1>10, <1>15
<1> QED BY <1>12, <1>16, NodeIs

Up(n) == {n} \cup Above[n]

LEMMA UpIs ==
  ASSUME NEW n \in Node
  PROVE  /\ Up(n) \subseteq Node /\ Above[n] \subseteq Node
         /\ n # 0 => Above[n] = Up(PARENT_INDEX(n)) /\ PARENT_INDEX(n) \in Node
BY AboveIs, Family DEF Up

(* A node above has a smaller index, and its memory contains that below, twice *)
(* and more.                                                                   *)
LEMMA AboveContains ==
  ASSUME NEW n \in Node, NEW a \in Above[n]
  PROVE  /\ a \in Node /\ a < n /\ ~ Leaf(a)
         /\ First(a) <= First(n) /\ First(n) + Width(n) <= First(a) + Width(a)
         /\ 2 * Width(n) <= Width(a)
<1> DEFINE In(x, y) == /\ x < y /\ ~ Leaf(x)
                       /\ First(x) <= First(y) /\ First(y) + Width(y) <= First(x) + Width(x)
                       /\ 2 * Width(y) <= Width(x)
           T == {y \in Node : \A x \in Above[y] : In(x, y)}
<1>1. 0 \in T
  BY AboveIs, NodeIs
<1>2. ASSUME NEW y \in Node, y # 0 PROVE In(PARENT_INDEX(y), y)
  <2> DEFINE p == PARENT_INDEX(y)
  <2>1. p \in Node /\ p < y /\ ~ Leaf(p) /\ (y = LEFT_CHILD_INDEX(p) \/ y = RIGHT_CHILD_INDEX(p))
    BY <1>2, Family
  <2>2. First(p) \in Nat /\ Width(p) \in Nat /\ First(y) \in Nat /\ Width(y) \in Nat
    BY <2>1, Extent
  <2> HIDE DEF p
  <2>3. Width(y) \in Nat /\ 2 * Width(y) = Width(p) /\ (First(y) = First(p) \/ First(y) = First(p) + Width(y))
    BY <2>1, <2>2, Halves
  <2> QED BY <2>1, <2>2, <2>3 DEF p
<1>3. ASSUME NEW y \in Node, y # 0, PARENT_INDEX(y) \in T PROVE y \in T
  <2> DEFINE p == PARENT_INDEX(y)
  <2>1. p \in Node /\ In(p, y) /\ Above[y] = {p} \cup Above[p]
    BY <1>2, <1>3, Family, AboveIs
  <2>2. ASSUME NEW x \in Above[p] PROVE In(x, y)
    <3>1. In(x, p) /\ x \in Node
      BY <1>3, <2>1, AboveIs
    <3>2. /\ First(p) \in Nat /\ Width(p) \in Nat /\ First(y) \in Nat /\ Width(y) \in Nat
          /\ First(x) \in Nat /\ Width(x) \in Nat /\ x \in Nat /\ y \in Nat /\ p \in Nat
      BY <2>1, <3>1, Extent, NodeIs
    <3> HIDE DEF p
    <3> QED BY <2>1, <3>1, <3>2
  <2> HIDE DEF p, In
  <2> QED BY <2>1, <2>2
<1>4. Node \subseteq T
  <2> HIDE DEF T, In
  <2> QED BY <1>1, <1>3, DownTree
<1>5. a \in Node
  BY AboveIs
<1> QED BY <1>4, <1>5

LEMMA RootAbove == \A n \in Node : n # 0 => 0 \in Above[n]
<1> DEFINE T == {n \in Node : n # 0 => 0 \in Above[n]}
<1>1. 0 \in T
  BY NodeIs
<1>2. ASSUME NEW n \in Node, n # 0, PARENT_INDEX(n) \in T PROVE n \in T
  BY <1>2, AboveIs
<1> HIDE DEF T
<1>3. Node \subseteq T
  BY <1>1, <1>2, DownTree
<1> QED BY <1>3 DEF T

LEMMA AboveAbove ==
  ASSUME NEW n \in Node, NEW b \in Above[n], NEW a \in Above[b]
  PROVE  a \in Above[n]
<1> DEFINE T == {y \in Node : b \in Above[y] => a \in Above[y]}
<1>1. 0 \in T
  BY AboveIs, NodeIs
<1>2. ASSUME NEW y \in Node, y # 0, PARENT_INDEX(y) \in T PROVE y \in T
  BY <1>2, AboveIs
<1> HIDE DEF T
<1>3. Node \subseteq T
  BY <1>1, <1>2, DownTree
<1> QED BY <1>3 DEF T

(* Of two nodes on a way up, one is above the other. *)
LEMMA Linear ==
  ASSUME NEW n \in Node, NEW a \in Up(n), NEW b \in Up(n), a < b
  PROVE  a \in Above[b]
<1> DEFINE T == {y \in Node : a \in Up(y) /\ b \in Up(y) => a \in Above[b]}
<1>1. 0 \in T
  BY AboveIs, NodeIs DEF Up
<1>2. ASSUME NEW y \in Node, y # 0, PARENT_INDEX(y) \in T PROVE y \in T
  <2> SUFFICES ASSUME a \in Up(y), b \in Up(y) PROVE a \in Above[b]
    OBVIOUS
  <2>1. Above[y] = Up(PARENT_INDEX(y))
    BY <1>2, UpIs
  <2>2. a # y
    <3> SUFFICES ASSUME a = y PROVE FALSE
      OBVIOUS
    <3>1. b # y
      BY NodeIs
    <3>2. b \in Above[y]
      BY <3>1 DEF Up
    <3>3. b < y /\ b \in Node
      BY <3>2, AboveContains
    <3> QED BY <3>3, NodeIs
  <2>3. a \in Above[y]
    BY <2>2 DEF Up
  <2>4. CASE b = y
    BY <2>3, <2>4
  <2>5. CASE b # y
    BY <1>2, <2>1, <2>3, <2>5 DEF Up
  <2> QED BY <2>4, <2>5
<1> HIDE DEF T
<1>3. Node \subseteq T
  BY <1>1, <1>2, DownTree
<1> QED BY <1>3 DEF T

(* On the way up from n, the node before m is a half of it, and what comes     *)
(* before m on that way is that half and what comes before it.                 *)
LEMMA HalfOnTheWay ==
  ASSUME NEW n \in Node, NEW m \in Above[n]
  PROVE  \E c \in Up(n) : /\ c # 0 /\ c \in Node /\ PARENT_INDEX(c) = m
                          /\ getBuddyIndex(c) \notin Up(n)
                          /\ \A x \in Up(n) : x > m <=> x >= c
<1> DEFINE OK(y, c) == /\ c # 0 /\ PARENT_INDEX(c) = m
                       /\ \A x \in Up(y) : x > m <=> x >= c
           T == {y \in Node : m \in Above[y] => \E c \in Up(y) : OK(y, c)}
<1>m. m \in Node /\ m \in Nat
  BY AboveIs, NodeIs
<1>1. 0 \in T
  BY AboveIs, NodeIs
<1>2. ASSUME NEW y \in Node, y # 0, PARENT_INDEX(y) \in T PROVE y \in T
  <2> SUFFICES ASSUME m \in Above[y] PROVE \E c \in Up(y) : OK(y, c)
    OBVIOUS
  <2> DEFINE p == PARENT_INDEX(y)
  <2>1. /\ Above[y] = {p} \cup Above[p] /\ p \in Node /\ p < y
        /\ Up(y) = {y} \cup Up(p) /\ Up(p) = {p} \cup Above[p]
    BY <1>2, AboveIs, Family DEF Up
  <2>2. \A x \in Up(p) : x <= p /\ x \in Nat
    BY <2>1, AboveContains, NodeIs
  <2>n. y \in Nat /\ p \in Nat
    BY <2>1, NodeIs
  <2>3. CASE m = p
    <3>1. \A x \in Up(y) : x > m <=> x >= y
      BY <2>1, <2>2, <2>3, <2>n
    <3>2. OK(y, y) /\ y \in Up(y)
      BY <1>2, <2>3, <3>1 DEF Up
    <3> QED BY <3>2
  <2>4. CASE m \in Above[p]
    <3>1. PICK c \in Up(p) : OK(p, c)
      BY <1>2, <2>4
    <3>2. m < p /\ c <= p /\ c \in Nat
      BY <2>1, <2>2, <2>4, AboveContains
    <3>3. \A x \in Up(y) : x > m <=> x >= c
      BY <1>m, <2>1, <2>n, <3>1, <3>2
    <3>4. OK(y, c) /\ c \in Up(y)
      BY <2>1, <3>1, <3>3
    <3> QED BY <3>4
  <2> QED BY <2>1, <2>3, <2>4
<1> HIDE DEF T
<1>3. Node \subseteq T
  BY <1>1, <1>2, DownTree
<1>4. PICK c \in Up(n) : OK(n, c)
  BY <1>3 DEF T
<1>5. c \in Node /\ c # 0
  BY <1>4, UpIs
<1>6. getBuddyIndex(c) \notin Up(n)
  <2> DEFINE b == getBuddyIndex(c)
  <2>1. b \in Node /\ b # 0 /\ b # c /\ PARENT_INDEX(b) = m
    BY <1>4, <1>5, Family
  <2>2. m \in Above[c] /\ m \in Above[b] /\ Above[b] = {m} \cup Above[m] /\ Above[c] = {m} \cup Above[m]
    BY <1>4, <1>5, <2>1, AboveIs
  <2>3. ASSUME b \in Up(n) PROVE FALSE
    <3>1. b \in Above[c] \/ c \in Above[b]
      <4>1. b \in Nat /\ c \in Nat
        BY <1>5, <2>1, NodeIs
      <4> HIDE DEF b
      <4>2. b < c \/ c < b
        BY <2>1, <4>1
      <4> QED BY <1>5, <2>1, <2>3, <4>2, Linear
    <3>2. ASSUME NEW x \in Node, NEW y \in Node, y \in {m} \cup Above[m], m < y PROVE FALSE
      <4>1. y = m \/ y < m
        BY <1>m, <3>2, AboveContains
      <4> QED BY <1>m, <3>2, <4>1, NodeIs
    <3>3. m < c /\ m < b
      BY <1>5, <2>1, <2>2, AboveContains
    <3> QED BY <1>5, <2>1, <2>2, <3>1, <3>2, <3>3
  <2> QED BY <2>3
<1> QED BY <1>4, <1>5, <1>6

-----------------------------------------------------------------------------
(* Which nodes share memory *)

Overlaps(x, y) == First(x) < First(y) + Width(y) /\ First(y) < First(x) + Width(x)

(* Nodes that share memory are on one way up the tree. *)
LEMMA Laminar ==
  ASSUME NEW x \in Node, NEW y \in Node, Overlaps(x, y)
  PROVE  x = y \/ x \in Above[y] \/ y \in Above[x]
<1> DEFINE T == {z \in Node : Overlaps(x, z) => x \in Up(z) \/ z \in Up(x)}
<1>1. 0 \in T
  BY RootAbove, NodeIs DEF Up
<1>2. ASSUME NEW z \in Node, z # 0, PARENT_INDEX(z) \in T PROVE z \in T
  <2> SUFFICES ASSUME Overlaps(x, z) PROVE x \in Up(z) \/ z \in Up(x)
    OBVIOUS
  <2> DEFINE p == PARENT_INDEX(z)
             b == getBuddyIndex(z)
  <2>1. /\ p \in Node /\ ~ Leaf(p) /\ b \in Node /\ p \in Above[z] /\ Above[z] = Up(p)
        /\ {z, b} = {LEFT_CHILD_INDEX(p), RIGHT_CHILD_INDEX(p)} /\ b # z
    BY <1>2, Family, UpIs DEF Up
  <2>2. First(p) <= First(z) /\ First(z) + Width(z) <= First(p) + Width(p)
    BY <2>1, AboveContains
  <2>3. /\ First(x) \in Nat /\ Width(x) \in Nat /\ First(z) \in Nat /\ Width(z) \in Nat
        /\ First(p) \in Nat /\ Width(p) \in Nat /\ First(b) \in Nat /\ Width(b) \in Nat
    BY <2>1, Extent
  <2>4. ~ Overlaps(b, z)
    <3>1. \/ First(z) = First(p) /\ First(b) = First(p) + Width(z)
          \/ First(b) = First(p) /\ First(z) = First(p) + Width(b)
      BY <2>1, Halves
    <3> HIDE DEF b, p
    <3> QED BY <2>3, <3>1 DEF Overlaps
  <2> HIDE DEF p, b
  <2>5. Overlaps(x, p)
    BY <2>2, <2>3 DEF Overlaps
  <2>6. CASE x \in Up(p)
    BY <2>1, <2>6 DEF Up
  <2>7. CASE p \in Above[x]
    <3>1. PICK c \in Up(x) : c # 0 /\ c \in Node /\ PARENT_INDEX(c) = p
      BY <2>7, HalfOnTheWay
    <3>2. c \in {z, b}
      BY <2>1, <3>1, Family
    <3>3. CASE c = z
      BY <3>1, <3>3
    <3>4. CASE c = b
      <4>1. First(c) <= First(x) /\ First(x) + Width(x) <= First(c) + Width(c)
        BY <2>3, <3>1, AboveContains DEF Up
      <4>2. Overlaps(c, z)
        BY <2>3, <3>4, <4>1 DEF Overlaps
      <4> QED BY <2>4, <3>4, <4>2
    <3> QED BY <3>2, <3>3, <3>4
  <2> QED BY <1>2, <2>5, <2>6, <2>7 DEF Up, p
<1> HIDE DEF T
<1>3. Node \subseteq T
  BY <1>1, <1>2, DownTree
<1> QED BY <1>3 DEF T, Up

(* Of two nodes that share memory the wider is above, and nodes that are as    *)
(* wide are the same.                                                          *)
LEMMA Wider ==
  ASSUME NEW x \in Node, NEW y \in Node, Overlaps(x, y)
  PROVE  /\ Width(x) = Width(y) => x = y
         /\ Width(x) < Width(y) => y \in Above[x]
<1>1. Width(x) \in Nat \ {0} /\ Width(y) \in Nat \ {0}
  BY Extent
<1>2. CASE x = y
  BY <1>1, <1>2
<1>3. CASE x \in Above[y]
  <2>1. 2 * Width(y) <= Width(x)
    BY <1>3, AboveContains
  <2> QED BY <1>1, <2>1
<1>4. CASE y \in Above[x]
  <2>1. 2 * Width(x) <= Width(y)
    BY <1>4, AboveContains
  <2> QED BY <1>1, <1>4, <2>1
<1> QED BY <1>2, <1>3, <1>4, Laminar

(* Block k of the memory is that of a leaf, and a node is above the leaf when  *)
(* block k is one of its own.                                                  *)
LEMMA LeafOf ==
  ASSUME NEW k \in 0 .. amount_of_blocks - 1
  PROVE  LET l == amount_of_blocks - 1 + k
         IN  /\ l \in Node /\ Leaf(l) /\ First(l) = k
             /\ \A n \in Node : n \in Up(l) <=> First(n) <= k /\ k < First(n) + Width(n)
<1> DEFINE l == amount_of_blocks - 1 + k
<1>1. maxOrder \in 0 .. maxOrder /\ maxOrder - maxOrder = 0 /\ amount_of_blocks \in Nat \ {0}
  BY MemoryAssumption, NodeIs
<1>2. l \in Node /\ Order[l] = maxOrder
  BY <1>1, OfLevel DEF amount_of_blocks
<1>3. Width(l) = 1 /\ Leaf(l)
  BY <1>1, <1>2, PowIs, Extent DEF Width
<1>4. First(l) = k
  <2>1. First(l) = (l + 1 - amount_of_blocks) * 1
    BY <1>2, <1>3 DEF First, amount_of_blocks
  <2>2. l + 1 - amount_of_blocks = k
    BY <1>1
  <2> HIDE DEF l
  <2> QED BY <2>1, <2>2
<1> HIDE DEF l
<1>5. ASSUME NEW n \in Node PROVE n \in Up(l) <=> First(n) <= k /\ k < First(n) + Width(n)
  <2>1. First(n) \in Nat /\ Width(n) \in Nat \ {0} /\ n \in Nat /\ l \in Nat
    BY <1>2, Extent, NodeIs
  <2>2. ASSUME n \in Up(l) PROVE First(n) <= k /\ k < First(n) + Width(n)
    <3>1. CASE n = l
      BY <1>3, <1>4, <2>1, <3>1
    <3>2. CASE n \in Above[l]
      <4>1. First(n) <= First(l) /\ First(l) + Width(l) <= First(n) + Width(n)
        BY <1>2, <3>2, AboveContains
      <4> QED BY <1>3, <1>4, <2>1, <4>1
    <3> QED BY <2>2, <3>1, <3>2 DEF Up
  <2>3. ASSUME First(n) <= k, k < First(n) + Width(n) PROVE n \in Up(l)
    <3>1. Overlaps(l, n)
      BY <1>3, <1>4, <2>1, <2>3 DEF Overlaps
    <3>2. Width(l) = Width(n) \/ Width(l) < Width(n)
      BY <1>3, <2>1
    <3> QED BY <1>2, <3>1, <3>2, Wider DEF Up
  <2> QED BY <2>2, <2>3
<1> QED BY <1>2, <1>3, <1>4, <1>5 DEF l

-----------------------------------------------------------------------------
(* What a tree tells *)

Marks == {"EMPTY", "USED", "SPLIT"}

\* The mark s of a node agrees with those of its halves.
Agree(s, x, y) ==
  /\ s = "EMPTY" => x = "EMPTY" /\ y = "EMPTY"
  /\ s = "USED" => x = y /\ x \in {"EMPTY", "USED"}
  /\ s = "SPLIT" => ~ (x = y /\ x \in {"EMPTY", "USED"})

AgreeAt(t, n) == IF Leaf(n) THEN t[n] # "SPLIT"
                 ELSE Agree(t[n], t[LEFT_CHILD_INDEX(n)], t[RIGHT_CHILD_INDEX(n)])

SoundTree(t) == t \in [Node -> Marks] /\ \A n \in Node : AgreeAt(t, n)

Handed(t) == {n \in Node : HandedOut(t, n)}

\* Malloc may hand out node n.
Free(t, n) == t[n] = "EMPTY" /\ \A a \in Above[n] : t[a] # "USED"

(* Below an EMPTY node, and below one that was handed out, all is EMPTY. *)
LEMMA EmptyBelow ==
  ASSUME NEW t, SoundTree(t), NEW n \in Node, NEW a \in Above[n],
         t[a] = "EMPTY" \/ HandedOut(t, a)
  PROVE  t[n] = "EMPTY"
<1> DEFINE T == {y \in Node : a \in Above[y] => t[y] = "EMPTY"}
<1>1. 0 \in T
  BY AboveIs, NodeIs
<1>2. ASSUME NEW y \in Node, y # 0, PARENT_INDEX(y) \in T PROVE y \in T
  <2> DEFINE p == PARENT_INDEX(y)
  <2>1. /\ p \in Node /\ ~ Leaf(p) /\ y \in {LEFT_CHILD_INDEX(p), RIGHT_CHILD_INDEX(p)}
        /\ Above[y] = {p} \cup Above[p]
    BY <1>2, Family, AboveIs
  <2>2. AgreeAt(t, p)
    BY <2>1 DEF SoundTree
  <2> HIDE DEF p
  <2>3. ASSUME t[p] = "EMPTY" \/ HandedOut(t, p) PROVE t[y] = "EMPTY"
    BY <2>1, <2>2, <2>3 DEF HandedOut, AgreeAt, Agree
  <2> QED BY <1>2, <2>1, <2>3 DEF p
<1> HIDE DEF T
<1>3. Node \subseteq T
  BY <1>1, <1>2, DownTree
<1> QED BY <1>3 DEF T

(* No node that was handed out is above another. *)
LEMMA HandedApart ==
  ASSUME NEW t, SoundTree(t), NEW n \in Handed(t), NEW a \in Above[n]
  PROVE  ~ HandedOut(t, a)
BY EmptyBelow DEF Handed, HandedOut

(* Below a USED node all is USED down to what was handed out. *)
LEMMA UsedBelow ==
  ASSUME NEW t, SoundTree(t), NEW n \in Node, NEW a \in Above[n], t[a] = "USED",
         \A x \in Above[n] : ~ HandedOut(t, x)
  PROVE  t[n] = "USED"
<1> DEFINE T == {y \in Node : a \in Above[y] /\ (\A x \in Above[y] : ~ HandedOut(t, x))
                              => t[y] = "USED"}
<1>1. 0 \in T
  BY AboveIs, NodeIs
<1>2. ASSUME NEW y \in Node, y # 0, PARENT_INDEX(y) \in T PROVE y \in T
  <2> DEFINE p == PARENT_INDEX(y)
  <2>1. /\ p \in Node /\ ~ Leaf(p) /\ y \in {LEFT_CHILD_INDEX(p), RIGHT_CHILD_INDEX(p)}
        /\ Above[y] = {p} \cup Above[p]
    BY <1>2, Family, AboveIs
  <2>2. AgreeAt(t, p)
    BY <2>1 DEF SoundTree
  <2> HIDE DEF p
  <2>3. ASSUME t[p] = "USED", ~ HandedOut(t, p) PROVE t[y] = "USED"
    BY <2>1, <2>2, <2>3 DEF HandedOut, AgreeAt, Agree
  <2> QED BY <1>2, <2>1, <2>3 DEF p
<1> HIDE DEF T
<1>3. Node \subseteq T
  BY <1>1, <1>2, DownTree
<1> QED BY <1>3 DEF T

(* In a node that is not EMPTY, something was handed out. *)
LEMMA SomeHanded ==
  ASSUME NEW t, SoundTree(t), NEW n \in Node, t[n] # "EMPTY"
  PROVE  \E x \in Handed(t) : n \in Up(x)
<1> DEFINE m == 2 * amount_of_blocks - 2
           M == [y \in Node |-> m - y]
           T == {y \in Node : t[y] # "EMPTY" => \E x \in Handed(t) : y \in Up(x)}
<1>1. \A y \in Node : M[y] \in Nat
  BY NodeIs
<1>2. ASSUME NEW y \in Node, \A z \in Node : M[z] < M[y] => z \in T PROVE y \in T
  <2> SUFFICES ASSUME t[y] # "EMPTY" PROVE \E x \in Handed(t) : y \in Up(x)
    OBVIOUS
  <2>1. AgreeAt(t, y) /\ t[y] \in Marks
    BY DEF SoundTree
  <2>2. CASE HandedOut(t, y)
    BY <2>2 DEF Handed, Up
  <2>3. CASE ~ HandedOut(t, y)
    <3>1. ~ Leaf(y)
      BY <2>1, <2>3 DEF AgreeAt, HandedOut, Marks
    <3>2. PICK c \in {LEFT_CHILD_INDEX(y), RIGHT_CHILD_INDEX(y)} : t[c] # "EMPTY"
      BY <2>1, <2>3, <3>1 DEF AgreeAt, Agree, HandedOut, Marks
    <3>3. c \in Node /\ c > y /\ c # 0 /\ PARENT_INDEX(c) = y
      BY <3>1, Children
    <3>4. M[c] < M[y]
      BY <3>3, NodeIs
    <3>5. PICK x \in Handed(t) : c \in Up(x)
      BY <1>2, <3>2, <3>3, <3>4
    <3>6. y \in Above[c] /\ x \in Node
      BY <3>3, AboveIs DEF Handed
    <3>7. y \in Up(x)
      BY <3>5, <3>6, AboveAbove DEF Up
    <3> QED BY <3>7
  <2> QED BY <2>2, <2>3
<1> HIDE DEF M, T
<1>3. Node \subseteq T
  BY <1>1, <1>2, Descent DEF Inherits
<1> QED BY <1>3 DEF T

LEMMA UpOverlaps ==
  ASSUME NEW n \in Node, NEW a \in Up(n)
  PROVE  Overlaps(a, n) /\ Overlaps(n, a)
<1>1. a \in Node
  BY UpIs
<1>2. First(n) \in Nat /\ Width(n) \in Nat \ {0} /\ First(a) \in Nat /\ Width(a) \in Nat \ {0}
  BY <1>1, Extent
<1>3. CASE a = n
  BY <1>2, <1>3 DEF Overlaps
<1>4. CASE a \in Above[n]
  <2>1. First(a) <= First(n) /\ First(n) + Width(n) <= First(a) + Width(a)
    BY <1>4, AboveContains
  <2> QED BY <1>2, <2>1 DEF Overlaps
<1> QED BY <1>3, <1>4 DEF Up

(* Malloc may hand out the nodes that share no memory with what was handed     *)
(* out, and no others.                                                         *)
LEMMA FreeIs ==
  ASSUME NEW t, SoundTree(t), NEW n \in Node
  PROVE  Free(t, n) <=> \A x \in Handed(t) : ~ Overlaps(n, x)
<1>1. ASSUME Free(t, n), NEW x \in Handed(t), Overlaps(n, x) PROVE FALSE
  <2>1. x \in Node /\ HandedOut(t, x) /\ t[x] = "USED"
    BY DEF Handed, HandedOut
  <2>2. CASE n \in Above[x]
    BY <1>1, <2>1, <2>2, EmptyBelow DEF Free
  <2> QED BY <1>1, <2>1, <2>2, Laminar DEF Free
<1>2. ASSUME \A x \in Handed(t) : ~ Overlaps(n, x) PROVE Free(t, n)
  <2>1. t[n] = "EMPTY"
    <3> SUFFICES ASSUME t[n] # "EMPTY" PROVE FALSE
      OBVIOUS
    <3>1. PICK x \in Handed(t) : n \in Up(x)
      BY SomeHanded
    <3> QED BY <1>2, <3>1, UpOverlaps DEF Handed
  <2>2. ASSUME NEW x \in Above[n] PROVE ~ HandedOut(t, x)
    BY <1>2, UpOverlaps, UpIs DEF Handed, Up
  <2>3. ASSUME NEW a \in Above[n] PROVE t[a] # "USED"
    BY <2>1, <2>2, UsedBelow
  <2> QED BY <2>1, <2>3 DEF Free
<1> QED BY <1>1, <1>2

(* What was handed out does not overlap. *)
LEMMA HandedDisjoint ==
  ASSUME NEW t, SoundTree(t), NEW x \in Handed(t), NEW y \in Handed(t), Overlaps(x, y)
  PROVE  x = y
<1>1. x \in Node /\ y \in Node /\ HandedOut(t, x) /\ HandedOut(t, y)
  BY DEF Handed
<1> QED BY <1>1, Laminar, HandedApart

-----------------------------------------------------------------------------
(* Marking the way up *)

(* When the marks of t agree except on the way up from n, which became s,      *)
(* Settle makes them agree; nothing is handed out on that way.                 *)
LEMMA Settles ==
  ASSUME NEW t \in [Node -> Marks], NEW n \in Node, NEW s \in {"EMPTY", "USED"}, t[n] = s,
         \A x \in Node \ Above[n] : AgreeAt(t, x)
  PROVE  /\ SoundTree(Settle(t, n, s))
         /\ Handed(Settle(t, n, s)) = {x \in Node \ Above[n] : HandedOut(t, x)}
<1> DEFINE uniform(a) == \A m \in {n} \cup Above[n] : m > a => t[getBuddyIndex(m)] = s
           u == [a \in Node |-> IF a \notin Above[n] THEN t[a]
                                ELSE IF uniform(a) THEN s ELSE "SPLIT"]
<1>1. Settle(t, n, s) = u
  BY DEF Settle
<1>2. u \in [Node -> Marks]
  BY DEF Marks
<1>3. \A x \in Node \ Above[n] : u[x] = t[x]
  OBVIOUS
<1>4. \A x \in Above[n] : x \in Node /\ u[x] = IF uniform(x) THEN s ELSE "SPLIT"
  BY UpIs
<1> HIDE DEF u
<1>5. ASSUME NEW x \in Node \ Above[n], ~ Leaf(x)
      PROVE  /\ u[LEFT_CHILD_INDEX(x)] = t[LEFT_CHILD_INDEX(x)]
             /\ u[RIGHT_CHILD_INDEX(x)] = t[RIGHT_CHILD_INDEX(x)]
  <2>1. ASSUME NEW c \in {LEFT_CHILD_INDEX(x), RIGHT_CHILD_INDEX(x)} PROVE u[c] = t[c]
    <3>1. c \in Node /\ c # 0 /\ PARENT_INDEX(c) = x
      BY <1>5, Children
    <3>2. x \in Above[c]
      BY <3>1, AboveIs
    <3>3. c \notin Above[n]
      BY <1>5, <3>2, AboveAbove
    <3> QED BY <1>3, <3>1, <3>3
  <2> QED BY <2>1
<1>6. ASSUME NEW x \in Node \ Above[n]
      PROVE  AgreeAt(u, x) /\ (HandedOut(u, x) <=> HandedOut(t, x))
  <2>1. u[x] = t[x] /\ AgreeAt(t, x)
    BY <1>3
  <2> QED BY <1>5, <2>1 DEF AgreeAt, HandedOut
<1>7. ASSUME NEW x \in Above[n] PROVE AgreeAt(u, x) /\ ~ HandedOut(u, x)
  <2>1. PICK c \in Up(n) : /\ c # 0 /\ c \in Node /\ PARENT_INDEX(c) = x
                           /\ getBuddyIndex(c) \notin Up(n)
                           /\ \A y \in Up(n) : y > x <=> y >= c
    BY HalfOnTheWay
  <2> DEFINE b == getBuddyIndex(c)
  <2>2. /\ b \in Node /\ ~ Leaf(x) /\ {c, b} = {LEFT_CHILD_INDEX(x), RIGHT_CHILD_INDEX(x)}
        /\ u[b] = t[b] /\ b # c
    BY <1>3, <2>1, Family DEF Up
  <2>3. \A y \in Up(n) : y \in Nat /\ c \in Nat /\ x \in Nat
    BY <1>4, <2>1, UpIs, NodeIs
  <2>4. uniform(x) <=> t[b] = s /\ \A y \in Up(n) : y > c => t[getBuddyIndex(y)] = s
    <3>1. \A y \in Up(n) : y > x <=> y = c \/ y > c
      BY <2>1, <2>3
    <3> QED BY <2>1, <3>1 DEF Up
  <2>5. u[x] = IF t[b] = s /\ u[c] = s THEN s ELSE "SPLIT"
    <3>1. CASE c = n
      <4>1. \A y \in Up(n) : ~ (y > c)
        <5>1. \A y \in Above[n] : y < n
          BY AboveContains
        <5> QED BY <2>3, <3>1, <5>1 DEF Up
      <4>2. n \notin Above[n]
        BY AboveContains, NodeIs
      <4>3. u[c] = s
        BY <1>3, <3>1, <4>2
      <4> QED BY <1>4, <2>4, <4>1, <4>3
    <3>2. CASE c \in Above[n]
      <4>1. u[c] = IF uniform(c) THEN s ELSE "SPLIT"
        BY <1>4, <3>2
      <4>2. uniform(c) <=> \A y \in Up(n) : y > c => t[getBuddyIndex(y)] = s
        BY DEF Up
      <4> HIDE DEF uniform
      <4> QED BY <1>4, <2>4, <4>1, <4>2
    <3> QED BY <2>1, <3>1, <3>2 DEF Up
  <2>6. u[c] \in {s, "SPLIT"}
    <3>1. CASE c = n
      BY <1>3, <3>1, AboveContains, NodeIs
    <3>2. CASE c \in Above[n]
      BY <1>4, <3>2
    <3> QED BY <2>1, <3>1, <3>2 DEF Up
  <2>7. Agree(u[x], u[c], u[b]) /\ Agree(u[x], u[b], u[c])
    BY <2>2, <2>5, <2>6 DEF Agree
  <2>8. u[x] = "USED" => u[c] = "USED"
    BY <2>5
  <2> HIDE DEF b
  <2> QED BY <2>2, <2>7, <2>8 DEF AgreeAt, HandedOut
<1>8. SoundTree(u)
  BY <1>2, <1>6, <1>7 DEF SoundTree
<1>9. Handed(u) = {x \in Node \ Above[n] : HandedOut(t, x)}
  BY <1>4, <1>6, <1>7 DEF Handed
<1> QED BY <1>1, <1>8, <1>9

(* What malloc does to the tree. *)
LEMMA TakenIs ==
  ASSUME NEW t, SoundTree(t), NEW n \in Node, Free(t, n)
  PROVE  SoundTree(Taken(t, n)) /\ Handed(Taken(t, n)) = Handed(t) \cup {n}
<1> DEFINE v == [t EXCEPT ![n] = "USED"]
<1>1. /\ v \in [Node -> Marks] /\ v[n] = "USED"
      /\ \A x \in Node : x # n => v[x] = t[x]
  BY DEF SoundTree, Marks
<1> HIDE DEF v
<1>2. n \notin Above[n] /\ ~ HandedOut(t, n) /\ \A a \in Above[n] : ~ HandedOut(t, a)
  BY AboveContains, NodeIs DEF Free, HandedOut
<1>3. ASSUME NEW x \in Node \ Above[n], ~ Leaf(x)
      PROVE  /\ v[LEFT_CHILD_INDEX(x)] = t[LEFT_CHILD_INDEX(x)]
             /\ v[RIGHT_CHILD_INDEX(x)] = t[RIGHT_CHILD_INDEX(x)]
  <2>1. ASSUME NEW c \in {LEFT_CHILD_INDEX(x), RIGHT_CHILD_INDEX(x)} PROVE c \in Node /\ c # n
    <3>1. c \in Node /\ c # 0 /\ PARENT_INDEX(c) = x
      BY <1>3, Children
    <3> QED BY <1>3, <3>1, AboveIs
  <2> QED BY <1>1, <2>1
<1>4. AgreeAt(t, n) /\ t[n] = "EMPTY"
  BY DEF SoundTree, Free
<1>5. AgreeAt(v, n) /\ HandedOut(v, n)
  BY <1>1, <1>2, <1>3, <1>4 DEF AgreeAt, HandedOut, Agree
<1>6. ASSUME NEW x \in Node \ Above[n], x # n
      PROVE  AgreeAt(v, x) /\ (HandedOut(v, x) <=> HandedOut(t, x))
  <2>1. AgreeAt(t, x) /\ v[x] = t[x]
    BY <1>1, <1>6 DEF SoundTree
  <2> QED BY <1>3, <2>1 DEF AgreeAt, HandedOut
<1>7. \A x \in Node \ Above[n] : AgreeAt(v, x)
  BY <1>5, <1>6
<1>8. /\ SoundTree(Settle(v, n, "USED"))
      /\ Handed(Settle(v, n, "USED")) = {x \in Node \ Above[n] : HandedOut(v, x)}
  BY <1>1, <1>7, Settles
<1>9. {x \in Node \ Above[n] : HandedOut(v, x)} = Handed(t) \cup {n}
  BY <1>2, <1>5, <1>6 DEF Handed
<1> QED BY <1>8, <1>9 DEF Taken, v

(* What free does to the tree: the node that has block k is given back, if one *)
(* was handed out.                                                             *)
LEMMA EmptiedIs ==
  ASSUME NEW t, SoundTree(t), NEW k \in 0 .. amount_of_blocks - 1
  PROVE  /\ SoundTree(Emptied(t, k))
         /\ Handed(Emptied(t, k)) =
              {x \in Handed(t) : ~ (First(x) <= k /\ k < First(x) + Width(x))}
<1> DEFINE leaf == amount_of_blocks - 1 + k
           path == {leaf} \cup Above[leaf]
           stops == {n \in path : HandedOut(t, n) /\ \A m \in path : HandedOut(t, m) => n <= m}
           visited == {n \in path : \A s \in stops : n <= s}
           wiped == [n \in Node |-> IF n \in visited /\ t[n] = "USED" THEN "EMPTY" ELSE t[n]]
           left == {x \in Handed(t) : ~ (First(x) <= k /\ k < First(x) + Width(x))}
<1>1. Emptied(t, k) = IF stops = {} THEN wiped
                      ELSE Settle(wiped, CHOOSE s \in stops : TRUE, "EMPTY")
  BY DEF Emptied
<1>2. /\ leaf \in Node /\ Leaf(leaf) /\ path = Up(leaf)
      /\ \A n \in Node : n \in path <=> First(n) <= k /\ k < First(n) + Width(n)
  BY LeafOf DEF Up
<1>3. left = Handed(t) \ path
  BY <1>2 DEF Handed
<1>4. t \in [Node -> Marks] /\ wiped \in [Node -> Marks] /\ path \in SUBSET Node
  BY <1>2, UpIs DEF SoundTree, Marks
<1> HIDE DEF left
<1>5. CASE \A n \in path : ~ HandedOut(t, n)
  <2>1. stops = {}
    BY <1>5
  <2>2. ASSUME NEW n \in path PROVE t[n] # "USED"
    <3>1. t[leaf] # "USED"
      BY <1>2, <1>5 DEF HandedOut
    <3> HIDE DEF leaf
    <3>2. n \in Above[leaf] => t[n] # "USED"
      BY <1>2, <1>5, <3>1, UsedBelow
    <3> QED BY <3>1, <3>2
  <2>3. \A n \in Node : wiped[n] = t[n]
    BY <2>2
  <2> HIDE DEF wiped, path, stops
  <2>4. wiped = t
    BY <1>4, <2>3
  <2>5. Handed(t) = left
    BY <1>3, <1>5 DEF Handed
  <2> QED BY <1>1, <2>1, <2>4, <2>5 DEF left
<1>6. ASSUME NEW s \in path, HandedOut(t, s)
      PROVE  SoundTree(Emptied(t, k)) /\ Handed(Emptied(t, k)) = left
  <2>1. s \in Node /\ s \in Handed(t) /\ t[s] = "USED" /\ AgreeAt(t, s)
    BY <1>4, <1>6 DEF Handed, HandedOut, SoundTree
  <2>2. ASSUME NEW n \in path, HandedOut(t, n) PROVE n = s
    <3>1. n \in Node /\ n \in Handed(t)
      BY <1>4, <2>2 DEF Handed
    <3>2. Overlaps(n, s)
      <4>1. /\ First(n) \in Nat /\ Width(n) \in Nat /\ First(s) \in Nat /\ Width(s) \in Nat
        BY <2>1, <3>1, Extent
      <4>2. First(n) <= k /\ k < First(n) + Width(n) /\ First(s) <= k /\ k < First(s) + Width(s)
        BY <1>2, <2>1, <3>1
      <4> QED BY <4>1, <4>2 DEF Overlaps
    <3> QED BY <2>1, <3>1, <3>2, HandedDisjoint
  <2>3. stops = {s}
    <3> HIDE DEF path
    <3>1. s <= s
      BY <2>1, NodeIs
    <3>2. \A m \in path : HandedOut(t, m) => s <= m
      BY <2>2, <3>1
    <3>3. s \in stops
      BY <1>6, <3>2
    <3>4. \A n \in stops : n = s
      BY <2>2
    <3> QED BY <3>3, <3>4
  <2>4. ASSUME NEW n \in Node PROVE n \in visited <=> n \in Up(s)
    <3>1. n \in visited <=> n \in path /\ n <= s
      BY <2>3
    <3>2. ASSUME n \in path, n <= s PROVE n \in Up(s)
      <4>1. n = s \/ n < s
        BY <2>1, <3>2, NodeIs
      <4> HIDE DEF leaf
      <4> QED BY <1>2, <1>6, <3>2, <4>1, Linear DEF Up
    <3>3. ASSUME n \in Up(s) PROVE n \in path /\ n <= s
      <4>1. n = s \/ (n \in Above[s] /\ n < s)
        BY <2>1, <3>3, AboveContains DEF Up
      <4>2. n \in Above[s] => n \in Up(leaf)
        <5> HIDE DEF leaf
        <5> QED BY <1>2, <1>6, AboveAbove DEF Up
      <4> QED BY <1>2, <1>6, <2>1, <4>1, <4>2, NodeIs
    <3> QED BY <3>1, <3>2, <3>3
  <2>5. \A n \in Node : wiped[n] = IF n \in Up(s) /\ t[n] = "USED" THEN "EMPTY" ELSE t[n]
    BY <2>4
  <2>6. Emptied(t, k) = Settle(wiped, s, "EMPTY")
    BY <1>1, <2>3
  <2> HIDE DEF leaf, path, stops, visited, wiped
  <2>7. wiped[s] = "EMPTY" /\ s \in Up(s) /\ s \notin Above[s]
    BY <2>1, <2>5, AboveContains, NodeIs DEF Up
  <2>8. ASSUME NEW x \in Node \ Above[s], ~ Leaf(x)
        PROVE  /\ wiped[LEFT_CHILD_INDEX(x)] = t[LEFT_CHILD_INDEX(x)]
               /\ wiped[RIGHT_CHILD_INDEX(x)] = t[RIGHT_CHILD_INDEX(x)]
    <3>1. ASSUME NEW c \in {LEFT_CHILD_INDEX(x), RIGHT_CHILD_INDEX(x)} PROVE c \in Node /\ c \notin Up(s)
      <4>1. c \in Node /\ c # 0 /\ PARENT_INDEX(c) = x
        BY <2>8, Children
      <4>2. x \in Above[c]
        BY <4>1, AboveIs
      <4> QED BY <2>1, <2>8, <4>1, <4>2, AboveAbove DEF Up
    <3> QED BY <2>5, <3>1
  <2>9. ASSUME NEW x \in Node \ Above[s], x # s
        PROVE  AgreeAt(wiped, x) /\ (HandedOut(wiped, x) <=> HandedOut(t, x))
    <3>1. wiped[x] = t[x] /\ AgreeAt(t, x)
      BY <2>5, <2>9 DEF Up, SoundTree
    <3> QED BY <2>8, <3>1 DEF AgreeAt, HandedOut
  <2>10. AgreeAt(wiped, s) /\ ~ HandedOut(wiped, s)
    BY <1>6, <2>1, <2>7, <2>8 DEF AgreeAt, HandedOut, Agree
  <2>11. \A x \in Node \ Above[s] : AgreeAt(wiped, x)
    BY <2>9, <2>10
  <2>12. /\ SoundTree(Settle(wiped, s, "EMPTY"))
         /\ Handed(Settle(wiped, s, "EMPTY")) = {x \in Node \ Above[s] : HandedOut(wiped, x)}
    BY <1>4, <2>1, <2>7, <2>11, Settles
  <2>13. \A a \in Above[s] : ~ HandedOut(t, a)
    BY <2>1, HandedApart
  <2>14. {x \in Node \ Above[s] : HandedOut(wiped, x)} = Handed(t) \ {s}
    BY <2>9, <2>10, <2>13 DEF Handed
  <2>15. left = Handed(t) \ {s}
    BY <1>3, <1>6, <2>2 DEF Handed
  <2> QED BY <2>6, <2>12, <2>14, <2>15
<1> QED BY <1>5, <1>6 DEF left

-----------------------------------------------------------------------------
(* Looking for memory *)

(* Counts of blocks compare as their bytes do. *)
LEMMA InBytes ==
  ASSUME NEW x \in Nat, NEW y \in Nat
  PROVE  /\ x * BLOCK_SIZE < y * BLOCK_SIZE <=> x < y
         /\ x * BLOCK_SIZE <= y * BLOCK_SIZE <=> x <= y
         /\ x * BLOCK_SIZE = y * BLOCK_SIZE <=> x = y
<1>1. BLOCK_SIZE \in Nat \ {0}
  BY MemoryAssumption
<1>2. x * BLOCK_SIZE \in Nat /\ y * BLOCK_SIZE \in Nat
  BY <1>1
<1>3. ASSUME NEW i \in Nat, NEW j \in Nat, i < j PROVE i * BLOCK_SIZE < j * BLOCK_SIZE
  <2>1. (i + 1) * BLOCK_SIZE <= j * BLOCK_SIZE
    BY <1>1, <1>3
  <2>2. (i + 1) * BLOCK_SIZE = i * BLOCK_SIZE + BLOCK_SIZE
    BY <1>1
  <2>3. i * BLOCK_SIZE \in Nat /\ j * BLOCK_SIZE \in Nat
    BY <1>1
  <2> QED BY <1>1, <2>1, <2>2, <2>3
<1>4. (x < y => x * BLOCK_SIZE < y * BLOCK_SIZE) /\ (y < x => y * BLOCK_SIZE < x * BLOCK_SIZE)
  BY <1>3
<1>5. x < y \/ x = y \/ y < x
  OBVIOUS
<1> QED BY <1>2, <1>4, <1>5

(* The smallest block that is enough is taken. *)
LEMMA NeededIs ==
  ASSUME NEW bytes \in 1 .. memoryAvailable
  PROVE  \E j \in 0 .. maxOrder :
           /\ amount_of_blocks_needed(bytes) = pow[j] * BLOCK_SIZE
           /\ bytes <= pow[j] * BLOCK_SIZE
           /\ \A i \in 0 .. maxOrder : bytes <= pow[i] * BLOCK_SIZE => j <= i
<1> DEFINE n == maxOrder + 1
           S == 0 .. n
           size(k) == pow[k] * BLOCK_SIZE
           more(k) == size(k) <= memoryAvailable /\ bytes > size(k)
           Body(f, k) == IF more(k) THEN f[k + 1] ELSE size(k)
           doubled == CHOOSE g : g = [k \in S |-> Body(g, k)]
           M == [k \in S |-> n - k]
           next == [k \in S |-> IF k = n THEN n ELSE k + 1]
           value == [k \in S |-> size(k)]
           step == [p \in Nat \X S |-> p[1]]
           stop == {k \in S : ~ more(k)}
<1>1. n \in Nat /\ maxOrder \in Nat /\ BLOCK_SIZE \in Nat \ {0}
  BY MemoryAssumption
<1>2. \A k \in S : pow[k] \in Nat \ {0}
  BY PowPositive
<1>3. \A k \in S : size(k) \in Nat
  BY <1>1, <1>2
<1>4. ~ more(n)
  <2>1. pow[n] = 2 * pow[maxOrder] /\ pow[maxOrder] \in Nat \ {0}
    <3>1. n \in 1 .. maxOrder + 1 /\ n - 1 = maxOrder /\ maxOrder \in S
      BY <1>1
    <3> QED BY <1>2, <3>1, PowIs
  <2> DEFINE x == pow[maxOrder]
  <2>2. x \in Nat \ {0} /\ (2 * x) * BLOCK_SIZE > x * BLOCK_SIZE
    <3> HIDE DEF x
    <3> QED BY <1>1, <2>1 DEF x
  <2>3. size(n) = (2 * x) * BLOCK_SIZE /\ memoryAvailable = x * BLOCK_SIZE
    BY <2>1 DEF memoryAvailable, amount_of_blocks
  <2>4. x * BLOCK_SIZE \in Nat /\ (2 * x) * BLOCK_SIZE \in Nat
    BY <1>1, <2>2
  <2> HIDE DEF x, n, size
  <2> QED BY <2>2, <2>3, <2>4
<1>5. IsWalk(S, n, M, Nat, next, value, step, stop)
  <2>1. M \in [S -> 0 .. n] /\ next \in [S -> S]
    BY <1>1
  <2>2. value \in [S -> Nat] /\ step \in [Nat \X S -> Nat]
    BY <1>3
  <2>3. ASSUME NEW k \in S, k \notin stop PROVE M[next[k]] < M[k]
    <3>1. k # n
      BY <1>4, <2>3
    <3> QED BY <1>1, <3>1
  <2> HIDE DEF M, next, value, step, stop
  <2> QED BY <2>1, <2>2, <2>3 DEF IsWalk
<1>6. \A d \in Nat, k \in S : step[<<d, k>>] = d
  OBVIOUS
<1>7. \A k \in S : k \notin stop => next[k] = k + 1 /\ k + 1 \in S /\ more(k)
  BY <1>1, <1>4
<1>8. \A k \in S : value[k] = size(k) /\ (k \in stop <=> ~ more(k))
  OBVIOUS
<1> HIDE DEF M, next, value, step, stop, n, size
<1>9. PICK f : Walks(f, S, Nat, next, value, step, stop)
  BY <1>1, <1>5, WalkExists
<1>10. f \in [S -> Nat] /\ \A k \in S : f[k] = Body(f, k)
  <2> HIDE DEF more
  <2>1. /\ f \in [S -> Nat]
        /\ \A k \in S : f[k] = IF k \in stop THEN value[k] ELSE step[<<f[next[k]], k>>]
    BY <1>9 DEF Walks
  <2>2. ASSUME NEW k \in S PROVE f[k] = Body(f, k)
    <3>1. CASE k \in stop
      BY <1>8, <2>1, <3>1
    <3>2. CASE k \notin stop
      <4>1. next[k] = k + 1 /\ k + 1 \in S /\ more(k)
        BY <1>7, <3>2
      <4>2. f[k] = step[<<f[k + 1], k>>] /\ f[k + 1] \in Nat
        BY <2>1, <3>2, <4>1
      <4> QED BY <1>6, <4>1, <4>2
    <3> QED BY <3>1, <3>2
  <2> QED BY <2>1, <2>2
<1> HIDE DEF more
<1>11. f = [k \in S |-> Body(f, k)]
  BY <1>10
<1> HIDE DEF Body
<1>12. doubled = [k \in S |-> Body(doubled, k)]
  BY <1>11
<1> USE DEF Body
<1>13. \A k \in S : doubled[k] = IF more(k) THEN doubled[k + 1] ELSE size(k)
  BY <1>12
<1>14. amount_of_blocks_needed(bytes) = doubled[0]
  BY DEF amount_of_blocks_needed, Body, more, size, n
<1> HIDE DEF doubled
<1> DEFINE OK(k, j) == /\ doubled[k] = size(j) /\ bytes <= size(j)
                       /\ \A i \in k .. maxOrder : bytes <= size(i) => j <= i
           T == {k \in 0 .. maxOrder : \E j \in k .. maxOrder : OK(k, j)}
           D == [k \in 0 .. maxOrder |-> maxOrder - k]
<1>15. ASSUME NEW k \in 0 .. maxOrder, \A i \in 0 .. maxOrder : D[i] < D[k] => i \in T
       PROVE  k \in T
  <2>1. k \in S /\ size(k) \in Nat /\ k + 1 \in S /\ bytes \in Nat
    BY <1>1, <1>3 DEF n
  <2>2. size(k) <= memoryAvailable
    <3>1. pow[k] <= pow[maxOrder] /\ pow[k] \in Nat /\ pow[maxOrder] \in Nat
      <4>1. maxOrder \in S
        BY <1>1 DEF n
      <4>2. k < maxOrder => 2 * pow[k] <= pow[maxOrder]
        BY <1>1, PowGrows
      <4>3. k = maxOrder \/ k < maxOrder
        BY <1>1
      <4> QED BY <1>2, <2>1, <4>1, <4>2, <4>3
    <3> DEFINE x == pow[k]
               y == pow[maxOrder]
    <3>2. x * BLOCK_SIZE <= y * BLOCK_SIZE
      <4> HIDE DEF x, y
      <4> QED BY <1>1, <3>1 DEF x, y
    <3> QED BY <3>2 DEF size, memoryAvailable, amount_of_blocks
  <2>3. CASE bytes <= size(k)
    <3>1. OK(k, k)
      BY <1>13, <2>1, <2>3 DEF more
    <3>2. k \in k .. maxOrder
      BY <1>1
    <3> QED BY <3>1, <3>2
  <2>4. CASE ~ (bytes <= size(k))
    <3>1. more(k)
      BY <2>1, <2>2, <2>4 DEF more
    <3>2. k # maxOrder
      <4>1. bytes <= memoryAvailable /\ memoryAvailable = size(maxOrder)
        BY DEF size, memoryAvailable, amount_of_blocks
      <4> QED BY <2>4, <4>1
    <3>3. k + 1 \in 0 .. maxOrder /\ D[k + 1] < D[k]
      BY <1>1, <3>2
    <3>4. PICK j \in k + 1 .. maxOrder : OK(k + 1, j)
      BY <1>15, <3>3
    <3>5. \A i \in k .. maxOrder : i = k \/ i \in k + 1 .. maxOrder
      BY <1>1
    <3>6. OK(k, j) /\ j \in k .. maxOrder
      BY <1>1, <1>13, <2>1, <2>4, <3>1, <3>4, <3>5
    <3> QED BY <3>6
  <2> QED BY <2>3, <2>4
<1> HIDE DEF T
<1>16. 0 .. maxOrder \subseteq T
  <2>1. \A k \in 0 .. maxOrder : D[k] \in Nat
    BY <1>1
  <2> HIDE DEF D
  <2>2. Inherits(0 .. maxOrder, D, T)
    BY <1>15, <2>1 DEF Inherits
  <2> QED BY <2>2, Descent
<1>17. PICK j \in 0 .. maxOrder : OK(0, j)
  BY <1>1, <1>16 DEF T
<1> QED BY <1>14, <1>17 DEF size

(* The next node in depth-first order that is not below n begins where n ends, *)
(* is not smaller, and everything above it is above n.                         *)
Follows(n, x) ==
  IF x = -1 THEN First(n) + Width(n) = amount_of_blocks
  ELSE /\ x \in Node /\ First(x) = First(n) + Width(n)
       /\ Width(n) <= Width(x) /\ Above[x] \subseteq Above[n]

LEMMA NextIs ==
  \A n \in Node : next_possible_index[n] \in Node \cup {-1} /\ Follows(n, next_possible_index[n])
<1> DEFINE D == Node \cup {-1}
           Body(f, n) == IF n = 0 THEN -1 ELSE IF IS_LEFT_CHILD(n) THEN n + 1 ELSE f[PARENT_INDEX(n)]
           value == [n \in Node |-> IF n # 0 /\ IS_LEFT_CHILD(n) THEN n + 1 ELSE -1]
           step == [p \in D \X Node |-> p[1]]
           stop == {0} \cup {n \in Node : IS_LEFT_CHILD(n)}
           m == 2 * amount_of_blocks - 2
<1>1. m \in Nat
  BY NodeIs
<1>2. ASSUME NEW n \in Node, n # 0, IS_LEFT_CHILD(n)
      PROVE  n + 1 = getBuddyIndex(n) /\ n + 1 \in Node
  BY <1>2, Family DEF getBuddyIndex
<1>3. IsWalk(Node, m, Self, D, Parents, value, step, stop)
  <2>1. value \in [Node -> D]
    BY <1>2
  <2>2. step \in [D \X Node -> D]
    OBVIOUS
  <2>3. \A n \in Node : n \notin stop => Self[Parents[n]] < Self[n]
    BY ParentsLead
  <2> HIDE DEF value, step, stop, D
  <2> QED BY <2>1, <2>2, <2>3, ParentsLead DEF IsWalk
<1>4. \A d \in D, n \in Node : step[<<d, n>>] = d
  OBVIOUS
<1>5. \A n \in Node : /\ n = 0 => n \in stop /\ value[n] = -1
                      /\ n # 0 /\ IS_LEFT_CHILD(n) => n \in stop /\ value[n] = n + 1
                      /\ n # 0 /\ ~ IS_LEFT_CHILD(n) => n \notin stop
  OBVIOUS
<1>6. \A n \in Node : n # 0 => Parents[n] = PARENT_INDEX(n) /\ PARENT_INDEX(n) \in Node
  BY Family DEF Parents
<1> HIDE DEF m, value, step, stop, D
<1>7. PICK f : Walks(f, Node, D, Parents, value, step, stop)
  BY <1>1, <1>3, WalkExists
<1>8. f \in [Node -> D] /\ \A n \in Node : f[n] = Body(f, n)
  <2>1. /\ f \in [Node -> D]
        /\ \A n \in Node : f[n] = IF n \in stop THEN value[n] ELSE step[<<f[Parents[n]], n>>]
    BY <1>7 DEF Walks
  <2>2. ASSUME NEW n \in Node PROVE f[n] = Body(f, n)
    <3>1. CASE n = 0 \/ IS_LEFT_CHILD(n)
      BY <1>5, <2>1, <3>1
    <3>2. CASE n # 0 /\ ~ IS_LEFT_CHILD(n)
      <4>1. f[n] = step[<<f[PARENT_INDEX(n)], n>>] /\ f[PARENT_INDEX(n)] \in D
        BY <1>5, <1>6, <2>1, <3>2
      <4> QED BY <1>4, <3>2, <4>1
    <3> QED BY <3>1, <3>2
  <2> HIDE DEF Body
  <2> QED BY <2>1, <2>2
<1> HIDE DEF Body
<1>9. f = [n \in Node |-> Body(f, n)]
  BY <1>8
<1>10. next_possible_index = CHOOSE g : g = [n \in Node |-> Body(g, n)]
  BY DEF next_possible_index, Body
<1>11. next_possible_index = [n \in Node |-> Body(next_possible_index, n)]
  BY <1>9, <1>10
<1> DEFINE next == next_possible_index
<1>12. \A n \in Node : next[n] = Body(next, n)
  BY <1>11
<1> HIDE DEF next
<1>13. \A n \in Node : next[n] = IF n = 0 THEN -1 ELSE IF IS_LEFT_CHILD(n) THEN n + 1
                                ELSE next[PARENT_INDEX(n)]
  BY <1>12 DEF Body
<1> DEFINE T == {n \in Node : next[n] \in Node \cup {-1} /\ Follows(n, next[n])}
<1>14. 0 \in T
  <2>1. First(0) = 0 /\ Width(0) = amount_of_blocks
    <3>1. Order[0] = 0 /\ pow[0] = 1 /\ maxOrder - 0 = maxOrder /\ amount_of_blocks \in Nat
      BY OrderIs, PowIs, MemoryAssumption, NodeIs
    <3>2. Width(0) = amount_of_blocks
      BY <3>1 DEF Width, amount_of_blocks
    <3>3. First(0) = (0 + 1 - 1) * amount_of_blocks
      BY <3>1, <3>2 DEF First
    <3> QED BY <3>1, <3>2, <3>3
  <2> QED BY <1>13, <2>1, NodeIs DEF Follows
<1>15. ASSUME NEW n \in Node, n # 0, PARENT_INDEX(n) \in T PROVE n \in T
  <2> DEFINE p == PARENT_INDEX(n)
             l == LEFT_CHILD_INDEX(p)
             r == RIGHT_CHILD_INDEX(p)
  <2>1. /\ p \in Node /\ ~ Leaf(p) /\ n \in {l, r} /\ (IS_LEFT_CHILD(n) <=> n = l)
        /\ Above[n] = {p} \cup Above[p]
    BY <1>15, Family, AboveIs
  <2>2. /\ l \in Node /\ r \in Node /\ l # r /\ l # 0 /\ r # 0
        /\ PARENT_INDEX(l) = p /\ PARENT_INDEX(r) = p
    BY <2>1, Children
  <2>3. /\ Width(l) = Width(r) /\ 2 * Width(l) = Width(p)
        /\ First(l) = First(p) /\ First(r) = First(p) + Width(l)
    BY <2>1, Halves
  <2>4. /\ First(p) \in Nat /\ Width(p) \in Nat /\ First(l) \in Nat /\ Width(l) \in Nat
        /\ First(r) \in Nat /\ Width(r) \in Nat
    BY <2>1, <2>2, Extent
  <2>5. Above[l] = Above[r]
    BY <2>2, AboveIs
  <2>6. l + 1 = r
    BY <2>1, NodeIs DEF LEFT_CHILD_INDEX, RIGHT_CHILD_INDEX
  <2>7. CASE IS_LEFT_CHILD(n)
    <3>1. n = l /\ next[n] = r
      BY <1>13, <1>15, <2>1, <2>6, <2>7
    <3> HIDE DEF l, r, p
    <3>2. r # -1
      BY <2>2, NodeIs
    <3>3. Follows(l, r)
      BY <2>2, <2>3, <2>4, <2>5, <3>2 DEF Follows
    <3> QED BY <2>2, <3>1, <3>3
  <2>8. CASE ~ IS_LEFT_CHILD(n)
    <3>1. n = r /\ next[n] = next[p] /\ next[p] \in Node \cup {-1} /\ Follows(p, next[p])
      BY <1>13, <1>15, <2>1, <2>8
    <3> DEFINE x == next[p]
    <3> HIDE DEF l, r, p
    <3>2. First(r) + Width(r) = First(p) + Width(p) /\ Width(r) <= Width(p)
      BY <2>3, <2>4
    <3>3. Follows(r, x)
      <4>1. CASE x = -1
        BY <3>1, <3>2, <4>1 DEF Follows
      <4>2. CASE x # -1
        <5>1. /\ x \in Node /\ First(x) = First(p) + Width(p)
              /\ Width(p) <= Width(x) /\ Above[x] \subseteq Above[p]
          BY <3>1, <4>2 DEF Follows
        <5>2. Width(x) \in Nat
          BY <5>1, Extent
        <5> HIDE DEF x
        <5>3. Width(r) <= Width(x)
          BY <2>4, <3>2, <5>1, <5>2
        <5> QED BY <2>1, <3>1, <3>2, <4>2, <5>1, <5>3 DEF Follows
      <4> QED BY <4>1, <4>2
    <3> QED BY <3>1, <3>3
  <2> QED BY <2>7, <2>8
<1> HIDE DEF T
<1>16. Node \subseteq T
  BY <1>14, <1>15, DownTree
<1> QED BY <1>16 DEF T, next

\* How much of the tree is ahead of node n in depth-first order.
Ahead(n) == IF n = -1 THEN 0
            ELSE (amount_of_blocks - First(n)) * (maxOrder + 2) + (maxOrder + 1 - Order[n])

LEMMA AheadIs ==
  /\ amount_of_blocks * (maxOrder + 2) + maxOrder + 1 \in Nat
  /\ \A n \in Node \cup {-1} :
       Ahead(n) \in 0 .. amount_of_blocks * (maxOrder + 2) + maxOrder + 1
  /\ \A n \in Node, x \in Node \cup {-1} :
       x = -1 \/ First(x) > First(n) \/ (First(x) = First(n) /\ Order[x] > Order[n])
       => Ahead(x) < Ahead(n)
<1> DEFINE N == amount_of_blocks
           K == maxOrder + 2
           Rest(n) == (N - First(n)) * K
<1>1. N \in Nat /\ maxOrder \in Nat /\ K \in Nat /\ N * K \in Nat
  <2>1. N \in Nat /\ maxOrder \in Nat /\ K \in Nat
    BY NodeIs, MemoryAssumption
  <2> HIDE DEF N, K
  <2> QED BY <2>1
<1>2. ASSUME NEW n \in Node PROVE /\ Rest(n) \in Nat /\ Rest(n) <= N * K
                                  /\ Order[n] \in 0 .. maxOrder /\ First(n) \in 0 .. N
  <2>1. First(n) \in Nat /\ First(n) <= N
    BY <1>1, Extent
  <2>2. N - First(n) \in Nat /\ N - First(n) <= N
    BY <1>1, <2>1
  <2> DEFINE d == N - First(n)
  <2>3. d * K \in Nat /\ d * K <= N * K
    <3> HIDE DEF d, N, K
    <3> QED BY <1>1, <2>2 DEF d
  <2> QED BY <1>1, <2>1, <2>3, Level
<1>3. ASSUME NEW n \in Node, NEW x \in Node, First(x) > First(n)
      PROVE  Rest(x) + K <= Rest(n)
  <2>1. First(n) \in 0 .. N /\ First(x) \in 0 .. N
    BY <1>2
  <2> DEFINE d == N - First(n)
             e == N - First(x)
  <2>2. d \in Nat /\ e \in Nat /\ e + 1 <= d
    BY <1>1, <1>3, <2>1
  <2>3. e * K + K <= d * K
    <3> HIDE DEF d, e, N, K
    <3>1. (e + 1) * K <= d * K
      BY <1>1, <2>2
    <3>2. (e + 1) * K = e * K + K
      BY <1>1, <2>2
    <3> QED BY <3>1, <3>2
  <2> QED BY <2>3
<1>4. \A n \in Node : n # -1 /\ Ahead(n) = Rest(n) + (maxOrder + 1 - Order[n])
  BY NodeIs DEF Ahead
<1>5. Ahead(-1) = 0
  BY DEF Ahead
<1>6. K = maxOrder + 2
  OBVIOUS
<1>7. \A n \in Node, x \in Node : First(x) = First(n) => Rest(x) = Rest(n)
  OBVIOUS
<1> HIDE DEF Rest, N, K
<1>8. ASSUME NEW n \in Node \cup {-1} PROVE Ahead(n) \in 0 .. N * K + maxOrder + 1
  <2>1. CASE n = -1
    BY <1>1, <1>5, <2>1
  <2>2. CASE n \in Node
    BY <1>1, <1>2, <1>4, <2>2
  <2> QED BY <2>1, <2>2
<1>9. ASSUME NEW n \in Node, NEW x \in Node \cup {-1},
             x = -1 \/ First(x) > First(n) \/ (First(x) = First(n) /\ Order[x] > Order[n])
      PROVE  Ahead(x) < Ahead(n)
  <2>1. Rest(n) \in Nat /\ Order[n] \in 0 .. maxOrder
    BY <1>2
  <2>2. Ahead(n) = Rest(n) + (maxOrder + 1 - Order[n])
    BY <1>4
  <2>3. CASE x = -1
    BY <1>1, <1>5, <2>1, <2>2, <2>3
  <2>4. CASE x \in Node /\ First(x) > First(n)
    BY <1>1, <1>2, <1>3, <1>4, <1>6, <2>1, <2>2, <2>4
  <2>5. CASE x \in Node /\ First(x) = First(n) /\ Order[x] > Order[n]
    <3>1. Rest(x) = Rest(n) /\ Order[x] \in 0 .. maxOrder
      BY <1>2, <1>7, <2>5
    <3> QED BY <1>1, <1>4, <2>1, <2>2, <2>5, <3>1
  <2> QED BY <1>9, <2>3, <2>4, <2>5
<1> QED BY <1>1, <1>6, <1>8, <1>9 DEF N, K

\* Node r is the first of width w that malloc may hand out; -1 if there is none.
FirstFree(t, w, r) ==
  IF r = -1 THEN \A y \in Node : ~ (Width(y) = w /\ Free(t, y))
  ELSE /\ r \in Node /\ Width(r) = w /\ Free(t, r)
       /\ \A y \in Node : Width(y) = w /\ Free(t, y) => First(r) <= First(y)

\* Nothing that malloc may hand out is behind node n of the walk.
OnTheWalk(t, w, n) ==
  IF n = -1 THEN \A y \in Node : ~ (Width(y) = w /\ Free(t, y))
  ELSE /\ \A a \in Above[n] : t[a] # "USED"
       /\ \A y \in Node : Width(y) = w /\ Free(t, y) => First(n) <= First(y)

(* A node that has nothing to hand out can be left.                            *)
LEMMA WalksOn ==
  ASSUME NEW t, SoundTree(t), NEW w \in Nat \ {0}, NEW n \in Node, w <= Width(n),
         t[n] = "USED" \/ (Width(n) = w /\ t[n] # "EMPTY"), NEW y \in Node, Width(y) = w, Free(t, y),
         First(n) <= First(y)
  PROVE  First(n) + Width(n) <= First(y)
<1> SUFFICES ASSUME First(y) < First(n) + Width(n) PROVE FALSE
  BY Extent
<1>1. First(n) \in Nat /\ Width(n) \in Nat /\ First(y) \in Nat
  BY Extent
<1>2. Overlaps(y, n)
  BY <1>1 DEF Overlaps
<1>3. y = n \/ (n \in Above[y] /\ Width(n) # w)
  BY <1>1, <1>2, Wider
<1> QED BY <1>3 DEF Free

(* Malloc finds the first node of the width that it may hand out.              *)
LEMMA SearchIs ==
  ASSUME NEW t, SoundTree(t), NEW j \in 0 .. maxOrder
  PROVE  FirstFree(t, pow[j], Search(t, pow[j] * BLOCK_SIZE))
<1> DEFINE w == pow[j]
           size == w * BLOCK_SIZE
           D == {n \in Node : BlockSize(n) >= size}
           S == {-1} \cup D
           Body(f, n) == IF n = -1 THEN -1
                         ELSE IF t[n] = "USED" THEN f[next_possible_index[n]]
                         ELSE IF BlockSize(n) = size
                              THEN IF t[n] = "EMPTY" THEN n ELSE f[next_possible_index[n]]
                         ELSE IF t[LEFT_CHILD_INDEX(n)] # "USED" THEN f[LEFT_CHILD_INDEX(n)]
                         ELSE f[RIGHT_CHILD_INDEX(n)]
           from == CHOOSE g : g = [n \in S |-> Body(g, n)]
           ends(n) == n = -1 \/ (t[n] = "EMPTY" /\ Width(n) = w)
           leaves(n) == t[n] = "USED" \/ Width(n) = w
           to(n) == IF leaves(n) THEN next_possible_index[n]
                    ELSE IF t[LEFT_CHILD_INDEX(n)] # "USED" THEN LEFT_CHILD_INDEX(n)
                    ELSE RIGHT_CHILD_INDEX(n)
           m == amount_of_blocks * (maxOrder + 2) + maxOrder + 1
           M == [n \in S |-> Ahead(n)]
           next == [n \in S |-> IF ends(n) THEN n ELSE to(n)]
           value == [n \in S |-> n]
           step == [p \in S \X S |-> p[1]]
           stop == {n \in S : ends(n)}
<1>1. Search(t, size) = from[0]
  BY DEF Search
<1>2. w \in Nat \ {0} /\ maxOrder \in Nat /\ BLOCK_SIZE \in Nat \ {0}
  <2>1. j \in 0 .. maxOrder + 1
    BY MemoryAssumption
  <2> QED BY <2>1, PowPositive, MemoryAssumption
<1> HIDE DEF w
<1>3. ASSUME NEW n \in Node
      PROVE  /\ Width(n) \in Nat \ {0} /\ First(n) \in Nat
             /\ BlockSize(n) >= size <=> Width(n) >= w
             /\ BlockSize(n) = size <=> Width(n) = w
  <2>1. Width(n) \in Nat \ {0} /\ First(n) \in Nat /\ BlockSize(n) = Width(n) * BLOCK_SIZE
    BY Extent DEF BlockSize, Width
  <2>2. w * BLOCK_SIZE <= Width(n) * BLOCK_SIZE <=> w <= Width(n)
    BY <1>2, <2>1, InBytes
  <2>3. Width(n) * BLOCK_SIZE = w * BLOCK_SIZE <=> Width(n) = w
    BY <1>2, <2>1, InBytes
  <2>4. Width(n) * BLOCK_SIZE \in Nat /\ w * BLOCK_SIZE \in Nat
    BY <1>2, <2>1
  <2> QED BY <1>2, <2>1, <2>2, <2>3, <2>4
<1>4. D = {n \in Node : Width(n) >= w} /\ D \in SUBSET Node
  BY <1>3
<1>5. \A n \in Node : n # -1 /\ n \in Nat
  BY NodeIs
<1>6. 0 \in D
  <2>1. j < maxOrder => 2 * pow[j] <= pow[maxOrder]
    BY <1>2, PowGrows
  <2>2. pow[maxOrder] \in Nat /\ (j = maxOrder \/ j < maxOrder)
    BY <1>2, NodeIs DEF amount_of_blocks
  <2>3. w <= pow[maxOrder]
    BY <1>2, <2>1, <2>2 DEF w
  <2>4. Width(0) = pow[maxOrder]
    <3>1. Order[0] = 0 /\ maxOrder - 0 = maxOrder
      BY <1>2, OrderIs
    <3> QED BY <3>1 DEF Width
  <2> QED BY <1>2, <1>4, <2>2, <2>3, <2>4, NodeIs
<1>7. ASSUME NEW n \in D, ~ leaves(n)
      PROVE  LET l == LEFT_CHILD_INDEX(n)
                 r == RIGHT_CHILD_INDEX(n)
             IN  /\ l \in D /\ r \in D /\ First(l) = First(n) /\ First(r) = First(n) + Width(l)
                 /\ Width(l) \in Nat \ {0} /\ Order[l] > Order[n]
                 /\ Above[l] = {n} \cup Above[n] /\ Above[r] = {n} \cup Above[n]
  <2>1. n \in Node /\ Width(n) \in Nat /\ Width(n) > w
    BY <1>2, <1>3, <1>4, <1>7
  <2>2. ~ Leaf(n)
    BY <1>2, <2>1, Extent
  <2> DEFINE l == LEFT_CHILD_INDEX(n)
             r == RIGHT_CHILD_INDEX(n)
             o == Order[n]
  <2>3. /\ l \in Node /\ r \in Node /\ l # 0 /\ r # 0
        /\ PARENT_INDEX(l) = n /\ PARENT_INDEX(r) = n
    BY <2>1, <2>2, Children
  <2>4. /\ Width(l) = Width(r) /\ 2 * Width(l) = Width(n)
        /\ First(l) = First(n) /\ First(r) = First(n) + Width(l)
    BY <2>1, <2>2, Halves
  <2>5. Order[l] = Order[n] + 1 /\ Order[n] \in 0 .. maxOrder
    BY <2>1, <2>3, OrderIs, Level
  <2>6. Width(l) >= w
    <3>1. Width(n) = pow[maxOrder - o] /\ maxOrder - o \in 0 .. maxOrder + 1 /\ j \in 0 .. maxOrder + 1
      BY <1>2, <2>5 DEF Width
    <3>2. ASSUME ~ (j < maxOrder - o) PROVE FALSE
      <4>1. maxOrder - o = j \/ maxOrder - o < j
        BY <1>2, <2>5, <3>2
      <4>2. maxOrder - o < j => 2 * pow[maxOrder - o] <= pow[j]
        BY <3>1, PowGrows
      <4> QED BY <1>2, <2>1, <3>1, <4>1, <4>2 DEF w
    <3>3. 2 * pow[j] <= pow[maxOrder - o]
      BY <3>1, <3>2, PowGrows
    <3>4. Width(l) \in Nat
      BY <1>3, <2>3
    <3> QED BY <1>2, <2>1, <2>4, <3>1, <3>3, <3>4 DEF w
  <2>7. Above[l] = {n} \cup Above[n] /\ Above[r] = {n} \cup Above[n]
    BY <2>3, AboveIs
  <2> HIDE DEF l, r, o, D
  <2>8. l \in D /\ r \in D /\ Width(l) \in Nat \ {0} /\ Order[l] > Order[n]
    BY <1>3, <1>4, <2>3, <2>4, <2>5, <2>6
  <2> QED BY <2>4, <2>7, <2>8 DEF l, r
<1>8. ASSUME NEW n \in D
      PROVE  LET x == next_possible_index[n]
             IN  x \in S /\ Follows(n, x) /\ (x # -1 => First(x) > First(n))
  <2> DEFINE x == next_possible_index[n]
  <2>1. n \in Node /\ x \in Node \cup {-1} /\ Follows(n, x)
    BY <1>4, NextIs
  <2> HIDE DEF x
  <2>2. CASE x = -1
    BY <2>1, <2>2 DEF x
  <2>3. CASE x # -1
    <3>1. x \in Node /\ First(x) = First(n) + Width(n) /\ Width(n) <= Width(x)
      BY <2>1, <2>3 DEF Follows
    <3>2. Width(n) \in Nat \ {0} /\ Width(x) \in Nat /\ First(n) \in Nat /\ Width(n) >= w
      BY <1>3, <1>4, <2>1, <3>1
    <3>3. x \in D /\ First(x) > First(n)
      <4> HIDE DEF D
      <4> QED BY <1>2, <1>4, <3>1, <3>2
    <3> QED BY <2>1, <3>3 DEF x
  <2> QED BY <2>2, <2>3
<1> HIDE DEF D
<1>9. ASSUME NEW n \in S, ~ ends(n) PROVE n \in D /\ to(n) \in S /\ Ahead(to(n)) < Ahead(n)
  <2>1. n \in D /\ n \in Node
    BY <1>4, <1>9
  <2>2. CASE leaves(n)
    <3> DEFINE x == next_possible_index[n]
    <3>1. x \in S /\ (x # -1 => First(x) > First(n)) /\ to(n) = x
      BY <1>8, <2>1, <2>2
    <3> HIDE DEF x, to, ends, leaves
    <3>2. x \in Node \cup {-1}
      BY <1>4, <3>1
    <3> QED BY <2>1, <3>1, <3>2, AheadIs
  <2>3. CASE ~ leaves(n)
    <3> DEFINE l == LEFT_CHILD_INDEX(n)
               r == RIGHT_CHILD_INDEX(n)
    <3>1. /\ l \in D /\ r \in D /\ First(l) = First(n) /\ First(r) = First(n) + Width(l)
          /\ Width(l) \in Nat \ {0} /\ Order[l] > Order[n]
      BY <1>7, <2>1, <2>3
    <3>2. to(n) = l \/ to(n) = r
      BY <2>3
    <3> HIDE DEF l, r, to, ends, leaves
    <3>3. l \in Node /\ r \in Node /\ First(n) \in Nat
      BY <1>3, <1>4, <2>1, <3>1
    <3>4. First(r) > First(n)
      BY <3>1, <3>3
    <3>5. Ahead(l) < Ahead(n) /\ Ahead(r) < Ahead(n)
      BY <2>1, <3>1, <3>3, <3>4, AheadIs
    <3> QED BY <2>1, <3>1, <3>2, <3>5
  <2> QED BY <2>2, <2>3
<1>10. m \in Nat /\ \A n \in S : Ahead(n) \in 0 .. m
  BY <1>4, AheadIs
<1> HIDE DEF m
<1>11. IsWalk(S, m, M, S, next, value, step, stop)
  <2>1. M \in [S -> 0 .. m]
    BY <1>10
  <2>2. next \in [S -> S]
    <3> HIDE DEF S, to, ends
    <3> QED BY <1>9
  <2>3. value \in [S -> S] /\ step \in [S \X S -> S]
    <3> HIDE DEF S
    <3> QED OBVIOUS
  <2>4. ASSUME NEW n \in S, n \notin stop PROVE M[next[n]] < M[n]
    <3>1. ~ ends(n) /\ next[n] = to(n) /\ to(n) \in S
      BY <1>9, <2>4
    <3> HIDE DEF S, to, ends, next, stop
    <3>2. M[n] = Ahead(n) /\ M[to(n)] = Ahead(to(n))
      BY <3>1
    <3> QED BY <1>9, <3>1, <3>2
  <2> HIDE DEF M, next, value, step, stop, S
  <2> QED BY <2>1, <2>2, <2>3, <2>4 DEF IsWalk
<1>12. \A n \in S : /\ n \in stop <=> ends(n)
                    /\ value[n] = n
                    /\ ~ ends(n) => next[n] = to(n)
  <2> HIDE DEF S, to, ends
  <2> QED OBVIOUS
<1>13. \A d \in S, n \in S : step[<<d, n>>] = d
  <2> HIDE DEF S
  <2> QED OBVIOUS
<1> HIDE DEF M, next, value, step, stop
<1>14. PICK f : Walks(f, S, S, next, value, step, stop)
  BY <1>10, <1>11, WalkExists
<1>15. ASSUME NEW g, NEW n \in S PROVE Body(g, n) = IF ends(n) THEN n ELSE g[to(n)]
  <2>1. CASE n = -1
    BY <2>1
  <2>2. CASE n \in D
    <3>1. n # -1 /\ (BlockSize(n) = size <=> Width(n) = w)
      BY <1>3, <1>4, <1>5, <2>2
    <3> HIDE DEF size
    <3>2. CASE t[n] = "USED"
      BY <3>1, <3>2
    <3>3. CASE t[n] # "USED" /\ Width(n) = w
      BY <3>1, <3>3
    <3>4. CASE t[n] # "USED" /\ Width(n) # w
      BY <3>1, <3>4
    <3> QED BY <3>2, <3>3, <3>4
  <2> QED BY <2>1, <2>2
<1> HIDE DEF Body
<1>16. \A n \in S : f[n] = Body(f, n)
  <2>1. /\ f \in [S -> S]
        /\ \A n \in S : f[n] = IF n \in stop THEN value[n] ELSE step[<<f[next[n]], n>>]
    BY <1>14 DEF Walks
  <2>2. ASSUME NEW n \in S PROVE f[n] = Body(f, n)
    <3> HIDE DEF S, to, ends
    <3>1. CASE ends(n)
      BY <1>12, <1>15, <2>1, <3>1
    <3>2. CASE ~ ends(n)
      <4>1. to(n) \in S /\ next[n] = to(n) /\ n \notin stop
        BY <1>9, <1>12, <3>2
      <4>2. f[n] = step[<<f[to(n)], n>>] /\ f[to(n)] \in S
        BY <2>1, <4>1
      <4> QED BY <1>13, <1>15, <3>2, <4>2
    <3> QED BY <3>1, <3>2
  <2> QED BY <2>2
<1>17. f \in [S -> S]
  BY <1>14 DEF Walks
<1>18. f = [n \in S |-> Body(f, n)]
  <2> HIDE DEF S
  <2> QED BY <1>16, <1>17
<1>19. from = [n \in S |-> Body(from, n)]
  BY <1>18
<1> HIDE DEF from
<1>20. ASSUME NEW n \in S PROVE from[n] = IF ends(n) THEN n ELSE from[to(n)]
  <2>1. from[n] = Body(from, n)
    <3> HIDE DEF S
    <3> QED BY <1>19
  <2> QED BY <1>15, <2>1
<1>21. ASSUME NEW n \in S, ends(n), OnTheWalk(t, w, n) PROVE FirstFree(t, w, n)
  <2>1. CASE n = -1
    BY <1>21, <2>1 DEF OnTheWalk, FirstFree
  <2>2. CASE n # -1
    <3>1. n \in Node /\ t[n] = "EMPTY" /\ Width(n) = w
      BY <1>4, <1>21, <2>2
    <3> QED BY <1>21, <2>2, <3>1 DEF OnTheWalk, FirstFree, Free
  <2> QED BY <2>1, <2>2
<1>22. ASSUME NEW n \in S, ~ ends(n), OnTheWalk(t, w, n) PROVE OnTheWalk(t, w, to(n))
  <2>1. n \in D /\ n \in Node /\ n # -1 /\ w <= Width(n) /\ First(n) \in Nat /\ Width(n) \in Nat
    <3>1. n \in D
      BY <1>22
    <3> QED BY <1>2, <1>3, <1>4, <1>5, <3>1
  <2>2. /\ \A a \in Above[n] : t[a] # "USED"
        /\ \A y \in Node : Width(y) = w /\ Free(t, y) => First(n) <= First(y)
    BY <1>22, <2>1 DEF OnTheWalk
  <2>3. CASE leaves(n)
    <3> DEFINE x == next_possible_index[n]
    <3>1. to(n) = x /\ x \in S /\ Follows(n, x)
      BY <1>8, <2>1, <2>3
    <3>2. ASSUME NEW y \in Node, Width(y) = w, Free(t, y) PROVE First(n) + Width(n) <= First(y)
      <4>1. t[n] = "USED" \/ (Width(n) = w /\ t[n] # "EMPTY")
        BY <1>22, <2>3
      <4>2. First(n) <= First(y)
        BY <2>2, <3>2
      <4> QED BY <1>2, <2>1, <3>2, <4>1, <4>2, WalksOn
    <3> HIDE DEF x, to, ends, leaves
    <3>3. CASE x = -1
      <4>1. ASSUME NEW y \in Node, Width(y) = w, Free(t, y) PROVE FALSE
        <5>1. First(n) + Width(n) <= First(y) /\ First(n) + Width(n) = amount_of_blocks
          BY <3>1, <3>2, <3>3, <4>1 DEF Follows
        <5>2. First(y) \in Nat /\ Width(y) \in Nat \ {0} /\ First(y) + Width(y) <= amount_of_blocks
          BY Extent
        <5> QED BY <2>1, <5>1, <5>2, NodeIs
      <4> QED BY <3>1, <3>3, <4>1 DEF OnTheWalk
    <3>4. CASE x # -1
      <4>1. First(x) = First(n) + Width(n) /\ Above[x] \subseteq Above[n]
        BY <3>1, <3>4 DEF Follows
      <4> QED BY <2>2, <3>1, <3>2, <3>4, <4>1 DEF OnTheWalk
    <3> QED BY <3>3, <3>4
  <2>4. CASE ~ leaves(n)
    <3> DEFINE l == LEFT_CHILD_INDEX(n)
               r == RIGHT_CHILD_INDEX(n)
    <3>1. /\ l \in D /\ r \in D /\ First(l) = First(n) /\ First(r) = First(n) + Width(l)
          /\ Above[l] = {n} \cup Above[n] /\ Above[r] = {n} \cup Above[n]
      BY <1>7, <2>1, <2>4
    <3>2. to(n) = IF t[l] # "USED" THEN l ELSE r
      BY <2>4
    <3>3. t[n] # "USED"
      BY <2>4
    <3> HIDE DEF l, r, to, ends, leaves
    <3>4. /\ l \in Node /\ r \in Node /\ l # -1 /\ r # -1 /\ w <= Width(l) /\ Width(l) \in Nat
      BY <1>2, <1>3, <1>4, <1>5, <3>1
    <3>5. CASE t[l] # "USED"
      BY <2>2, <3>1, <3>2, <3>3, <3>4, <3>5 DEF OnTheWalk
    <3>6. CASE t[l] = "USED"
      <4>1. ASSUME NEW y \in Node, Width(y) = w, Free(t, y) PROVE First(r) <= First(y)
        <5>1. First(l) <= First(y)
          BY <2>2, <3>1, <4>1
        <5> QED BY <1>2, <3>1, <3>4, <3>6, <4>1, <5>1, WalksOn
      <4> QED BY <2>2, <3>1, <3>2, <3>3, <3>4, <3>6, <4>1 DEF OnTheWalk
    <3> QED BY <3>5, <3>6
  <2> QED BY <2>3, <2>4
<1> DEFINE T == {n \in S : OnTheWalk(t, w, n) => FirstFree(t, w, from[n])}
<1>23. ASSUME NEW n \in S, \A k \in S : Ahead(k) < Ahead(n) => k \in T PROVE n \in T
  <2> HIDE DEF S, to, ends
  <2>1. CASE ends(n)
    BY <1>20, <1>21, <2>1
  <2>2. CASE ~ ends(n)
    <3>1. to(n) \in T
      BY <1>9, <1>23, <2>2
    <3> QED BY <1>20, <1>22, <2>2, <3>1
  <2> QED BY <2>1, <2>2
<1> HIDE DEF T
<1>24. S \subseteq T
  <2> HIDE DEF S
  <2>1. \A n \in S : M[n] = Ahead(n)
    BY DEF M
  <2>2. \A n \in S : M[n] \in Nat
    BY <1>10, <2>1
  <2>3. Inherits(S, M, T)
    BY <1>23, <2>1, <2>2 DEF Inherits
  <2> QED BY <2>3, Descent
<1>25. OnTheWalk(t, w, 0)
  <2>1. \A y \in Node : First(0) <= First(y)
    <3>1. First(0) = 0
      <4>1. (0 + 1 - 1) * Width(0) = 0 /\ Order[0] = 0 /\ pow[0] = 1
        BY OrderIs, PowIs, Extent, NodeIs
      <4> QED BY <4>1 DEF First
    <3> QED BY <3>1, Extent
  <2> QED BY <2>1, AboveIs DEF OnTheWalk
<1> QED BY <1>1, <1>6, <1>24, <1>25 DEF T, w

-----------------------------------------------------------------------------
(* What programs hold *)

\* The tree agrees with itself and with what programs hold.
MemoryInv ==
  /\ SoundTree(pages)
  /\ held = {BlockOf(n) : n \in Handed(pages)}
  /\ reply \in {NULL} \cup {k * BLOCK_SIZE : k \in 0 .. amount_of_blocks - 1}

LEMMA BlockIs ==
  ASSUME NEW n \in Node
  PROVE  /\ BlockOf(n) = [start |-> First(n) * BLOCK_SIZE, size |-> Width(n) * BLOCK_SIZE]
         /\ First(n) * BLOCK_SIZE + Width(n) * BLOCK_SIZE = (First(n) + Width(n)) * BLOCK_SIZE
         /\ First(n) \in 0 .. amount_of_blocks - 1
         /\ First(n) * BLOCK_SIZE \in Nat /\ Width(n) * BLOCK_SIZE \in Nat \ {0}
         /\ First(n) * BLOCK_SIZE + Width(n) * BLOCK_SIZE <= memoryAvailable
         /\ memoryAvailable \in Nat
<1> DEFINE w == Width(n)
           i == n + 1 - pow[Order[n]]
           f == First(n)
           N == amount_of_blocks
<1>1. w \in Nat \ {0} /\ BLOCK_SIZE \in Nat \ {0} /\ f \in Nat /\ f + w <= N /\ N \in Nat
  BY Extent, MemoryAssumption, NodeIs
<1>2. i \in Int
  <2>1. maxOrder \in Nat /\ Order[n] \in 0 .. maxOrder
    BY MemoryAssumption, Level
  <2>2. pow[Order[n]] \in Nat
    BY <2>1, PowPositive
  <2> QED BY <2>2, NodeIs
<1>3. /\ BlockSize(n) = w * BLOCK_SIZE /\ calculateOffset(n) = i * (w * BLOCK_SIZE) /\ f = i * w
      /\ memoryAvailable = N * BLOCK_SIZE
  BY DEF BlockSize, Width, calculateOffset, First, memoryAvailable
<1> HIDE DEF w, i, f, N
<1>4. i * (w * BLOCK_SIZE) = (i * w) * BLOCK_SIZE
  BY <1>1, <1>2
<1>5. f * BLOCK_SIZE \in Nat /\ w * BLOCK_SIZE \in Nat /\ N * BLOCK_SIZE \in Nat
  BY <1>1
<1>6. w * BLOCK_SIZE # 0
  BY <1>1
<1>7. f * BLOCK_SIZE + w * BLOCK_SIZE = (f + w) * BLOCK_SIZE
  BY <1>1
<1>8. (f + w) * BLOCK_SIZE <= N * BLOCK_SIZE
  <2>1. f + w \in Nat
    BY <1>1
  <2> QED BY <1>1, <2>1, InBytes
<1>9. f \in 0 .. N - 1
  BY <1>1
<1> QED BY <1>3, <1>4, <1>5, <1>6, <1>7, <1>8, <1>9 DEF BlockOf, w, f, N

LEMMA BlocksOverlap ==
  ASSUME NEW x \in Node, NEW y \in Node
  PROVE  Alloc!Overlap(BlockOf(x), BlockOf(y)) <=> Overlaps(x, y)
<1>1. First(x) \in Nat /\ Width(x) \in Nat /\ First(y) \in Nat /\ Width(y) \in Nat
  BY Extent
<1>2. First(x) + Width(x) \in Nat /\ First(y) + Width(y) \in Nat
  BY <1>1
<1>3. /\ First(x) * BLOCK_SIZE < (First(y) + Width(y)) * BLOCK_SIZE <=> First(x) < First(y) + Width(y)
      /\ First(y) * BLOCK_SIZE < (First(x) + Width(x)) * BLOCK_SIZE <=> First(y) < First(x) + Width(x)
  BY <1>1, <1>2, InBytes
<1> QED BY <1>3, BlockIs DEF Alloc!Overlap, Overlaps

(* Blocks that were handed out and begin at one place are the same. *)
LEMMA StartsApart ==
  ASSUME NEW t, SoundTree(t), NEW x \in Handed(t), NEW y \in Handed(t), First(x) = First(y)
  PROVE  x = y
<1>1. x \in Node /\ y \in Node
  BY DEF Handed
<1>2. First(x) \in Nat /\ Width(x) \in Nat \ {0} /\ Width(y) \in Nat \ {0}
  BY <1>1, Extent
<1>3. Overlaps(x, y)
  BY <1>2 DEF Overlaps
<1> QED BY <1>3, HandedDisjoint

(* What the invariant says is what the runs check. *)
LEMMA MemoryInvSound == MemoryInv => MemorySound
<1> SUFFICES ASSUME MemoryInv PROVE MemorySound
  OBVIOUS
<1> USE DEF MemoryInv
<1>1. TypeOK
  <2>1. pages \in [Node -> {"EMPTY", "USED", "SPLIT"}]
    BY DEF SoundTree, Marks
  <2>2. ASSUME NEW b \in held PROVE b.start \in 0 .. memoryAvailable - 1 /\ b.size \in Nat
    <3>1. PICK n \in Handed(pages) : b = BlockOf(n)
      OBVIOUS
    <3>2. n \in Node
      BY DEF Handed
    <3> QED BY <3>1, <3>2, BlockIs
  <2> QED BY <2>1, <2>2 DEF TypeOK
<1>2. TreeSound
  <2>1. ASSUME NEW n \in Node, ~ Leaf(n)
        PROVE  LET halves == {pages[LEFT_CHILD_INDEX(n)], pages[RIGHT_CHILD_INDEX(n)]}
               IN  CASE pages[n] = "EMPTY" -> halves = {"EMPTY"}
                     [] pages[n] = "USED"  -> halves \in {{"EMPTY"}, {"USED"}}
                     [] pages[n] = "SPLIT" -> halves \notin {{"EMPTY"}, {"USED"}}
    <3> DEFINE s == pages[n]
               x == pages[LEFT_CHILD_INDEX(n)]
               y == pages[RIGHT_CHILD_INDEX(n)]
    <3>1. Agree(s, x, y) /\ s \in Marks
      BY <2>1 DEF SoundTree, AgreeAt
    <3> HIDE DEF s, x, y
    <3>2. CASE s = "EMPTY"
      BY <3>1, <3>2 DEF Agree, s, x, y
    <3>3. CASE s = "USED"
      <4>1. {x, y} \in {{"EMPTY"}, {"USED"}}
        BY <3>1, <3>3 DEF Agree
      <4> QED BY <3>3, <4>1 DEF s, x, y
    <3>4. CASE s = "SPLIT"
      <4>1. {x, y} \notin {{"EMPTY"}, {"USED"}}
        BY <3>1, <3>4 DEF Agree
      <4> QED BY <3>4, <4>1 DEF s, x, y
    <3> QED BY <3>1, <3>2, <3>3, <3>4 DEF Marks
  <2> QED BY <2>1 DEF TreeSound
<1>3. NothingLeaks
  <2>1. {m \in Node : HandedOut(pages, m) /\ \A a \in Above[m] : ~ HandedOut(pages, a)}
        = Handed(pages)
    BY HandedApart DEF Handed
  <2> QED BY <2>1 DEF NothingLeaks
<1> QED BY <1>1, <1>2, <1>3 DEF MemorySound

(* The free blocks of a size are those of the nodes that malloc may hand out. *)
LEMMA FreeBlocksAre ==
  ASSUME MemoryInv, NEW j \in 0 .. maxOrder
  PROVE  Alloc!FreeBlocks(pow[j] * BLOCK_SIZE)
         = {BlockOf(n) : n \in {m \in Node : Width(m) = pow[j] /\ Free(pages, m)}}
<1> DEFINE w == pow[j]
           size == w * BLOCK_SIZE
           N == amount_of_blocks
           fitting == {m \in Node : Width(m) = w /\ Free(pages, m)}
           Aligned == {k * size : k \in 0 .. memoryAvailable}
<1>1. /\ w \in Nat \ {0} /\ BLOCK_SIZE \in Nat \ {0} /\ maxOrder \in Nat /\ N \in Nat
      /\ maxOrder - j \in 0 .. maxOrder /\ maxOrder - (maxOrder - j) = j
      /\ memoryAvailable = N * BLOCK_SIZE
      /\ pow[maxOrder - j] \in Nat /\ w * pow[maxOrder - j] = N
  <2>1. j \in 0 .. maxOrder + 1 /\ maxOrder - j \in 0 .. maxOrder + 1 /\ maxOrder - j \in 0 .. maxOrder
        /\ maxOrder - (maxOrder - j) = j
    BY MemoryAssumption
  <2> QED BY <2>1, PowPositive, PowSplits, NodeIs, MemoryAssumption DEF memoryAvailable, amount_of_blocks
<1>2. ASSUME NEW n \in Node PROVE Free(pages, n) <=> \A c \in held : ~ Alloc!Overlap(BlockOf(n), c)
  <2>1. Free(pages, n) <=> \A x \in Handed(pages) : ~ Overlaps(n, x)
    BY FreeIs DEF MemoryInv
  <2>2. \A x \in Handed(pages) : Alloc!Overlap(BlockOf(n), BlockOf(x)) <=> Overlaps(n, x)
    BY BlocksOverlap DEF Handed
  <2>3. held = {BlockOf(x) : x \in Handed(pages)}
    BY DEF MemoryInv
  <2> QED BY <2>1, <2>2, <2>3
<1>3. Alloc!FreeBlocks(size)
      = {b \in [start : Aligned, size : {size}] :
           b.start + size <= memoryAvailable /\ \A c \in held : ~ Alloc!Overlap(b, c)}
  BY DEF Alloc!FreeBlocks
<1> HIDE DEF w
<1>4. ASSUME NEW n \in fitting PROVE BlockOf(n) \in Alloc!FreeBlocks(size)
  <2> DEFINE i == n + 1 - pow[Order[n]]
  <2>1. n \in Node /\ Width(n) = w /\ Free(pages, n)
    OBVIOUS
  <2>2. i \in Nat
    <3>1. Order[n] \in 0 .. maxOrder /\ pow[Order[n]] <= n + 1
      BY <2>1, Level
    <3>2. pow[Order[n]] \in Nat /\ n \in Nat
      BY <1>1, <2>1, <3>1, PowPositive, NodeIs
    <3> QED BY <3>1, <3>2
  <2>3. First(n) = i * w
    BY <2>1 DEF First
  <2> HIDE DEF i
  <2>4. First(n) * BLOCK_SIZE = i * size
    BY <1>1, <2>2, <2>3
  <2>5. i <= i * w
    BY <1>1, <2>2
  <2>6. N <= N * BLOCK_SIZE
    BY <1>1
  <2>7. First(n) \in 0 .. N - 1
    BY <2>1, BlockIs
  <2>8. i \in 0 .. memoryAvailable
    BY <1>1, <2>2, <2>3, <2>5, <2>6, <2>7
  <2>9. First(n) * BLOCK_SIZE + size <= memoryAvailable /\ BlockOf(n) = [start |-> First(n) * BLOCK_SIZE, size |-> size]
    BY <2>1, BlockIs
  <2>10. First(n) * BLOCK_SIZE \in Aligned
    BY <2>4, <2>8
  <2>11. \A c \in held : ~ Alloc!Overlap(BlockOf(n), c)
    BY <1>2, <2>1
  <2> HIDE DEF Aligned, size
  <2> QED BY <1>3, <2>9, <2>10, <2>11
<1>5. ASSUME NEW b \in Alloc!FreeBlocks(size) PROVE \E n \in fitting : b = BlockOf(n)
  <2>1. PICK k \in 0 .. memoryAvailable :
          /\ b = [start |-> k * size, size |-> size] /\ k * size + size <= memoryAvailable
          /\ \A c \in held : ~ Alloc!Overlap(b, c)
    BY <1>3
  <2> DEFINE o == maxOrder - j
             q == pow[o]
             y == q - 1 + k
  <2>2. k \in Nat
    OBVIOUS
  <2>3. (k + 1) * w <= w * q
    <3>1. (k + 1) * w \in Nat
      BY <1>1, <2>2
    <3>2. ((k + 1) * w) * BLOCK_SIZE = k * size + size
      BY <1>1, <2>2
    <3>3. ((k + 1) * w) * BLOCK_SIZE <= N * BLOCK_SIZE
      BY <1>1, <2>1, <3>2
    <3>4. (k + 1) * w <= N
      <4> HIDE DEF N
      <4> QED BY <1>1, <3>1, <3>3, InBytes
    <3> QED BY <1>1, <3>4
  <2>4. k + 1 <= q
    <3>1. q \in Nat /\ q + 1 <= k + 1 => (q + 1) * w <= (k + 1) * w
      <4> HIDE DEF q
      <4> QED BY <1>1, <2>2
    <3>2. q \in Nat => (q + 1) * w = w * q + w /\ w * q \in Nat
      <4> HIDE DEF q
      <4> QED BY <1>1
    <3>3. q \in Nat /\ (k + 1) * w \in Nat
      BY <1>1, <2>2
    <3> HIDE DEF q
    <3> QED BY <1>1, <2>2, <2>3, <3>1, <3>2, <3>3
  <2>5. y \in Node /\ Order[y] = o
    BY <1>1, <2>2, <2>4, OfLevel
  <2>6. Width(y) = w /\ First(y) = k * w
    <3>1. Width(y) = w
      BY <1>1, <2>5 DEF Width, w
    <3>2. y + 1 - pow[Order[y]] = k
      BY <1>1, <2>2, <2>5
    <3> HIDE DEF y
    <3> QED BY <3>1, <3>2 DEF First
  <2>7. (k * w) * BLOCK_SIZE = k * size
    BY <1>1, <2>2
  <2> HIDE DEF y, size
  <2>8. BlockOf(y) = b
    <3>1. BlockOf(y) = [start |-> First(y) * BLOCK_SIZE, size |-> w * BLOCK_SIZE]
      BY <2>5, <2>6, BlockIs
    <3> QED BY <2>1, <2>6, <2>7, <3>1 DEF size
  <2>9. Free(pages, y)
    BY <1>2, <2>1, <2>5, <2>8
  <2>10. y \in fitting
    BY <2>5, <2>6, <2>9
  <2> QED BY <2>8, <2>10
<1> HIDE DEF fitting
<1> QED BY <1>4, <1>5 DEF fitting, w

(* The size of the block that malloc looks for is that of the abstract         *)
(* allocator.                                                                  *)
LEMMA SizeForIs ==
  ASSUME NEW bytes \in 1 .. memoryAvailable
  PROVE  Alloc!SizeFor(bytes) = amount_of_blocks_needed(bytes)
<1>1. PICK j \in 0 .. maxOrder :
        /\ amount_of_blocks_needed(bytes) = pow[j] * BLOCK_SIZE
        /\ bytes <= pow[j] * BLOCK_SIZE
        /\ \A i \in 0 .. maxOrder : bytes <= pow[i] * BLOCK_SIZE => j <= i
  BY NeededIs
<1> DEFINE Best(s) == bytes <= s /\ \A t \in Sizes : bytes <= t => s <= t
           s0 == pow[j] * BLOCK_SIZE
<1>2. \A s \in Sizes : s \in Nat
  <2>1. ASSUME NEW k \in 0 .. maxOrder PROVE pow[k] * BLOCK_SIZE \in Nat
    <3>1. pow[k] \in Nat /\ BLOCK_SIZE \in Nat
      BY PowPositive, MemoryAssumption
    <3> QED BY <3>1
  <2> QED BY <2>1 DEF Sizes
<1>3. s0 \in Sizes
  BY DEF Sizes
<1>4. ASSUME NEW i \in 0 .. maxOrder, bytes <= pow[i] * BLOCK_SIZE PROVE s0 <= pow[i] * BLOCK_SIZE
  <2>1. i \in 0 .. maxOrder + 1 /\ j \in 0 .. maxOrder + 1 /\ j <= i
    BY <1>1, <1>4, MemoryAssumption
  <2>2. pow[i] \in Nat /\ pow[j] \in Nat
    BY <2>1, PowPositive
  <2>3. pow[j] <= pow[i]
    <3>1. j = i \/ j < i
      BY <2>1
    <3>2. j < i => 2 * pow[j] <= pow[i]
      BY <2>1, PowGrows
    <3> QED BY <2>2, <3>1, <3>2
  <2> QED BY <2>2, <2>3, InBytes
<1>5. Best(s0)
  BY <1>1, <1>4 DEF Sizes
<1>6. ASSUME NEW s \in Sizes, Best(s) PROVE s = s0
  <2>1. s <= s0 /\ s0 <= s
    BY <1>3, <1>5, <1>6
  <2> HIDE DEF s0
  <2> QED BY <1>2, <1>3, <2>1
<1>7. Alloc!SizeFor(bytes) = CHOOSE s \in Sizes : Best(s)
  BY DEF Alloc!SizeFor
<1> HIDE DEF Best, s0
<1>8. Alloc!SizeFor(bytes) = s0
  BY <1>3, <1>5, <1>6, <1>7
<1> QED BY <1>1, <1>8 DEF s0

\* What a call of malloc may do to what programs hold.
Gives(bytes) ==
  \/ reply' = NULL /\ UNCHANGED held
  \/ /\ reply' \in {k * BLOCK_SIZE : k \in 0 .. amount_of_blocks - 1}
     /\ \A b \in held : b.start # reply'
     /\ \E s \in Nat : held' = held \cup {[start |-> reply', size |-> s]}

(* Malloc keeps the tree in order, and does what the abstract allocator does. *)
LEMMA MallocStep ==
  ASSUME MemoryInv, NEW bytes \in Nat, malloc(bytes)
  PROVE  MemoryInv' /\ Gives(bytes) /\ Alloc!Malloc(bytes)
<1> DEFINE n == NodeFor(pages, bytes)
<1>1. SoundTree(pages) /\ held = {BlockOf(x) : x \in Handed(pages)}
  BY DEF MemoryInv
<1>2. CASE bytes \notin 1 .. memoryAvailable
  <2>1. n = -1
    BY <1>2 DEF NodeFor
  <2>2. reply' = NULL /\ UNCHANGED <<pages, held>>
    BY <2>1 DEF malloc
  <2>3. MemoryInv'
    BY <2>2 DEF MemoryInv, SoundTree, AgreeAt, Handed, HandedOut
  <2> QED BY <1>2, <2>2, <2>3 DEF Gives, Alloc!Malloc, NULL, Alloc!Null
<1>3. CASE bytes \in 1 .. memoryAvailable
  <2>1. PICK j \in 0 .. maxOrder : amount_of_blocks_needed(bytes) = pow[j] * BLOCK_SIZE
    BY <1>3, NeededIs
  <2>2. n = Search(pages, pow[j] * BLOCK_SIZE) /\ FirstFree(pages, pow[j], n)
    BY <1>1, <1>3, <2>1, SearchIs DEF NodeFor
  <2>3. Alloc!SizeFor(bytes) = pow[j] * BLOCK_SIZE
    BY <1>3, <2>1, SizeForIs
  <2> DEFINE blocks == Alloc!FreeBlocks(Alloc!SizeFor(bytes))
             fitting == {m \in Node : Width(m) = pow[j] /\ Free(pages, m)}
  <2>4. blocks = {BlockOf(m) : m \in fitting}
    BY <2>3, FreeBlocksAre
  <2>5. CASE n = -1
    <3>1. reply' = NULL /\ UNCHANGED <<pages, held>>
      BY <2>5 DEF malloc
    <3>2. fitting = {}
      BY <2>2, <2>5 DEF FirstFree
    <3>3. MemoryInv'
      BY <3>1 DEF MemoryInv, SoundTree, AgreeAt, Handed, HandedOut
    <3> QED BY <2>4, <3>1, <3>2, <3>3 DEF Gives, Alloc!Malloc, NULL, Alloc!Null
  <2>6. CASE n # -1
    <3>1. /\ n \in Node /\ Width(n) = pow[j] /\ Free(pages, n)
          /\ \A y \in Node : Width(y) = pow[j] /\ Free(pages, y) => First(n) <= First(y)
      BY <2>2, <2>6 DEF FirstFree
    <3>2. /\ pages' = Taken(pages, n) /\ reply' = calculateOffset(n)
          /\ held' = held \cup {BlockOf(n)}
      BY <2>6 DEF malloc
    <3> HIDE DEF n
    <3>3. SoundTree(Taken(pages, n)) /\ Handed(Taken(pages, n)) = Handed(pages) \cup {n}
      BY <1>1, <3>1, TakenIs
    <3>4. SoundTree(pages)' /\ Handed(pages)' = Handed(pages) \cup {n}
      BY <3>2, <3>3 DEF SoundTree, AgreeAt, Handed, HandedOut
    <3>5. held' = {BlockOf(x) : x \in Handed(pages)'}
      BY <1>1, <3>2, <3>4
    <3>6. /\ BlockOf(n) = [start |-> First(n) * BLOCK_SIZE, size |-> Width(n) * BLOCK_SIZE]
          /\ First(n) \in 0 .. amount_of_blocks - 1 /\ Width(n) * BLOCK_SIZE \in Nat
      BY <3>1, BlockIs
    <3>7. reply' = BlockOf(n).start /\ BlockOf(n).start = First(n) * BLOCK_SIZE
      BY <3>2, <3>6 DEF BlockOf
    <3>8. reply' \in {k * BLOCK_SIZE : k \in 0 .. amount_of_blocks - 1}
      BY <3>6, <3>7
    <3>9. {BlockOf(x) : x \in Handed(pages)}' = {BlockOf(x) : x \in Handed(pages)'}
      BY DEF BlockOf, calculateOffset, BlockSize
    <3>10. MemoryInv'
      BY <3>4, <3>5, <3>8, <3>9 DEF MemoryInv
    <3>11. ASSUME NEW b \in held PROVE b.start # reply'
      <4>1. PICK x \in Handed(pages) : b = BlockOf(x)
        BY <1>1
      <4>2. x \in Node /\ ~ Overlaps(n, x)
        BY <1>1, <3>1, FreeIs DEF Handed
      <4>3. First(x) \in Nat /\ Width(x) \in Nat \ {0} /\ First(n) \in Nat /\ Width(n) \in Nat \ {0}
        BY <3>1, <4>2, Extent
      <4>4. First(x) # First(n)
        BY <4>2, <4>3 DEF Overlaps
      <4>5. b.start = First(x) * BLOCK_SIZE
        BY <4>1, <4>2, BlockIs
      <4> QED BY <3>7, <4>3, <4>4, <4>5, InBytes
    <3>12. held' = held \cup {[start |-> reply', size |-> Width(n) * BLOCK_SIZE]}
      BY <3>2, <3>6, <3>7
    <3>13. Gives(bytes)
      BY <3>6, <3>8, <3>11, <3>12 DEF Gives
    <3>14. BlockOf(n) \in blocks
      BY <2>4, <3>1
    <3>15. ASSUME NEW c \in blocks PROVE BlockOf(n).start <= c.start
      <4>1. PICK y \in fitting : c = BlockOf(y)
        BY <2>4
      <4>2. y \in Node /\ First(n) <= First(y)
        BY <3>1
      <4>3. First(n) \in Nat /\ First(y) \in Nat
        BY <3>1, <4>2, Extent
      <4>4. First(n) * BLOCK_SIZE <= First(y) * BLOCK_SIZE
        BY <4>2, <4>3, InBytes
      <4>5. c.start = First(y) * BLOCK_SIZE
        BY <4>1, <4>2, BlockIs
      <4> QED BY <3>7, <4>4, <4>5
    <3> HIDE DEF blocks
    <3>16. \E b \in blocks : /\ \A c \in blocks : b.start <= c.start
                             /\ held' = held \cup {b}
                             /\ reply' = b.start
      BY <3>2, <3>7, <3>14, <3>15
    <3>17. Alloc!Malloc(bytes)
      BY <1>3, <3>14, <3>16 DEF Alloc!Malloc, blocks
    <3> QED BY <3>10, <3>13, <3>17
  <2> QED BY <2>5, <2>6
<1> QED BY <1>2, <1>3

(* Free gives back the block that begins at p; where none begins and none is   *)
(* in the way it does nothing.                                                 *)
LEMMA FreeStep ==
  ASSUME MemoryInv, NEW p \in 0 .. memoryAvailable, p % BLOCK_SIZE = 0 => ~ Inside(p),
         free_handler(p)
  PROVE  MemoryInv' /\ Alloc!Free(p)
<1>1. SoundTree(pages) /\ held = {BlockOf(x) : x \in Handed(pages)}
  BY DEF MemoryInv
<1>2. pages' = Freed(pages, p) /\ held' = {b \in held : b.start # p} /\ reply' = reply
  BY DEF free_handler
<1> DEFINE k == p \div BLOCK_SIZE
           left == {x \in Handed(pages) : First(x) * BLOCK_SIZE # p}
<1>3. \A x \in Handed(pages) :
        /\ x \in Node /\ First(x) \in Nat /\ Width(x) \in Nat \ {0}
        /\ First(x) + Width(x) <= amount_of_blocks /\ First(x) * BLOCK_SIZE \in Nat
        /\ BlockOf(x) = [start |-> First(x) * BLOCK_SIZE, size |-> Width(x) * BLOCK_SIZE]
        /\ First(x) * BLOCK_SIZE + Width(x) * BLOCK_SIZE = (First(x) + Width(x)) * BLOCK_SIZE
  BY Extent, BlockIs DEF Handed
<1>4. held' = {BlockOf(x) : x \in left}
  <2>1. \A x \in Handed(pages) : BlockOf(x).start = First(x) * BLOCK_SIZE
    BY <1>3
  <2> QED BY <1>1, <1>2, <2>1
<1>5. BLOCK_SIZE \in Nat \ {0} /\ amount_of_blocks \in Nat /\ memoryAvailable = amount_of_blocks * BLOCK_SIZE
      /\ memoryAvailable \in Nat
  BY MemoryAssumption, NodeIs, BlockIs DEF memoryAvailable
<1>6. SoundTree(Freed(pages, p)) /\ Handed(Freed(pages, p)) = left
  <2>1. CASE p % BLOCK_SIZE = 0 /\ k < amount_of_blocks
    <3>1. k \in Nat /\ p = k * BLOCK_SIZE
      BY <1>5, <2>1
    <3>2. Freed(pages, p) = Emptied(pages, k) /\ k \in 0 .. amount_of_blocks - 1
      BY <1>5, <2>1, <3>1 DEF Freed
    <3> HIDE DEF k
    <3>3. /\ SoundTree(Emptied(pages, k))
          /\ Handed(Emptied(pages, k)) =
               {x \in Handed(pages) : ~ (First(x) <= k /\ k < First(x) + Width(x))}
      BY <1>1, <3>2, EmptiedIs
    <3>4. ASSUME NEW x \in Handed(pages)
          PROVE  First(x) * BLOCK_SIZE = p <=> First(x) <= k /\ k < First(x) + Width(x)
      <4>1. First(x) \in Nat /\ Width(x) \in Nat \ {0} /\ First(x) + Width(x) \in Nat
        BY <1>3
      <4>2. First(x) * BLOCK_SIZE = p <=> First(x) = k
        BY <3>1, <4>1, InBytes
      <4>3. ASSUME First(x) < k, k < First(x) + Width(x) PROVE FALSE
        <5>1. First(x) * BLOCK_SIZE < p /\ p < (First(x) + Width(x)) * BLOCK_SIZE
          BY <3>1, <4>1, <4>3, InBytes
        <5>2. BlockOf(x) \in held /\ BlockOf(x).start < p
              /\ p < BlockOf(x).start + BlockOf(x).size
          BY <1>1, <1>3, <5>1
        <5> QED BY <2>1, <5>2 DEF Inside
      <4> QED BY <3>1, <4>1, <4>2, <4>3
    <3>5. left = {x \in Handed(pages) : ~ (First(x) <= k /\ k < First(x) + Width(x))}
      BY <3>4
    <3> QED BY <3>2, <3>3, <3>5
  <2>2. CASE ~ (p % BLOCK_SIZE = 0 /\ k < amount_of_blocks)
    <3>1. Freed(pages, p) = pages
      BY <2>2 DEF Freed
    <3>2. ASSUME NEW x \in Handed(pages), First(x) * BLOCK_SIZE = p PROVE FALSE
      <4> DEFINE f == First(x)
      <4>1. f \in Nat /\ f < amount_of_blocks
        BY <1>3, <1>5
      <4>2. p = f * BLOCK_SIZE
        BY <3>2
      <4> HIDE DEF f
      <4>3. p % BLOCK_SIZE = 0 /\ p \div BLOCK_SIZE = f
        BY <1>5, <4>1, <4>2
      <4> QED BY <2>2, <4>1, <4>3
    <3>3. Handed(pages) = left
      BY <3>2
    <3> QED BY <1>1, <3>1, <3>3
  <2> QED BY <2>1, <2>2
<1>7. SoundTree(pages)' /\ Handed(pages)' = left
  BY <1>2, <1>6 DEF SoundTree, AgreeAt, Handed, HandedOut
<1> HIDE DEF left
<1>8. {BlockOf(x) : x \in Handed(pages)}' = {BlockOf(x) : x \in Handed(pages)'}
  BY DEF BlockOf, calculateOffset, BlockSize
<1>9. MemoryInv'
  BY <1>2, <1>4, <1>7, <1>8 DEF MemoryInv
<1> QED BY <1>2, <1>9 DEF Alloc!Free

(* Free of what a program holds is never in the middle of a block. *)
LEMMA StartsNotInside ==
  ASSUME MemoryInv, NEW b \in held
  PROVE  b.start \in 0 .. memoryAvailable /\ ~ Inside(b.start)
<1>1. SoundTree(pages) /\ held = {BlockOf(x) : x \in Handed(pages)}
  BY DEF MemoryInv
<1>2. PICK x \in Handed(pages) : b = BlockOf(x)
  BY <1>1
<1>3. x \in Node
  BY DEF Handed
<1>4. /\ b.start = First(x) * BLOCK_SIZE /\ First(x) \in Nat /\ Width(x) \in Nat \ {0}
      /\ b.start \in 0 .. memoryAvailable
  <2>1. /\ BlockOf(x) = [start |-> First(x) * BLOCK_SIZE, size |-> Width(x) * BLOCK_SIZE]
        /\ First(x) * BLOCK_SIZE \in Nat /\ Width(x) * BLOCK_SIZE \in Nat
        /\ First(x) * BLOCK_SIZE + Width(x) * BLOCK_SIZE <= memoryAvailable
        /\ memoryAvailable \in Nat
    BY <1>3, BlockIs
  <2>2. First(x) \in Nat /\ Width(x) \in Nat \ {0}
    BY <1>3, Extent
  <2>3. b.start = First(x) * BLOCK_SIZE
    BY <1>2, <2>1
  <2> QED BY <2>1, <2>2, <2>3
<1>5. ASSUME NEW c \in held, c.start < b.start, b.start < c.start + c.size PROVE FALSE
  <2>1. PICK y \in Handed(pages) : c = BlockOf(y)
    BY <1>1
  <2>2. y \in Node
    BY DEF Handed
  <2>3. /\ c.start = First(y) * BLOCK_SIZE /\ c.start + c.size = (First(y) + Width(y)) * BLOCK_SIZE
        /\ First(y) \in Nat /\ Width(y) \in Nat \ {0} /\ First(y) + Width(y) \in Nat
    BY <2>1, <2>2, BlockIs, Extent
  <2>4. First(y) < First(x) /\ First(x) < First(y) + Width(y)
    BY <1>4, <1>5, <2>3, InBytes
  <2>5. Overlaps(x, y)
    BY <1>4, <2>3, <2>4 DEF Overlaps
  <2>6. x = y
    BY <1>1, <2>5, HandedDisjoint
  <2> QED BY <1>4, <2>4, <2>6
<1> QED BY <1>4, <1>5 DEF Inside

(***************************************************************************)
(* The directories                                                         *)
(***************************************************************************)

Slot(k) == 0 .. Capacity[k] - 1

Starts == {b.start : b \in held}

FreeRight(d) ==
  IF d.free = -1 THEN \A i \in DOMAIN d.slot : d.slot[i] # NULL ELSE d.slot[d.free] = NULL

\* What a directory of kind k enters: structures of that kind in memory of
\* their own, each once.
DirGood(k, d, obj, starts) ==
  /\ d \in [slot : [Slot(k) -> Address \cup {NULL}], free : Slot(k) \cup {-1}]
  /\ FreeRight(d)
  /\ \A i \in Slot(k) : d.slot[i] # NULL => d.slot[i] \in starts /\ obj[d.slot[i]].kind = k
  /\ \A i, j \in Slot(k) : d.slot[i] = d.slot[j] /\ d.slot[i] # NULL => i = j

Object == [kind : Kind \cup {"none", "data"}, name : Name \cup {NoName, Cut},
           inner : Address \cup {NULL}]

Dirs ==
  /\ dir = [k \in Kind |-> dir[k]]
  /\ object \in [Address -> Object]
  /\ \A k \in Kind : DirGood(k, dir[k], object, Starts)

LEMMA CapacityIs ==
  ASSUME NEW k \in Kind
  PROVE  Capacity[k] \in Nat \ {0}
<1>1. MAX_MUTEXES \in Nat /\ MAX_MUTEXES >= 2 /\ MAX_MAILBOXES \in Nat \ {0}
  BY ObjectsAssumption
<1>2. MAX_MUTEXES \div 2 \in Nat \ {0}
  BY <1>1
<1> QED BY <1>1, <1>2 DEF Capacity, Kind

\* Address a can be entered in a good directory; obj and starts become obj2 and
\* starts2.
Enters(k, d, obj, starts, a, obj2, starts2) ==
  /\ DirGood(k, d, obj, starts) /\ d.free # -1
  /\ a \in Address /\ a \in starts2 /\ obj2[a].kind = k
  /\ \A i \in Slot(k) : d.slot[i] # a
  /\ \A i \in Slot(k) : d.slot[i] # NULL =>
        d.slot[i] \in starts2 /\ obj2[d.slot[i]].kind = k

(* An address is entered in the slot that is free, and free_index stays right. *)
LEMMA EnteredGood ==
  ASSUME NEW k \in Kind, NEW d, NEW obj, NEW starts, NEW a, NEW obj2, NEW starts2,
         Enters(k, d, obj, starts, a, obj2, starts2)
  PROVE  /\ DirGood(k, Entered(d, a), obj2, starts2)
         /\ Entered(d, a).slot = [d.slot EXCEPT ![d.free] = a]
<1> USE DEF Enters
<1> DEFINE slot == [d.slot EXCEPT ![d.free] = a]
           n == Cardinality(DOMAIN slot)
           empty == {i \in DOMAIN slot : slot[i] = NULL}
           after(i) == (i + n - d.free) % n
           free == IF empty = {} THEN -1
                   ELSE CHOOSE i \in empty : \A j \in empty : after(i) <= after(j)
<1>1. Entered(d, a) = [slot |-> slot, free |-> free]
  BY DEF Entered
<1>2. /\ d.slot \in [Slot(k) -> Address \cup {NULL}] /\ d.free \in Slot(k)
      /\ \A i \in Slot(k) : d.slot[i] # NULL => d.slot[i] \in starts /\ obj[d.slot[i]].kind = k
      /\ \A i, j \in Slot(k) : d.slot[i] = d.slot[j] /\ d.slot[i] # NULL => i = j
  BY DEF DirGood
<1>3. slot \in [Slot(k) -> Address \cup {NULL}] /\ DOMAIN slot = Slot(k)
  BY <1>2
<1>4. slot[d.free] = a /\ \A i \in Slot(k) : i # d.free => slot[i] = d.slot[i]
  BY <1>2
<1>5. a # NULL
  <2>1. \A j \in 0 .. amount_of_blocks - 1 : j * BLOCK_SIZE # NULL
    BY NodeIs, MemoryAssumption DEF NULL
  <2> QED BY <2>1 DEF Address
<1>6. n \in Nat \ {0}
  <2>1. Cardinality(Slot(k)) = Capacity[k]
    BY CapacityIs, FS_Interval DEF Slot
  <2> QED BY <1>3, <2>1, CapacityIs
<1>7. /\ \A i \in Slot(k) : i \in Nat
      /\ d.free \in Nat
  BY <1>2 DEF Slot
<1> HIDE DEF n, slot
<1>8. free \in Slot(k) \cup {-1} /\ (free = -1 => empty = {}) /\ (free # -1 => slot[free] = NULL)
  <2>1. CASE empty = {}
    BY <2>1
  <2>2. CASE empty # {}
    <3> DEFINE V == {after(i) : i \in empty}
    <3>1. \A i \in empty : after(i) \in Nat
      BY <1>3, <1>6, <1>7
    <3> HIDE DEF empty, after
    <3>2. V \in SUBSET Nat /\ V # {}
      BY <2>2, <3>1
    <3>3. PICK v \in V : \A u \in V : v <= u
      BY <3>2, Smallest
    <3>4. PICK i \in empty : v = after(i)
      BY <3>3
    <3>5. \A j \in empty : after(i) <= after(j)
      BY <3>3, <3>4
    <3>6. free \in empty
      BY <2>2, <3>5
    <3> HIDE DEF free
    <3> QED BY <1>3, <1>7, <3>6 DEF empty
  <2> QED BY <2>1, <2>2
<1> HIDE DEF empty, free
<1>9. FreeRight([slot |-> slot, free |-> free])
  BY <1>3, <1>8 DEF FreeRight, empty
<1>10. \A i \in Slot(k) : slot[i] # NULL => slot[i] \in starts2 /\ obj2[slot[i]].kind = k
  BY <1>4
<1>11. \A i, j \in Slot(k) : slot[i] = slot[j] /\ slot[i] # NULL => i = j
  BY <1>2, <1>4
<1>12. DirGood(k, [slot |-> slot, free |-> free], obj2, starts2)
  BY <1>3, <1>8, <1>9, <1>10, <1>11 DEF DirGood
<1> QED BY <1>1, <1>12 DEF slot, empty, free, n

(* A slot that is left becomes the free one. *)
LEMMA LeftGood ==
  ASSUME NEW k \in Kind, NEW d, NEW obj, NEW starts, DirGood(k, d, obj, starts),
         NEW i \in Slot(k), d.slot[i] # NULL
  PROVE  /\ DirGood(k, Left(d, i), obj, starts \ {d.slot[i]})
         /\ Left(d, i).slot = [d.slot EXCEPT ![i] = NULL]
<1> DEFINE slot == [d.slot EXCEPT ![i] = NULL]
<1>1. Left(d, i) = [slot |-> slot, free |-> i]
  BY DEF Left
<1>2. /\ d.slot \in [Slot(k) -> Address \cup {NULL}]
      /\ \A j \in Slot(k) : d.slot[j] # NULL => d.slot[j] \in starts /\ obj[d.slot[j]].kind = k
      /\ \A j, l \in Slot(k) : d.slot[j] = d.slot[l] /\ d.slot[j] # NULL => j = l
  BY DEF DirGood
<1>3. /\ slot \in [Slot(k) -> Address \cup {NULL}] /\ slot[i] = NULL
      /\ \A j \in Slot(k) : j # i => slot[j] = d.slot[j]
  BY <1>2
<1>4. i # -1
  BY DEF Slot
<1> HIDE DEF slot
<1>5. FreeRight([slot |-> slot, free |-> i])
  BY <1>3, <1>4 DEF FreeRight
<1>6. \A j \in Slot(k) : slot[j] # NULL =>
         slot[j] \in starts \ {d.slot[i]} /\ obj[slot[j]].kind = k
  BY <1>2, <1>3
<1>7. \A j, l \in Slot(k) : slot[j] = slot[l] /\ slot[j] # NULL => j = l
  BY <1>2, <1>3
<1>8. DirGood(k, [slot |-> slot, free |-> i], obj, starts \ {d.slot[i]})
  BY <1>3, <1>5, <1>6, <1>7 DEF DirGood
<1> QED BY <1>1, <1>8 DEF slot

LEMMA KeptGood ==
  ASSUME NEW k \in Kind, NEW d, NEW obj, NEW starts, DirGood(k, d, obj, starts),
         NEW obj2, NEW starts2,
         \A i \in Slot(k) : d.slot[i] # NULL =>
            d.slot[i] \in starts2 /\ obj2[d.slot[i]].kind = k
  PROVE  DirGood(k, d, obj2, starts2)
BY DEF DirGood

(* The slot that has a name. *)
LEMMA IndexIs ==
  ASSUME Dirs, NEW k \in Kind, NEW n
  PROVE  LET i == IndexOf(k, n)
         IN  \/ i = -1 /\ \A j \in Slot(k) : dir[k].slot[j] # NULL => NameOf(k, dir[k].slot[j]) # n
             \/ i \in Slot(k) /\ dir[k].slot[i] # NULL /\ NameOf(k, dir[k].slot[i]) = n
<1> DEFINE found == {j \in DOMAIN dir[k].slot :
                       dir[k].slot[j] # NULL /\ NameOf(k, dir[k].slot[j]) = n}
           i == IndexOf(k, n)
<1>1. i = IF found = {} THEN -1 ELSE CHOOSE j \in found : \A l \in found : j <= l
  BY DEF IndexOf
<1>2. DOMAIN dir[k].slot = Slot(k) /\ Slot(k) \subseteq Nat
  BY DEF Dirs, DirGood, Slot
<1> HIDE DEF i
<1>3. CASE found = {}
  BY <1>1, <1>2, <1>3 DEF i
<1>4. CASE found # {}
  <2>1. \E j \in found : \A l \in found : j <= l
    <3>1. found \in SUBSET Nat
      BY <1>2
    <3> HIDE DEF found
    <3> QED BY <1>4, <3>1, Smallest
  <2>2. i \in found
    BY <1>1, <1>4, <2>1
  <2> QED BY <1>2, <2>2 DEF i
<1> QED BY <1>3, <1>4

LEMMA AddressIs ==
  /\ \A a \in Address : a # NULL
  /\ MemoryInv => Starts \subseteq Address /\ reply \in Address \cup {NULL}
<1>1. \A j \in 0 .. amount_of_blocks - 1 : j * BLOCK_SIZE # NULL
  BY NodeIs, MemoryAssumption DEF NULL
<1>2. ASSUME MemoryInv, NEW b \in held PROVE b.start \in Address
  <2>1. PICK x \in Handed(pages) : b = BlockOf(x)
    BY <1>2 DEF MemoryInv
  <2>2. x \in Node
    BY DEF Handed
  <2> QED BY <2>1, <2>2, BlockIs DEF Address
<1> QED BY <1>1, <1>2 DEF Address, Starts, MemoryInv

-----------------------------------------------------------------------------
(* What calls do to the memory *)

LEMMA MemoryStep ==
  ASSUME MemoryInv,
         \/ UNCHANGED mvars
         \/ \E bytes \in Nat : malloc(bytes)
         \/ \E b \in held : free_handler(b.start)
  PROVE  MemoryInv' /\ [Alloc!Next]_<<held, reply>>
<1>1. CASE UNCHANGED mvars
  <2>1. {BlockOf(n) : n \in Handed(pages)}' = {BlockOf(n) : n \in Handed(pages)}
    BY <1>1 DEF mvars, Handed, HandedOut, BlockOf, calculateOffset, BlockSize
  <2>2. SoundTree(pages)'
    BY <1>1 DEF mvars, MemoryInv, SoundTree, AgreeAt
  <2> QED BY <1>1, <2>1, <2>2 DEF mvars, MemoryInv
<1>2. ASSUME NEW bytes \in Nat, malloc(bytes) PROVE MemoryInv' /\ [Alloc!Next]_<<held, reply>>
  <2>1. MemoryInv' /\ Alloc!Malloc(bytes)
    BY <1>2, MallocStep
  <2>2. memoryAvailable \in Nat
    BY BlockIs, NodeIs
  <2>3. CASE bytes <= memoryAvailable + 1
    BY <2>1, <2>2, <2>3 DEF Alloc!Next
  <2>4. CASE ~ (bytes <= memoryAvailable + 1)
    <3>1. bytes \notin 1 .. memoryAvailable /\ memoryAvailable + 1 \notin 1 .. memoryAvailable
      BY <2>2, <2>4
    <3>2. Alloc!Malloc(memoryAvailable + 1)
      BY <2>1, <3>1 DEF Alloc!Malloc
    <3>3. memoryAvailable + 1 \in 0 .. memoryAvailable + 1
      BY <2>2
    <3> QED BY <2>1, <3>2, <3>3 DEF Alloc!Next
  <2> QED BY <2>1, <2>3, <2>4
<1>3. ASSUME NEW b \in held, free_handler(b.start) PROVE MemoryInv' /\ [Alloc!Next]_<<held, reply>>
  <2>1. b.start \in 0 .. memoryAvailable /\ ~ Inside(b.start)
    BY StartsNotInside
  <2>2. MemoryInv' /\ Alloc!Free(b.start)
    BY <1>3, <2>1, FreeStep
  <2> QED BY <2>1, <2>2 DEF Alloc!Next
<1> QED BY <1>1, <1>2, <1>3

\* What a call of malloc may do to where blocks begin.
GivesAt ==
  \/ reply' = NULL /\ Starts' = Starts
  \/ reply' \in Address /\ reply' \notin Starts /\ Starts' = Starts \cup {reply'}

LEMMA MallocStarts ==
  ASSUME MemoryInv, NEW bytes \in Nat, malloc(bytes)
  PROVE  GivesAt
<1>1. Gives(bytes)
  BY MallocStep
<1>2. CASE reply' = NULL /\ UNCHANGED held
  BY <1>2 DEF GivesAt, Starts
<1>3. ASSUME reply' \in Address, \A b \in held : b.start # reply',
             NEW s \in Nat, held' = held \cup {[start |-> reply', size |-> s]}
      PROVE  GivesAt
  <2> DEFINE c == [start |-> reply', size |-> s]
  <2>1. Starts' = Starts \cup {reply'}
    <3>1. held' = held \cup {c} /\ c.start = reply'
      BY <1>3
    <3> HIDE DEF c
    <3> QED BY <3>1 DEF Starts
  <2>2. reply' \notin Starts
    BY <1>3 DEF Starts
  <2> QED BY <1>3, <2>1, <2>2 DEF GivesAt
<1> QED BY <1>1, <1>2, <1>3 DEF Gives, Address

LEMMA FreeStarts ==
  ASSUME NEW p, free_handler(p)
  PROVE  Starts' = Starts \ {p}
BY DEF free_handler, Starts

(* Structures are taken from malloc. *)
LEMMA AllocateStarts ==
  ASSUME MemoryInv, NEW k \in Kind, NEW n, Allocate(k, n)
  PROVE  /\ UNCHANGED mvars \/ \E bytes \in Nat : malloc(bytes)
         /\ IF Made(k) THEN dir[k].free # -1 /\ GivesAt /\ reply' # NULL
            ELSE Starts' = Starts
<1>1. Size[k] \in Nat
  BY ObjectsAssumption
<1>2. CASE dir[k].free = -1
  BY <1>2 DEF Allocate, mvars, Starts, Made
<1>3. CASE dir[k].free # -1
  <2>1. malloc(Size[k])
    BY <1>3 DEF Allocate
  <2>2. GivesAt
    BY <1>1, <2>1, MallocStarts
  <2>3. reply' = NULL => Starts' = Starts
    BY <2>2, AddressIs DEF GivesAt
  <2> QED BY <1>1, <1>3, <2>1, <2>2, <2>3 DEF Made
<1> QED BY <1>2, <1>3

-----------------------------------------------------------------------------
(* What calls do to the directories *)

LEMMA DirFacts ==
  ASSUME Dirs, NEW k \in Kind
  PROVE  /\ dir[k].slot \in [Slot(k) -> Address \cup {NULL}] /\ DOMAIN dir[k].slot = Slot(k)
         /\ dir[k].free \in Slot(k) \cup {-1} /\ DirGood(k, dir[k], object, Starts)
         /\ \A i \in Slot(k) : dir[k].slot[i] # NULL =>
              /\ dir[k].slot[i] \in Starts /\ dir[k].slot[i] \in Address
              /\ object[dir[k].slot[i]].kind = k
         /\ \A i, j \in Slot(k) :
              dir[k].slot[i] = dir[k].slot[j] /\ dir[k].slot[i] # NULL => i = j
         /\ -1 \notin Slot(k)
<1>1. DirGood(k, dir[k], object, Starts)
  BY DEF Dirs
<1> DEFINE d == dir[k]
<1> HIDE DEF d
<1>2. /\ d.slot \in [Slot(k) -> Address \cup {NULL}] /\ d.free \in Slot(k) \cup {-1}
      /\ \A i \in Slot(k) : d.slot[i] # NULL => d.slot[i] \in Starts /\ object[d.slot[i]].kind = k
      /\ \A i, j \in Slot(k) : d.slot[i] = d.slot[j] /\ d.slot[i] # NULL => i = j
  BY <1>1 DEF DirGood, d
<1>3. -1 \notin Slot(k)
  BY DEF Slot
<1>4. DOMAIN d.slot = Slot(k) /\ \A i \in Slot(k) : d.slot[i] # NULL => d.slot[i] \in Address
  BY <1>2
<1> QED BY <1>1, <1>2, <1>3, <1>4 DEF d

(* A structure is entered in its directory. *)
LEMMA EnterKeeps ==
  ASSUME Dirs, NEW k \in Kind, dir[k].free # -1, NEW a \in Address,
         \A i \in Slot(k) : dir[k].slot[i] # a,
         dir' = [dir EXCEPT ![k] = Entered(@, a)],
         object' \in [Address -> Object], object'[a].kind = k,
         \A x \in Starts : x \in Starts' /\ object'[x].kind = object[x].kind,
         a \in Starts'
  PROVE  Dirs' /\ dir'[k].slot = [dir[k].slot EXCEPT ![dir[k].free] = a]
<1>1. dir = [l \in Kind |-> dir[l]]
  BY DEF Dirs
<1>2. dir' = [l \in Kind |-> dir'[l]] /\ dir'[k] = Entered(dir[k], a)
      /\ \A l \in Kind : l # k => dir'[l] = dir[l]
  BY <1>1
<1>3. /\ DirGood(k, Entered(dir[k], a), object', Starts')
      /\ Entered(dir[k], a).slot = [dir[k].slot EXCEPT ![dir[k].free] = a]
  <2>1. DirGood(k, dir[k], object, Starts)
        /\ \A i \in Slot(k) : dir[k].slot[i] # NULL =>
             dir[k].slot[i] \in Starts' /\ object'[dir[k].slot[i]].kind = k
    BY DirFacts
  <2>2. Enters(k, dir[k], object, Starts, a, object', Starts')
    BY <2>1 DEF Enters
  <2> QED BY <2>2, EnteredGood
<1>4. ASSUME NEW l \in Kind, l # k PROVE DirGood(l, dir'[l], object', Starts')
  <2>1. DirGood(l, dir[l], object, Starts)
        /\ \A i \in Slot(l) : dir[l].slot[i] # NULL =>
             dir[l].slot[i] \in Starts' /\ object'[dir[l].slot[i]].kind = l
    BY DirFacts
  <2>2. DirGood(l, dir[l], object', Starts')
    BY <2>1, KeptGood
  <2> QED BY <1>2, <1>4, <2>2
<1>5. \A l \in Kind : DirGood(l, dir'[l], object', Starts')
  BY <1>2, <1>3, <1>4
<1> QED BY <1>2, <1>3, <1>5 DEF Dirs

(* A structure leaves its directory, and its memory is given back. *)
LEMMA LeaveKeeps ==
  ASSUME Dirs, NEW k \in Kind, NEW i \in Slot(k), dir[k].slot[i] # NULL,
         dir' = [dir EXCEPT ![k] = Left(@, i)], object' = object,
         Starts' = Starts \ {dir[k].slot[i]}
  PROVE  Dirs' /\ dir'[k].slot = [dir[k].slot EXCEPT ![i] = NULL]
<1>1. dir = [l \in Kind |-> dir[l]]
  BY DEF Dirs
<1>2. dir' = [l \in Kind |-> dir'[l]] /\ dir'[k] = Left(dir[k], i)
      /\ \A l \in Kind : l # k => dir'[l] = dir[l]
  BY <1>1
<1>3. /\ DirGood(k, Left(dir[k], i), object', Starts')
      /\ Left(dir[k], i).slot = [dir[k].slot EXCEPT ![i] = NULL]
  <2>1. DirGood(k, dir[k], object, Starts)
    BY DirFacts
  <2> QED BY <2>1, LeftGood
<1>4. ASSUME NEW l \in Kind, l # k PROVE DirGood(l, dir'[l], object', Starts')
  <2>1. object[dir[k].slot[i]].kind = k
    BY DirFacts
  <2>2. DirGood(l, dir[l], object, Starts)
        /\ \A j \in Slot(l) : dir[l].slot[j] # NULL =>
             dir[l].slot[j] \in Starts' /\ object'[dir[l].slot[j]].kind = l
    BY <1>4, <2>1, DirFacts
  <2>3. DirGood(l, dir[l], object', Starts')
    BY <2>2, KeptGood
  <2> QED BY <1>2, <1>4, <2>3
<1>5. \A l \in Kind : DirGood(l, dir'[l], object', Starts')
  BY <1>2, <1>3, <1>4
<1>6. object' \in [Address -> Object]
  BY DEF Dirs
<1> QED BY <1>2, <1>3, <1>5, <1>6 DEF Dirs

(* Memory that is in no directory is handed out or written over. *)
LEMMA OtherKeeps ==
  ASSUME Dirs, dir' = dir, object' \in [Address -> Object],
         \A k \in Kind : \A i \in Slot(k) : dir[k].slot[i] # NULL =>
            /\ dir[k].slot[i] \in Starts'
            /\ object'[dir[k].slot[i]].kind = object[dir[k].slot[i]].kind
  PROVE  Dirs'
<1>1. ASSUME NEW l \in Kind PROVE DirGood(l, dir'[l], object', Starts')
  <2>1. DirGood(l, dir[l], object, Starts)
        /\ \A i \in Slot(l) : dir[l].slot[i] # NULL =>
             dir[l].slot[i] \in Starts' /\ object'[dir[l].slot[i]].kind = l
    BY DirFacts
  <2>2. DirGood(l, dir[l], object', Starts')
    BY <2>1, KeptGood
  <2> QED BY <2>2
<1>2. dir' = [l \in Kind |-> dir'[l]]
  BY DEF Dirs
<1> QED BY <1>1, <1>2 DEF Dirs

\* What is written in a new structure.
New(k, n) == [kind |-> k, name |-> Stored(n), inner |-> NULL]

\* What create and destroy do, in terms of where memory begins.
Found(k, n, h) ==
  /\ \E i \in Slot(k) : dir[k].slot[i] = h /\ h # NULL /\ NameOf(k, h) = n
  /\ UNCHANGED <<pages, held, reply, dir, object>>

Makes(k, n, h) ==
  /\ IndexOf(k, n) = -1 /\ dir[k].free # -1
  /\ h \in Address /\ h \notin Starts /\ Starts' = Starts \cup {h}
  /\ dir' = [dir EXCEPT ![k] = Entered(@, h)]
  /\ object' = [object EXCEPT ![h] = New(k, n)]

Fails(h) == h = NULL /\ Starts' = Starts /\ UNCHANGED <<dir, object>>

Removes(k, n) ==
  \E i \in Slot(k) :
    /\ dir[k].slot[i] # NULL /\ NameOf(k, dir[k].slot[i]) = n
    /\ Starts' = Starts \ {dir[k].slot[i]}
    /\ dir' = [dir EXCEPT ![k] = Left(@, i)]
    /\ object' = object

\* How a step of the calls may change the memory.
MemoryMoves ==
  \/ UNCHANGED mvars
  \/ \E bytes \in Nat : malloc(bytes)
  \/ \E b \in held : free_handler(b.start)

LEMMA CreateIs ==
  ASSUME MemoryInv, Dirs, NEW k \in Kind, NEW n, NEW h, Create(k, n, h)
  PROVE  MemoryMoves /\ (Found(k, n, h) \/ Makes(k, n, h) \/ Fails(h))
<1>1. CASE IndexOf(k, n) # -1
  <2> DEFINE i == IndexOf(k, n)
  <2>1. i \in Slot(k) /\ dir[k].slot[i] # NULL /\ NameOf(k, dir[k].slot[i]) = n
    BY <1>1, IndexIs
  <2>2. h = dir[k].slot[i] /\ UNCHANGED <<pages, held, reply, dir, object>>
    BY <1>1 DEF Create
  <2> HIDE DEF i
  <2> QED BY <2>1, <2>2 DEF Found, MemoryMoves, mvars
<1>2. CASE IndexOf(k, n) = -1
  <2>1. Allocate(k, n)
    BY <1>2 DEF Create
  <2>2. /\ MemoryMoves
        /\ IF Made(k) THEN dir[k].free # -1 /\ GivesAt /\ reply' # NULL ELSE Starts' = Starts
    BY <2>1, AllocateStarts DEF MemoryMoves
  <2>3. CASE Made(k)
    <3>1. /\ h = reply' /\ dir' = [dir EXCEPT ![k] = Entered(@, h)]
          /\ object' = [object EXCEPT ![h] = [kind |-> k, name |-> Stored(n), inner |-> NULL]]
      BY <1>2, <2>3 DEF Create
    <3>2. h \in Address /\ h \notin Starts /\ Starts' = Starts \cup {h}
      BY <2>2, <2>3, <3>1 DEF GivesAt
    <3> QED BY <1>2, <2>2, <2>3, <3>1, <3>2 DEF Makes, New
  <2>4. CASE ~ Made(k)
    BY <1>2, <2>2, <2>4 DEF Create, Fails
  <2> QED BY <2>2, <2>3, <2>4
<1> QED BY <1>1, <1>2

LEMMA DestroyIs ==
  ASSUME MemoryInv, Dirs, NEW k \in Kind, NEW n, Destroy(k, n)
  PROVE  /\ MemoryMoves
         /\ \/ IndexOf(k, n) = -1 /\ UNCHANGED <<pages, held, reply, dir, object>>
            \/ Removes(k, n)
<1> DEFINE i == IndexOf(k, n)
<1>1. CASE i = -1
  BY <1>1 DEF Destroy, MemoryMoves, mvars
<1>2. CASE i # -1
  <2>1. i \in Slot(k) /\ dir[k].slot[i] # NULL /\ NameOf(k, dir[k].slot[i]) = n
    BY <1>2, IndexIs
  <2>2. /\ free_handler(dir[k].slot[i]) /\ dir' = [dir EXCEPT ![k] = Left(@, i)]
        /\ object' = object
    BY <1>2 DEF Destroy
  <2> HIDE DEF i
  <2>3. dir[k].slot[i] \in Starts
    BY <2>1, DirFacts
  <2>4. MemoryMoves
    BY <2>2, <2>3 DEF MemoryMoves, Starts
  <2>5. Starts' = Starts \ {dir[k].slot[i]}
    BY <2>2, FreeStarts
  <2> QED BY <2>1, <2>2, <2>4, <2>5 DEF Removes
<1> QED BY <1>1, <1>2

\* What was made is entered and written, and nothing else is.
Entering(k, n, h) ==
  /\ dir'[k].slot = [dir[k].slot EXCEPT ![dir[k].free] = h]
  /\ object'[h] = New(k, n) /\ \A x \in Address : x # h => object'[x] = object[x]

LEMMA MakesKeeps ==
  ASSUME Dirs, NEW k \in Kind, NEW n \in Name, NEW h, Makes(k, n, h)
  PROVE  Dirs' /\ Entering(k, n, h)
<1>1. /\ h \in Address /\ h \notin Starts /\ Starts' = Starts \cup {h}
      /\ dir' = [dir EXCEPT ![k] = Entered(@, h)] /\ dir[k].free # -1
      /\ object' = [object EXCEPT ![h] = New(k, n)]
  BY DEF Makes
<1>2. New(k, n) \in Object
  BY DEF New, Object, Stored
<1>3. object \in [Address -> Object]
  BY DEF Dirs
<1>4. /\ object' \in [Address -> Object] /\ object'[h] = New(k, n)
      /\ \A x \in Address : x # h => object'[x] = object[x]
  BY <1>1, <1>2, <1>3
<1>5. \A i \in Slot(k) : dir[k].slot[i] # h
  BY <1>1, DirFacts, AddressIs
<1>6. object'[h].kind = k
  BY <1>4 DEF New
<1>7. \A x \in Starts : x \in Starts' /\ object'[x] = object[x]
  <2>1. \A x \in Address : object[x] = object[x]
    OBVIOUS
  <2>2. ASSUME NEW x, x # h PROVE object'[x] = object[x]
    BY <1>1, <1>3, <2>2
  <2> QED BY <1>1, <2>2
<1>8. \A x \in Starts : x \in Starts' /\ object'[x].kind = object[x].kind
  BY <1>7
<1>9. Dirs' /\ dir'[k].slot = [dir[k].slot EXCEPT ![dir[k].free] = h]
  <2>1. h \in Address /\ h \in Starts' /\ dir[k].free # -1 /\ dir' = [dir EXCEPT ![k] = Entered(@, h)]
    BY <1>1
  <2>2. object' \in [Address -> Object]
    BY <1>4
  <2> QED BY <2>1, <2>2, <1>5, <1>6, <1>8, EnterKeeps
<1> QED BY <1>4, <1>9 DEF Entering

-----------------------------------------------------------------------------
(* Memory and directories fit together *)

LiveHeld ==
  /\ live \subseteq Address
  /\ \A h \in live : object[h].kind = "data" => h \in Starts

BusyGood ==
  \/ busy = Idle
  \/ /\ busy.call = "sem_create" /\ busy.name \in Name
     /\ busy.at \in Starts /\ object[busy.at].kind = "sem"
     /\ \A i \in Slot("sem") : dir["sem"].slot[i] # busy.at
     /\ dir["sem"].free # -1
  \/ /\ busy.call = "sem_destroy"
     /\ busy.at \in Slot("sem") /\ dir["sem"].slot[busy.at] # NULL

DirInv == MemoryInv /\ Dirs /\ LiveHeld /\ BusyGood

LEMMA KindIs == "mutex" \in Kind /\ "sem" \in Kind /\ "mailbox" \in Kind
BY DEF Kind

LEMMA IdleIs == Idle.call # "sem_create" /\ Idle.call # "sem_destroy"
BY DEF Idle

(* What a create that did something made, is good to use. *)
LEMMA CreateKeeps ==
  ASSUME DirInv, NEW k \in Kind, NEW n \in Name, NEW h, Create(k, n, h), Known(h)
  PROVE  MemoryMoves /\ Dirs' /\ LiveHeld'
<1>1. MemoryMoves /\ (Found(k, n, h) \/ Makes(k, n, h) \/ Fails(h))
  BY CreateIs DEF DirInv
<1>2. live' = live \cup ({h} \ {NULL}) /\ Dirs /\ LiveHeld
  BY DEF Known, DirInv
<1>3. CASE Found(k, n, h)
  <2>1. /\ h \in Starts /\ h \in Address
        /\ UNCHANGED <<dir, object>> /\ Starts' = Starts
    <3>1. PICK i \in Slot(k) : dir[k].slot[i] = h /\ h # NULL
      BY <1>3 DEF Found
    <3>2. UNCHANGED <<held, dir, object>>
      BY <1>3 DEF Found
    <3>3. h \in Starts /\ h \in Address
      BY <1>2, <3>1, DirFacts
    <3> QED BY <3>2, <3>3 DEF Starts
  <2>2. Dirs'
    BY <1>2, <2>1 DEF Dirs
  <2> QED BY <1>1, <1>2, <2>1, <2>2 DEF LiveHeld
<1>4. CASE Makes(k, n, h)
  <2>1. /\ Dirs' /\ object'[h] = New(k, n)
        /\ \A x \in Address : x # h => object'[x] = object[x]
    <3>1. Dirs
      BY <1>2
    <3>2. Dirs' /\ Entering(k, n, h)
      BY <1>4, <3>1, MakesKeeps
    <3> QED BY <3>2 DEF Entering
  <2>2. h \in Address /\ Starts' = Starts \cup {h}
    BY <1>4 DEF Makes
  <2>3. object'[h].kind # "data"
    BY <2>1 DEF New, Kind
  <2> QED BY <1>1, <1>2, <2>1, <2>2, <2>3 DEF LiveHeld
<1>5. CASE Fails(h)
  <2>1. UNCHANGED <<dir, object>> /\ Starts' = Starts /\ h = NULL
    BY <1>5 DEF Fails
  <2>2. Dirs'
    BY <1>2, <2>1 DEF Dirs
  <2> QED BY <1>1, <1>2, <2>1, <2>2 DEF LiveHeld
<1> QED BY <1>1, <1>3, <1>4, <1>5

LEMMA RemovesKeeps ==
  ASSUME Dirs, NEW k \in Kind, NEW n, Removes(k, n)
  PROVE  /\ Dirs' /\ object' = object
         /\ \A x \in Starts : object[x].kind # k => x \in Starts'
         /\ \A l \in Kind : l # k => dir'[l] = dir[l]
<1>1. PICK i \in Slot(k) : /\ dir[k].slot[i] # NULL
                           /\ Starts' = Starts \ {dir[k].slot[i]}
                           /\ dir' = [dir EXCEPT ![k] = Left(@, i)]
                           /\ object' = object
  BY DEF Removes
<1>2. Dirs'
  BY <1>1, LeaveKeeps
<1>3. object[dir[k].slot[i]].kind = k
  BY <1>1, DirFacts
<1>4. \A l \in Kind : l # k => dir'[l] = dir[l]
  BY <1>1 DEF Dirs
<1> QED BY <1>1, <1>2, <1>3, <1>4

LEMMA DestroyKeeps ==
  ASSUME DirInv, NEW k \in Kind, NEW n, Destroy(k, n), live' \subseteq live
  PROVE  /\ MemoryMoves /\ Dirs' /\ LiveHeld' /\ object' = object
         /\ \A l \in Kind : l # k => dir'[l] = dir[l]
<1>1. /\ MemoryMoves
      /\ \/ IndexOf(k, n) = -1 /\ UNCHANGED <<pages, held, reply, dir, object>>
         \/ Removes(k, n)
  BY DestroyIs DEF DirInv
<1>2. CASE UNCHANGED <<pages, held, reply, dir, object>>
  BY <1>1, <1>2 DEF DirInv, Dirs, LiveHeld, Starts
<1>3. CASE Removes(k, n)
  <2>1. /\ Dirs' /\ object' = object
        /\ \A x \in Starts : object[x].kind # k => x \in Starts'
        /\ \A l \in Kind : l # k => dir'[l] = dir[l]
    BY <1>3, RemovesKeeps DEF DirInv
  <2>2. "data" # k
    BY DEF Kind
  <2> QED BY <1>1, <2>1, <2>2 DEF DirInv, LiveHeld
<1> QED BY <1>1, <1>2, <1>3

(* A step of the calls keeps the directories in order, and gives back only     *)
(* what was handed out: programs do not use handles that they destroyed.       *)
LEMMA DirStep ==
  ASSUME DirInv, [ObjectsNext]_allVars, "Stale" \notin Workload
  PROVE  MemoryMoves /\ Dirs' /\ LiveHeld' /\ BusyGood'
<1> USE DEF DirInv
<1>m. "mutex" \in Kind /\ "sem" \in Kind /\ "mailbox" \in Kind
  BY KindIs
<1>1. ASSUME NEW n \in Name, mutex_create(n) PROVE MemoryMoves /\ Dirs' /\ LiveHeld' /\ BusyGood'
  <2>1. PICK h : Create("mutex", n, h) /\ Known(h)
    BY <1>1 DEF mutex_create
  <2>2. busy' = Idle
    BY <1>1 DEF mutex_create
  <2> QED BY <1>m, <2>1, <2>2, CreateKeeps DEF BusyGood, Idle
<1>2. ASSUME NEW n \in Name, create_mailbox(n) PROVE MemoryMoves /\ Dirs' /\ LiveHeld' /\ BusyGood'
  <2>1. PICK h : Create("mailbox", n, h) /\ Known(h)
    BY <1>2 DEF create_mailbox
  <2>2. busy' = Idle
    BY <1>2 DEF create_mailbox
  <2> QED BY <1>m, <2>1, <2>2, CreateKeeps DEF BusyGood, Idle
<1>3. ASSUME NEW h \in Address, mutex_destroy(h) PROVE MemoryMoves /\ Dirs' /\ LiveHeld' /\ BusyGood'
  <2>1. Destroy("mutex", NameAt(h)) /\ live' \subseteq live /\ busy' = Idle
    BY <1>3 DEF mutex_destroy
  <2> QED BY <1>m, <2>1, DestroyKeeps DEF BusyGood, Idle
<1>4. ASSUME NEW h \in Address, destroy_mailbox(h) PROVE MemoryMoves /\ Dirs' /\ LiveHeld' /\ BusyGood'
  <2>1. Destroy("mailbox", NameAt(h)) /\ live' \subseteq live /\ busy' = Idle
    BY <1>4 DEF destroy_mailbox
  <2> QED BY <1>m, <2>1, DestroyKeeps DEF BusyGood, Idle
<1>5. ASSUME NEW n \in Name, sem_create(n) PROVE MemoryMoves /\ Dirs' /\ LiveHeld' /\ BusyGood'
  <2> DEFINE i == IndexOf("sem", n)
  <2>1. busy = Idle /\ dir' = dir
    BY <1>5 DEF sem_create
  <2>2. CASE i # -1
    <3>1. /\ i \in Slot("sem") /\ dir["sem"].slot[i] # NULL
      BY <1>m, <2>2, IndexIs
    <3>2. Known(dir["sem"].slot[i]) /\ UNCHANGED <<pages, held, reply, object, busy>>
      BY <1>5, <2>2 DEF sem_create
    <3> HIDE DEF i
    <3>3. dir["sem"].slot[i] \in Starts /\ dir["sem"].slot[i] \in Address
      BY <1>m, <3>1, DirFacts
    <3>4. Starts' = Starts /\ MemoryMoves /\ Dirs'
      BY <2>1, <3>2 DEF Starts, MemoryMoves, mvars, Dirs
    <3>5. LiveHeld'
      BY <3>2, <3>3, <3>4 DEF LiveHeld, Known
    <3> QED BY <2>1, <3>2, <3>4, <3>5 DEF BusyGood
  <2>3. CASE i = -1
    <3>1. Allocate("sem", n) /\ live' = live
      BY <1>5, <2>3 DEF sem_create
    <3>2. /\ MemoryMoves
          /\ IF Made("sem") THEN dir["sem"].free # -1 /\ GivesAt /\ reply' # NULL
             ELSE Starts' = Starts
      BY <1>m, <3>1, AllocateStarts DEF MemoryMoves
    <3>3. CASE Made("sem")
      <4> DEFINE a == reply'
                 new == [kind |-> "sem", name |-> NoName, inner |-> NULL]
      <4>1. /\ busy' = [call |-> "sem_create", at |-> a, name |-> n]
            /\ object' = [object EXCEPT ![a] = new]
        BY <1>5, <2>3, <3>3 DEF sem_create
      <4>2. a \in Address /\ a \notin Starts /\ Starts' = Starts \cup {a}
        BY <3>2, <3>3 DEF GivesAt
      <4>3. object \in [Address -> Object] /\ new \in Object
        BY <1>m DEF Dirs, Object
      <4> HIDE DEF a, new
      <4>4. /\ object' \in [Address -> Object] /\ object'[a] = new
            /\ \A x \in Address : x # a => object'[x] = object[x]
        BY <4>1, <4>2, <4>3
      <4>5. Dirs'
        <5>1. \A k \in Kind : \A j \in Slot(k) : dir[k].slot[j] # NULL =>
                /\ dir[k].slot[j] \in Starts'
                /\ object'[dir[k].slot[j]].kind = object[dir[k].slot[j]].kind
          BY <4>2, <4>4, DirFacts
        <5> QED BY <2>1, <4>4, <5>1, OtherKeeps
      <4>6. LiveHeld'
        BY <3>1, <4>2, <4>4 DEF LiveHeld, new
      <4>7. \A j \in Slot("sem") : dir["sem"].slot[j] # a
        BY <1>m, <4>2, DirFacts, AddressIs
      <4>8. BusyGood'
        BY <2>1, <3>2, <3>3, <4>1, <4>2, <4>4, <4>7 DEF BusyGood, new
      <4> QED BY <3>2, <4>5, <4>6, <4>8
    <3>4. CASE ~ Made("sem")
      <4>1. UNCHANGED <<object, busy, dir, live>> /\ Starts' = Starts
        BY <1>5, <2>1, <2>3, <3>1, <3>2, <3>4 DEF sem_create
      <4> QED BY <2>1, <3>2, <4>1 DEF Dirs, LiveHeld, BusyGood
    <3> QED BY <3>3, <3>4
  <2> QED BY <2>2, <2>3
<1>6. ASSUME SemCreateReturns PROVE MemoryMoves /\ Dirs' /\ LiveHeld' /\ BusyGood'
  <2> DEFINE i == IndexOf("mutex", busy.name)
             new == IF i # -1 THEN dir["mutex"].slot[i] ELSE reply'
             h == IF i # -1 \/ Made("mutex") THEN new ELSE NULL
             made == i = -1 /\ h # NULL
             s == busy.at
             fresh == [kind |-> "mutex", name |-> Stored(busy.name), inner |-> NULL]
  <2>1. /\ busy.call = "sem_create" /\ busy.name \in Name /\ s \in Starts /\ object[s].kind = "sem"
        /\ \A j \in Slot("sem") : dir["sem"].slot[j] # s
        /\ dir["sem"].free # -1
    BY <1>6, IdleIs DEF SemCreateReturns, BusyGood
  <2>2. /\ dir' = [dir EXCEPT !["sem"] = Entered(@, s),
                              !["mutex"] = IF made THEN Entered(@, h) ELSE @]
        /\ object' = [a \in Address |->
             IF a = s THEN [object[a] EXCEPT !.inner = h]
             ELSE IF made /\ a = h THEN fresh ELSE object[a]]
        /\ live' = live \cup ({s} \ {NULL}) /\ busy' = Idle
    BY <1>6 DEF SemCreateReturns, Known
  <2>3. /\ MemoryMoves /\ Starts \subseteq Starts' /\ h \in Address \cup {NULL}
        /\ made => h \in Address /\ h \notin Starts /\ h \in Starts' /\ dir["mutex"].free # -1
    <3>1. CASE i # -1
      <4>1. i \in Slot("mutex")
        BY <1>m, <3>1, IndexIs
      <4>2. UNCHANGED <<pages, held, reply>>
        BY <1>6, <3>1 DEF SemCreateReturns
      <4>3. h = dir["mutex"].slot[i] /\ ~ made
        BY <3>1
      <4> HIDE DEF i, h, made
      <4> QED BY <1>m, <4>1, <4>2, <4>3, DirFacts DEF MemoryMoves, mvars, Starts
    <3>2. CASE i = -1
      <4>1. Allocate("mutex", busy.name)
        BY <1>6, <3>2 DEF SemCreateReturns
      <4>2. /\ MemoryMoves
            /\ IF Made("mutex") THEN dir["mutex"].free # -1 /\ GivesAt /\ reply' # NULL
               ELSE Starts' = Starts
        BY <1>m, <4>1, AllocateStarts DEF MemoryMoves
      <4>3. h = IF Made("mutex") THEN reply' ELSE NULL
        BY <3>2
      <4>4. made => Made("mutex")
        BY <4>3
      <4> HIDE DEF i, h, made
      <4> QED BY <4>2, <4>3, <4>4 DEF GivesAt
    <3> QED BY <3>1, <3>2
  <2> HIDE DEF i, new, h, made, fresh, s
  <2>4. fresh \in Object /\ fresh.kind = "mutex" /\ object \in [Address -> Object] /\ s \in Address
    BY <1>m, <2>1, AddressIs DEF fresh, Object, Dirs, Stored
  <2>5. object' \in [Address -> Object]
    <3>1. [object[s] EXCEPT !.inner = h] \in Object
      BY <2>3, <2>4 DEF Object
    <3> QED BY <2>2, <2>4, <3>1
  <2>6. /\ \A x \in Starts : object'[x].kind = object[x].kind
        /\ made => object'[h].kind = "mutex"
        /\ \A x \in Address : x = s \/ object'[x] = object[x] \/ object'[x].kind = "mutex"
    <3>1. Starts \subseteq Address
      BY AddressIs
    <3>2. object'[s].kind = object[s].kind
      <4>1. object'[s] = [object[s] EXCEPT !.inner = h]
        BY <2>2, <2>4
      <4>2. object[s] \in Object
        BY <2>4
      <4> QED BY <4>1, <4>2 DEF Object
    <3>3. \A x \in Address : x # s => object'[x] = IF made /\ x = h THEN fresh ELSE object[x]
      BY <2>2
    <3> QED BY <2>1, <2>3, <2>4, <3>1, <3>2, <3>3
  <2>7. /\ dir' = [l \in Kind |-> dir'[l]] /\ dir'["sem"] = Entered(dir["sem"], s)
        /\ dir'["mutex"] = IF made THEN Entered(dir["mutex"], h) ELSE dir["mutex"]
        /\ dir'["mailbox"] = dir["mailbox"]
    <3>1. dir = [l \in Kind |-> dir[l]]
      BY DEF Dirs
    <3> QED BY <1>m, <2>2, <3>1
  <2>8. \A k \in Kind : \A j \in Slot(k) : dir[k].slot[j] # NULL =>
           dir[k].slot[j] \in Starts' /\ object'[dir[k].slot[j]].kind = k
    BY <2>3, <2>6, DirFacts
  <2>9. DirGood("sem", dir'["sem"], object', Starts')
    <3>1. Enters("sem", dir["sem"], object, Starts, s, object', Starts')
      BY <1>m, <2>1, <2>3, <2>4, <2>6, <2>8, DirFacts DEF Enters
    <3>2. DirGood("sem", Entered(dir["sem"], s), object', Starts')
      BY <1>m, <3>1, EnteredGood
    <3> QED BY <2>7, <3>2
  <2>10. DirGood("mutex", dir'["mutex"], object', Starts')
    <3>1. CASE made
      <4>1. \A j \in Slot("mutex") : dir["mutex"].slot[j] # h
        BY <1>m, <2>3, <3>1, DirFacts, AddressIs
      <4>2. Enters("mutex", dir["mutex"], object, Starts, h, object', Starts')
        BY <1>m, <2>3, <2>6, <2>8, <3>1, <4>1, DirFacts DEF Enters
      <4>3. DirGood("mutex", Entered(dir["mutex"], h), object', Starts')
        BY <1>m, <4>2, EnteredGood
      <4> QED BY <2>7, <3>1, <4>3
    <3>2. CASE ~ made
      <4>1. DirGood("mutex", dir["mutex"], object, Starts)
        BY <1>m, DirFacts
      <4>2. DirGood("mutex", dir["mutex"], object', Starts')
        BY <1>m, <2>8, <4>1, KeptGood
      <4> QED BY <2>7, <3>2, <4>2
    <3> QED BY <3>1, <3>2
  <2>11. DirGood("mailbox", dir'["mailbox"], object', Starts')
    <3>1. DirGood("mailbox", dir["mailbox"], object, Starts)
      BY <1>m, DirFacts
    <3>2. DirGood("mailbox", dir["mailbox"], object', Starts')
      BY <1>m, <2>8, <3>1, KeptGood
    <3> QED BY <2>7, <3>2
  <2>12. Dirs'
    BY <2>5, <2>7, <2>9, <2>10, <2>11 DEF Dirs, Kind
  <2>13. LiveHeld'
    BY <2>1, <2>2, <2>3, <2>4, <2>6 DEF LiveHeld
  <2> QED BY <2>2, <2>3, <2>12, <2>13 DEF BusyGood, Idle
<1>7. ASSUME NEW h \in Address, sem_destroy(h) PROVE MemoryMoves /\ Dirs' /\ LiveHeld' /\ BusyGood'
  <2> DEFINE n == NameOf("sem", h)
             i == IndexOf("sem", n)
  <2>1. busy = Idle /\ live' = live \ {h}
    BY <1>7 DEF sem_destroy
  <2>2. CASE i = -1
    <3>1. UNCHANGED <<pages, held, reply, dir, object, busy>>
      BY <1>7, <2>2 DEF sem_destroy
    <3> QED BY <2>1, <3>1 DEF MemoryMoves, mvars, Starts, Dirs, LiveHeld, BusyGood
  <2>3. CASE i # -1
    <3>1. Destroy("mutex", n) /\ busy' = [call |-> "sem_destroy", at |-> i, name |-> n]
      BY <1>7, <2>3 DEF sem_destroy
    <3>2. i \in Slot("sem") /\ dir["sem"].slot[i] # NULL
      BY <1>m, <2>3, IndexIs
    <3> HIDE DEF i, n
    <3>3. MemoryMoves /\ Dirs' /\ LiveHeld' /\ dir'["sem"] = dir["sem"]
      BY <1>m, <2>1, <3>1, DestroyKeeps
    <3> QED BY <3>1, <3>2, <3>3 DEF BusyGood
  <2> QED BY <2>2, <2>3
<1>8. ASSUME SemDestroyReturns PROVE MemoryMoves /\ Dirs' /\ LiveHeld' /\ BusyGood'
  <2> DEFINE i == busy.at
  <2>1. i \in Slot("sem") /\ dir["sem"].slot[i] # NULL
    BY <1>8, IdleIs DEF SemDestroyReturns, BusyGood
  <2>2. /\ free_handler(dir["sem"].slot[i]) /\ dir' = [dir EXCEPT !["sem"] = Left(@, i)]
        /\ busy' = Idle /\ object' = object /\ live' = live
    BY <1>8 DEF SemDestroyReturns
  <2> HIDE DEF i
  <2>3. dir["sem"].slot[i] \in Starts /\ object[dir["sem"].slot[i]].kind = "sem"
    BY <1>m, <2>1, DirFacts
  <2>4. MemoryMoves
    BY <2>2, <2>3 DEF MemoryMoves, Starts
  <2>5. Starts' = Starts \ {dir["sem"].slot[i]}
    BY <2>2, FreeStarts
  <2>6. Dirs'
    BY <1>m, <2>1, <2>2, <2>5, LeaveKeeps
  <2>7. LiveHeld'
    BY <2>2, <2>3, <2>5 DEF LiveHeld
  <2> QED BY <2>2, <2>4, <2>6, <2>7 DEF BusyGood, Idle
<1>9. ASSUME NEW bytes \in DataSize, user_malloc(bytes) PROVE MemoryMoves /\ Dirs' /\ LiveHeld' /\ BusyGood'
  <2> DEFINE a == reply'
             new == [kind |-> "data", name |-> NoName, inner |-> NULL]
  <2>1. /\ malloc(bytes) /\ busy = Idle /\ dir' = dir /\ busy' = busy /\ live' = live \cup ({a} \ {NULL})
        /\ object' = IF a = NULL THEN object ELSE [object EXCEPT ![a] = new]
    BY <1>9 DEF user_malloc, Known
  <2>2. bytes \in Nat
    BY ObjectsAssumption
  <2>3. MemoryMoves /\ GivesAt
    BY <2>1, <2>2, MallocStarts DEF MemoryMoves
  <2> HIDE DEF a, new
  <2>4. CASE a = NULL
    <3>1. Starts' = Starts
      BY <2>3, <2>4, AddressIs DEF GivesAt, a
    <3>2. UNCHANGED <<dir, object, live, busy>>
      BY <2>1, <2>4
    <3> QED BY <2>3, <3>1, <3>2 DEF Dirs, LiveHeld, BusyGood
  <2>5. CASE a # NULL
    <3>1. a \in Address /\ a \notin Starts /\ Starts' = Starts \cup {a}
      BY <2>3, <2>5 DEF GivesAt, a
    <3>2. object \in [Address -> Object] /\ new \in Object
      BY DEF Dirs, Object, new
    <3>3. /\ object' \in [Address -> Object] /\ object'[a] = new
          /\ \A x \in Address : x # a => object'[x] = object[x]
      BY <2>1, <2>5, <3>1, <3>2
    <3>4. Dirs'
      <4>1. \A k \in Kind : \A j \in Slot(k) : dir[k].slot[j] # NULL =>
              /\ dir[k].slot[j] \in Starts'
              /\ object'[dir[k].slot[j]].kind = object[dir[k].slot[j]].kind
        BY <3>1, <3>3, DirFacts
      <4> QED BY <2>1, <3>3, <4>1, OtherKeeps
    <3>5. LiveHeld'
      BY <2>1, <3>1, <3>3 DEF LiveHeld
    <3> QED BY <2>1, <2>3, <3>4, <3>5 DEF BusyGood
  <2> QED BY <2>4, <2>5
<1>10. ASSUME NEW h \in Address, user_free(h) PROVE MemoryMoves /\ Dirs' /\ LiveHeld' /\ BusyGood'
  <2>1. /\ h \in live /\ object[h].kind = "data" /\ busy = Idle /\ free_handler(h)
        /\ live' = live \ {h} /\ dir' = dir /\ object' = object /\ busy' = busy
    BY <1>10 DEF user_free, MayUse
  <2>2. h \in Starts /\ Starts' = Starts \ {h}
    BY <2>1, FreeStarts DEF LiveHeld
  <2>3. MemoryMoves
    BY <2>1, <2>2 DEF MemoryMoves, Starts
  <2>4. Dirs'
    <3>1. "data" \notin Kind
      BY DEF Kind
    <3>2. \A k \in Kind : \A j \in Slot(k) : dir[k].slot[j] # NULL => dir[k].slot[j] \in Starts'
      BY <2>1, <2>2, <3>1, DirFacts
    <3>3. object' \in [Address -> Object]
      BY <2>1 DEF Dirs
    <3> QED BY <2>1, <3>2, <3>3, OtherKeeps
  <2>5. LiveHeld'
    BY <2>1, <2>2 DEF LiveHeld
  <2> QED BY <2>1, <2>3, <2>4, <2>5 DEF BusyGood
<1>11. ASSUME UNCHANGED allVars PROVE MemoryMoves /\ Dirs' /\ LiveHeld' /\ BusyGood'
  BY <1>11 DEF allVars, MemoryMoves, mvars, Dirs, LiveHeld, BusyGood, Starts
<1> QED BY <1>1, <1>2, <1>3, <1>4, <1>5, <1>6, <1>7, <1>8, <1>9, <1>10, <1>11 DEF ObjectsNext

LEMMA DirInit ==
  ASSUME ObjectsInit
  PROVE  DirInv
<1> USE DEF ObjectsInit, MemoryInit
<1>1. MemoryInv
  <2>1. pages \in [Node -> Marks] /\ \A n \in Node : pages[n] = "EMPTY"
    BY DEF Marks
  <2>2. \A n \in Node : AgreeAt(pages, n)
    BY <2>1, Children DEF AgreeAt, Agree
  <2>3. Handed(pages) = {}
    BY <2>1 DEF Handed, HandedOut
  <2> QED BY <2>1, <2>2, <2>3 DEF MemoryInv, SoundTree
<1>2. Dirs
  <2>1. object \in [Address -> Object]
    BY DEF Object
  <2>2. ASSUME NEW k \in Kind PROVE DirGood(k, dir[k], object, Starts)
    <3>1. dir[k] = [slot |-> [i \in Slot(k) |-> NULL], free |-> 0]
      BY <2>2 DEF Slot
    <3>2. 0 \in Slot(k) /\ Slot(k) = Slot(k)
      BY CapacityIs DEF Slot
    <3> DEFINE d == dir[k]
    <3>3. /\ d.slot = [i \in Slot(k) |-> NULL] /\ d.free = 0 /\ d \in [slot : [Slot(k) -> Address \cup {NULL}], free : Slot(k) \cup {-1}]
      BY <3>1, <3>2
    <3> HIDE DEF d
    <3>4. \A i \in Slot(k) : d.slot[i] = NULL
      BY <3>3
    <3>5. FreeRight(d)
      BY <3>2, <3>3, <3>4 DEF FreeRight
    <3> QED BY <3>3, <3>4, <3>5 DEF DirGood, d
  <2>3. dir = [k \in Kind |-> dir[k]]
    OBVIOUS
  <2> QED BY <2>1, <2>2, <2>3 DEF Dirs
<1> QED BY <1>1, <1>2 DEF DirInv, LiveHeld, BusyGood

(***************************************************************************)
(* The tree of pages is right, in itself and about what programs hold, in  *)
(* all uses of the kernel's objects but that of a handle that was given to *)
(* destroy.                                                                *)
(***************************************************************************)
THEOREM MemorySoundHolds ==
  ASSUME "Stale" \notin Workload
  PROVE  ObjectsSpec => []MemorySound
<1>1. ObjectsInit => DirInv
  BY DirInit
<1>2. DirInv /\ [ObjectsNext]_allVars => DirInv'
  <2> SUFFICES ASSUME DirInv, [ObjectsNext]_allVars PROVE DirInv'
    OBVIOUS
  <2>1. MemoryMoves /\ Dirs' /\ LiveHeld' /\ BusyGood' /\ MemoryInv
    BY DirStep DEF DirInv
  <2>2. MemoryInv'
    BY <2>1, MemoryStep DEF MemoryMoves
  <2> QED BY <2>1, <2>2 DEF DirInv
<1>3. DirInv => MemorySound
  BY MemoryInvSound DEF DirInv
<1> QED BY <1>1, <1>2, <1>3, PTL DEF ObjectsSpec

LEMMA DirInvStep ==
  ASSUME DirInv, [ObjectsNext]_allVars, "Stale" \notin Workload
  PROVE  DirInv' /\ [Alloc!Next]_<<held, reply>>
<1>1. MemoryMoves /\ Dirs' /\ LiveHeld' /\ BusyGood' /\ MemoryInv
  BY DirStep DEF DirInv
<1>2. MemoryInv' /\ [Alloc!Next]_<<held, reply>>
  BY <1>1, MemoryStep DEF MemoryMoves
<1> QED BY <1>1, <1>2 DEF DirInv

(***************************************************************************)
(* malloc and free, as the kernel's objects and the programs use them,     *)
(* keep what Allocator promises: a block that overlaps none, the first     *)
(* that is free, and NULL only if none is.                                 *)
(***************************************************************************)
THEOREM KeepsPromisesHolds ==
  ASSUME "Stale" \notin Workload
  PROVE  ObjectsSpec => KeepsPromises
<1>1. ObjectsInit => DirInv /\ Alloc!Init
  BY DirInit DEF ObjectsInit, MemoryInit, Alloc!Init, NULL, Alloc!Null
<1>2. DirInv /\ [ObjectsNext]_allVars => DirInv' /\ [Alloc!Next]_<<held, reply>>
  BY DirInvStep
<1> QED BY <1>1, <1>2, PTL DEF ObjectsSpec, KeepsPromises, Alloc!Spec

(***************************************************************************)
(* So they do for programs that call them in any order and free wrong      *)
(* addresses and free twice, but for addresses inside a block.             *)
(***************************************************************************)
THEOREM AllocatorKept == MemorySpec => []MemorySound /\ KeepsPromises
<1>1. MemoryInit => MemoryInv /\ Alloc!Init
  <2> SUFFICES ASSUME MemoryInit PROVE MemoryInv /\ Alloc!Init
    OBVIOUS
  <2> USE DEF MemoryInit
  <2>1. pages \in [Node -> Marks] /\ \A n \in Node : pages[n] = "EMPTY"
    BY DEF Marks
  <2>2. \A n \in Node : AgreeAt(pages, n)
    BY <2>1, Children DEF AgreeAt, Agree
  <2>3. Handed(pages) = {}
    BY <2>1 DEF Handed, HandedOut
  <2> QED BY <2>1, <2>2, <2>3 DEF MemoryInv, SoundTree, Alloc!Init, NULL, Alloc!Null
<1>2. MemoryInv /\ [MemoryNext]_mvars => MemoryInv' /\ [Alloc!Next]_<<held, reply>>
  <2> SUFFICES ASSUME MemoryInv, [MemoryNext]_mvars
               PROVE  MemoryInv' /\ [Alloc!Next]_<<held, reply>>
    OBVIOUS
  <2>1. ASSUME NEW bytes \in 0 .. memoryAvailable + 1, malloc(bytes)
        PROVE  MemoryInv' /\ [Alloc!Next]_<<held, reply>>
    BY <2>1, MemoryStep
  <2>2. ASSUME NEW p \in 0 .. memoryAvailable, p % BLOCK_SIZE = 0 => ~ Inside(p), free_handler(p)
        PROVE  MemoryInv' /\ [Alloc!Next]_<<held, reply>>
    BY <2>2, FreeStep DEF Alloc!Next
  <2>3. CASE UNCHANGED mvars
    BY <2>3, MemoryStep
  <2> QED BY <2>1, <2>2, <2>3 DEF MemoryNext
<1>3. MemoryInv => MemorySound
  BY MemoryInvSound
<1> QED BY <1>1, <1>2, <1>3, PTL DEF MemorySpec, KeepsPromises, Alloc!Spec

-----------------------------------------------------------------------------
(* What the directories have, as sets *)

\* The name that the objects written in obj have at address a.
NameIn(obj, k, a) ==
  IF a = NULL THEN NoName
  ELSE IF k # "sem" THEN obj[a].name
  ELSE IF obj[a].inner = NULL THEN NoName ELSE obj[obj[a].inner].name

Listed == [k \in Kind |-> Entries(k)]

\* The semaphore that is not entered yet, and the one whose mutex is gone.
Coming == IF busy.call = "sem_create" THEN {busy.at} ELSE {}

Going == IF busy.call = "sem_destroy" THEN {dir["sem"].slot[busy.at]} ELSE {}

\* The directories E list objects of their kind, each name once, a semaphore
\* together with the mutex of its name; a handle is good, and not that of the
\* mutex of a semaphore; memory is listed, or data of a program, or that of
\* the semaphore that is coming.
Tidy(E, obj, starts, handles, coming, going) ==
  /\ NULL \notin starts
  /\ \A k \in Kind : \A a \in E[k] : a \in starts /\ obj[a].kind = k
  /\ \A k \in Kind : \A a, b \in E[k] : NameIn(obj, k, a) = NameIn(obj, k, b) => a = b
  /\ \A a \in E["sem"] : a \notin going => obj[a].inner \in E["mutex"]
  /\ \A h \in handles : /\ h \in starts /\ h \notin coming /\ h \notin going
                        /\ obj[h].kind \in Kind => h \in E[obj[h].kind]
                        /\ \A a \in E["sem"] : obj[a].inner # h
  /\ \A s \in starts : \/ \E k \in Kind : s \in E[k]
                       \/ obj[s].kind = "data" /\ s \in handles
                       \/ s \in coming

\* E2 lists what E lists, and the addresses in and not those out as kind k.
Relists(E, E2, k, in, out) ==
  /\ E2[k] = (E[k] \cup in) \ out
  /\ \A l \in Kind : l # k => E2[l] = E[l]

\* A program gets to know a handle.
LEMMA TidyKnown ==
  ASSUME NEW E, NEW obj, NEW starts, NEW handles, NEW k \in Kind, NEW h \in E[k],
         Tidy(E, obj, starts, handles, {}, {}), \A a \in E["sem"] : obj[a].inner # h
  PROVE  Tidy(E, obj, starts, handles \cup {h}, {}, {})
<1>1. h \in starts /\ obj[h].kind = k
  BY DEF Tidy
<1> QED BY <1>1 DEF Tidy

\* A mutex or a mailbox is made.
LEMMA TidyMade ==
  ASSUME NEW E, NEW obj, NEW starts, NEW handles, NEW E2, NEW obj2, NEW starts2, NEW handles2,
         NEW k \in {"mutex", "mailbox"}, NEW h, NEW n,
         Tidy(E, obj, starts, handles, {}, {}), \A a \in E[k] : NameIn(obj, k, a) # n,
         h \notin starts, h # NULL, starts2 = starts \cup {h}, handles2 = handles \cup {h},
         Relists(E, E2, k, {h}, {}),
         obj2[h].kind = k, obj2[h].name = n, \A x \in starts : obj2[x] = obj[x]
  PROVE  Tidy(E2, obj2, starts2, handles2, {}, {})
<1> USE DEF Tidy
<1>1. k \in Kind /\ "mutex" \in Kind /\ "sem" \in Kind /\ k # "sem"
  BY DEF Kind
<1>2. /\ E2[k] = E[k] \cup {h} /\ \A l \in Kind : l # k => E2[l] = E[l]
  BY DEF Relists
<1>3. \A l \in Kind : \A a \in E[l] : a \in starts /\ a # h /\ a # NULL /\ obj2[a] = obj[a]
  OBVIOUS
<1>4. \A l \in Kind : \A a \in E[l] : NameIn(obj2, l, a) = NameIn(obj, l, a)
  <2>1. ASSUME NEW l \in Kind, NEW a \in E[l] PROVE NameIn(obj2, l, a) = NameIn(obj, l, a)
    <3>1. CASE l # "sem"
      BY <1>3, <3>1 DEF NameIn
    <3>2. CASE l = "sem"
      <4>1. obj[a].inner \in starts
        BY <1>1, <1>3, <3>2
      <4> QED BY <1>3, <3>2, <4>1 DEF NameIn
    <3> QED BY <3>1, <3>2
  <2> QED BY <2>1
<1>5. NameIn(obj2, k, h) = n
  BY <1>1 DEF NameIn
<1>6. \A l \in Kind : \A a, b \in E2[l] : NameIn(obj2, l, a) = NameIn(obj2, l, b) => a = b
  <2>1. ASSUME NEW a \in E2[k], NEW b \in E2[k], NameIn(obj2, k, a) = NameIn(obj2, k, b) PROVE a = b
    <3>1. (a \in E[k] \/ a = h) /\ (b \in E[k] \/ b = h)
      BY <1>2
    <3> QED BY <1>1, <1>4, <1>5, <2>1, <3>1
  <2>2. ASSUME NEW l \in Kind, l # k, NEW a \in E2[l], NEW b \in E2[l],
               NameIn(obj2, l, a) = NameIn(obj2, l, b)
        PROVE  a = b
    BY <1>2, <1>4, <2>2
  <2> QED BY <2>1, <2>2
<1>7. \A l \in Kind : \A a \in E2[l] : a \in starts2 /\ obj2[a].kind = l
  BY <1>1, <1>2, <1>3
<1>8. \A a \in E2["sem"] : a \in E["sem"] /\ obj2[a].inner = obj[a].inner /\ obj2[a].inner \in E["mutex"]
  BY <1>1, <1>2, <1>3
<1>9. \A a \in E2["sem"] : obj2[a].inner \in E2["mutex"]
  BY <1>1, <1>2, <1>8
<1>10. ASSUME NEW x \in handles2
       PROVE  /\ x \in starts2 /\ (obj2[x].kind \in Kind => x \in E2[obj2[x].kind])
              /\ \A a \in E2["sem"] : obj2[a].inner # x
  <2>1. CASE x = h
    BY <1>1, <1>2, <1>3, <1>8, <2>1
  <2>2. CASE x \in handles
    BY <1>2, <1>8, <2>2
  <2> QED BY <2>1, <2>2
<1>11. ASSUME NEW s \in starts2
       PROVE  (\E l \in Kind : s \in E2[l]) \/ (obj2[s].kind = "data" /\ s \in handles2)
  <2>1. CASE s = h
    BY <1>1, <1>2, <2>1
  <2>2. CASE s \in starts
    BY <1>2, <2>2
  <2> QED BY <2>1, <2>2
<1> QED BY <1>6, <1>7, <1>9, <1>10, <1>11

\* A mutex or a mailbox of which a program has the handle is destroyed.
LEMMA TidyRemoved ==
  ASSUME NEW E, NEW obj, NEW starts, NEW handles, NEW E2, NEW starts2, NEW handles2,
         NEW k \in {"mutex", "mailbox"}, NEW h \in handles,
         Tidy(E, obj, starts, handles, {}, {}), obj[h].kind = k,
         starts2 = starts \ {h}, handles2 = handles \ {h}, Relists(E, E2, k, {}, {h})
  PROVE  Tidy(E2, obj, starts2, handles2, {}, {})
<1> USE DEF Tidy
<1>1. k \in Kind /\ "mutex" \in Kind /\ "sem" \in Kind /\ k # "sem" /\ "data" \notin Kind
  BY DEF Kind
<1>2. /\ E2[k] = E[k] \ {h} /\ \A l \in Kind : l # k => E2[l] = E[l]
  BY DEF Relists
<1>3. h \in E[k] /\ \A l \in Kind : l # k => h \notin E[l]
  BY <1>1
<1>4. \A l \in Kind : E2[l] = E[l] \ {h}
  BY <1>2, <1>3
<1>5. \A a \in E2["sem"] : obj[a].inner \in E2["mutex"]
  BY <1>1, <1>4
<1>6. \A x \in handles2 : /\ x \in starts2 /\ (obj[x].kind \in Kind => x \in E2[obj[x].kind])
                          /\ \A a \in E2["sem"] : obj[a].inner # x
  BY <1>1, <1>4
<1>7. \A s \in starts2 : (\E l \in Kind : s \in E2[l]) \/ (obj[s].kind = "data" /\ s \in handles2)
  BY <1>1, <1>4
<1> QED BY <1>4, <1>5, <1>6, <1>7

\* The memory of a semaphore is taken.
LEMMA TidyComing ==
  ASSUME NEW E, NEW obj, NEW starts, NEW handles, NEW obj2, NEW starts2, NEW x,
         Tidy(E, obj, starts, handles, {}, {}), x \notin starts, x # NULL,
         starts2 = starts \cup {x}, \A y \in starts : obj2[y] = obj[y]
  PROVE  /\ Tidy(E, obj2, starts2, handles, {x}, {})
         /\ \A l \in Kind : \A a \in E[l] : NameIn(obj2, l, a) = NameIn(obj, l, a)
<1> USE DEF Tidy
<1>1. "mutex" \in Kind /\ "sem" \in Kind
  BY DEF Kind
<1>2. \A l \in Kind : \A a \in E[l] : a \in starts /\ a # x /\ obj2[a] = obj[a]
  OBVIOUS
<1>3. \A l \in Kind : \A a \in E[l] : NameIn(obj2, l, a) = NameIn(obj, l, a)
  <2>1. ASSUME NEW l \in Kind, NEW a \in E[l] PROVE NameIn(obj2, l, a) = NameIn(obj, l, a)
    <3>1. CASE l # "sem"
      BY <1>2, <3>1 DEF NameIn
    <3>2. CASE l = "sem"
      <4>1. obj[a].inner \in starts
        BY <1>1, <1>2, <3>2
      <4> QED BY <1>2, <3>2, <4>1 DEF NameIn
    <3> QED BY <3>1, <3>2
  <2> QED BY <2>1
<1>4. \A l \in Kind : \A a, b \in E[l] : NameIn(obj2, l, a) = NameIn(obj2, l, b) => a = b
  BY <1>3
<1>5. \A h \in handles : /\ h \in starts2 /\ h # x /\ (obj2[h].kind \in Kind => h \in E[obj2[h].kind])
                         /\ \A a \in E["sem"] : obj2[a].inner # h
  BY <1>1, <1>2
<1>6. \A s \in starts2 : \/ \E l \in Kind : s \in E[l]
                         \/ obj2[s].kind = "data" /\ s \in handles
                         \/ s \in {x}
  BY <1>2
<1> QED BY <1>1, <1>2, <1>3, <1>4, <1>5, <1>6

\* The semaphore is entered, together with its mutex.
LEMMA TidyEntered ==
  ASSUME NEW E, NEW obj, NEW starts, NEW handles, NEW E2, NEW obj2, NEW starts2, NEW handles2,
         NEW x \in starts, NEW h, NEW n,
         Tidy(E, obj, starts, handles, {x}, {}), obj[x].kind = "sem", x \notin E["sem"],
         \A a \in E["mutex"] : NameIn(obj, "mutex", a) # n,
         \A a \in E["sem"] : NameIn(obj, "sem", a) # n,
         h \notin starts, h # NULL, starts2 = starts \cup {h}, handles2 = handles \cup {x},
         E2["sem"] = E["sem"] \cup {x}, E2["mutex"] = E["mutex"] \cup {h},
         E2["mailbox"] = E["mailbox"],
         obj2[h].kind = "mutex", obj2[h].name = n, obj2[x].kind = "sem", obj2[x].inner = h,
         \A y \in starts : y # x => obj2[y] = obj[y]
  PROVE  Tidy(E2, obj2, starts2, handles2, {}, {})
<1> USE DEF Tidy
<1>1. Kind = {"mutex", "sem", "mailbox"}
  BY DEF Kind
<1>2. \A l \in Kind : \A a \in E[l] : a \in starts /\ a # h /\ a # x /\ a # NULL /\ obj2[a] = obj[a]
  BY <1>1
<1>3. \A l \in Kind : \A a \in E[l] : NameIn(obj2, l, a) = NameIn(obj, l, a)
  <2>1. ASSUME NEW l \in Kind, NEW a \in E[l] PROVE NameIn(obj2, l, a) = NameIn(obj, l, a)
    <3>1. CASE l # "sem"
      BY <1>2, <3>1 DEF NameIn
    <3>2. CASE l = "sem"
      <4>1. obj[a].inner \in E["mutex"]
        BY <3>2
      <4>2. obj2[obj[a].inner] = obj[obj[a].inner] /\ obj2[a] = obj[a]
        BY <1>1, <1>2, <4>1
      <4> QED BY <1>2, <3>2, <4>2 DEF NameIn
    <3> QED BY <3>1, <3>2
  <2> QED BY <2>1
<1>4. NameIn(obj2, "mutex", h) = n /\ NameIn(obj2, "sem", x) = n
  BY DEF NameIn
<1>5. \A a, b \in E2["mutex"] : NameIn(obj2, "mutex", a) = NameIn(obj2, "mutex", b) => a = b
  BY <1>1, <1>3, <1>4
<1>6. \A a, b \in E2["sem"] : NameIn(obj2, "sem", a) = NameIn(obj2, "sem", b) => a = b
  BY <1>1, <1>3, <1>4
<1>7. \A a, b \in E2["mailbox"] : NameIn(obj2, "mailbox", a) = NameIn(obj2, "mailbox", b) => a = b
  BY <1>1, <1>3
<1>8. \A l \in Kind : \A a, b \in E2[l] : NameIn(obj2, l, a) = NameIn(obj2, l, b) => a = b
  BY <1>1, <1>5, <1>6, <1>7
<1>9. \A l \in Kind : \A a \in E2[l] : a \in starts2 /\ obj2[a].kind = l
  BY <1>1, <1>2
<1>10. \A a \in E2["sem"] : /\ obj2[a].inner \in E2["mutex"]
                            /\ a # x => obj2[a].inner = obj[a].inner
  BY <1>1, <1>2
<1>11. ASSUME NEW y \in handles2
       PROVE  /\ y \in starts2 /\ (obj2[y].kind \in Kind => y \in E2[obj2[y].kind])
              /\ \A a \in E2["sem"] : obj2[a].inner # y
  <2>1. CASE y = x
    <3>1. \A a \in E["sem"] : obj[a].inner # x
      BY <1>1, <1>2
    <3> QED BY <1>1, <1>10, <2>1, <3>1
  <2>2. CASE y \in handles
    <3>1. y \in starts /\ y # x /\ y # h /\ obj2[y] = obj[y]
      BY <2>2
    <3>2. obj2[y].kind \in Kind => y \in E2[obj2[y].kind]
      BY <1>1, <2>2, <3>1
    <3>3. \A a \in E2["sem"] : obj2[a].inner # y
      BY <1>10, <2>2, <3>1
    <3> QED BY <3>1, <3>2, <3>3
  <2> QED BY <2>1, <2>2
<1>12. ASSUME NEW s \in starts2
       PROVE  (\E l \in Kind : s \in E2[l]) \/ (obj2[s].kind = "data" /\ s \in handles2)
  <2>1. CASE s = h \/ s = x
    BY <1>1, <2>1
  <2>2. CASE s \in starts /\ s # x
    <3>1. obj2[s] = obj[s] /\ \A l \in Kind : s \in E[l] => s \in E2[l]
      BY <1>1, <2>2
    <3> QED BY <2>2, <3>1
  <2> QED BY <2>1, <2>2
<1> QED BY <1>8, <1>9, <1>10, <1>11, <1>12

\* The mutex of a semaphore is destroyed: that of its name.
LEMMA TidyGoing ==
  ASSUME NEW E, NEW obj, NEW starts, NEW handles, NEW E2, NEW starts2, NEW handles2,
         NEW h \in handles, NEW m \in E["mutex"],
         Tidy(E, obj, starts, handles, {}, {}), obj[h].kind = "sem",
         NameIn(obj, "mutex", m) = NameIn(obj, "sem", h),
         starts2 = starts \ {m}, handles2 = handles \ {h}, Relists(E, E2, "mutex", {}, {m})
  PROVE  Tidy(E2, obj, starts2, handles2, {}, {h}) /\ h \in E2["sem"]
<1> USE DEF Tidy
<1>1. Kind = {"mutex", "sem", "mailbox"}
  BY DEF Kind
<1>2. E2["mutex"] = E["mutex"] \ {m} /\ E2["sem"] = E["sem"] /\ E2["mailbox"] = E["mailbox"]
  BY <1>1 DEF Relists
<1>3. h \in E["sem"] /\ m \in starts /\ obj[m].kind = "mutex"
  BY <1>1
<1>4. \A a \in E["sem"] : /\ obj[a].inner \in E["mutex"] /\ obj[a].inner # NULL /\ a # NULL
                          /\ NameIn(obj, "sem", a) = NameIn(obj, "mutex", obj[a].inner)
  BY <1>1 DEF NameIn
<1>5. obj[h].inner = m
  BY <1>1, <1>3, <1>4
<1>6. \A a \in E["sem"] : a # h => obj[a].inner # m
  BY <1>1, <1>3, <1>4, <1>5
<1>7. \A l \in Kind : \A a \in E2[l] : a \in E[l] /\ a # m
  BY <1>1, <1>2, <1>3
<1>8. \A a \in E2["sem"] : a \notin {h} => obj[a].inner \in E2["mutex"]
  BY <1>1, <1>2, <1>6
<1>9. \A y \in handles2 : /\ y \in starts2 /\ y \notin {h} /\ (obj[y].kind \in Kind => y \in E2[obj[y].kind])
                          /\ \A a \in E2["sem"] : obj[a].inner # y
  <2>1. \A y \in handles : y # m
    BY <1>3, <1>5
  <2> QED BY <1>1, <1>2, <2>1
<1>10. \A s \in starts2 : (\E l \in Kind : s \in E2[l]) \/ (obj[s].kind = "data" /\ s \in handles2)
  BY <1>1, <1>2
<1>11. \A l \in Kind : \A a, b \in E2[l] : NameIn(obj, l, a) = NameIn(obj, l, b) => a = b
  BY <1>7
<1>12. \A l \in Kind : \A a \in E2[l] : a \in starts2 /\ obj[a].kind = l
  BY <1>7
<1> QED BY <1>2, <1>3, <1>8, <1>9, <1>10, <1>11, <1>12

\* Then the semaphore is.
LEMMA TidyGone ==
  ASSUME NEW E, NEW obj, NEW starts, NEW handles, NEW E2, NEW starts2, NEW g \in E["sem"],
         Tidy(E, obj, starts, handles, {}, {g}),
         starts2 = starts \ {g}, Relists(E, E2, "sem", {}, {g})
  PROVE  Tidy(E2, obj, starts2, handles, {}, {})
<1> USE DEF Tidy
<1>1. Kind = {"mutex", "sem", "mailbox"}
  BY DEF Kind
<1>2. E2["sem"] = E["sem"] \ {g} /\ E2["mutex"] = E["mutex"] /\ E2["mailbox"] = E["mailbox"]
  BY <1>1 DEF Relists
<1>3. \A l \in Kind : \A a \in E2[l] : a \in E[l] /\ a # g
  BY <1>1, <1>2
<1>4. \A a \in E2["sem"] : obj[a].inner \in E2["mutex"]
  BY <1>2
<1>5. \A y \in handles : /\ y \in starts2 /\ (obj[y].kind \in Kind => y \in E2[obj[y].kind])
                         /\ \A a \in E2["sem"] : obj[a].inner # y
  BY <1>1, <1>2
<1>6. \A s \in starts2 : (\E l \in Kind : s \in E2[l]) \/ (obj[s].kind = "data" /\ s \in handles)
  BY <1>1, <1>2
<1>7. \A l \in Kind : \A a, b \in E2[l] : NameIn(obj, l, a) = NameIn(obj, l, b) => a = b
  BY <1>3
<1>8. \A l \in Kind : \A a \in E2[l] : a \in starts2 /\ obj[a].kind = l
  BY <1>3
<1> QED BY <1>4, <1>5, <1>6, <1>7, <1>8

\* A program gets memory of its own.
LEMMA TidyData ==
  ASSUME NEW E, NEW obj, NEW starts, NEW handles, NEW obj2, NEW starts2, NEW handles2, NEW x,
         Tidy(E, obj, starts, handles, {}, {}), x \notin starts, x # NULL,
         starts2 = starts \cup {x}, handles2 = handles \cup {x}, obj2[x].kind = "data",
         \A y \in starts : obj2[y] = obj[y]
  PROVE  Tidy(E, obj2, starts2, handles2, {}, {})
<1>1. Tidy(E, obj2, starts2, handles, {x}, {})
  BY TidyComing
<1>2. "data" \notin Kind /\ "mutex" \in Kind /\ "sem" \in Kind
  BY DEF Kind
<1>3. \A a \in E["sem"] : obj2[a].inner # x
  <2>1. \A a \in E["sem"] : obj[a].inner \in starts /\ a \in starts
    BY <1>2 DEF Tidy
  <2> QED BY <2>1
<1> QED BY <1>1, <1>2, <1>3 DEF Tidy

\* And frees it.
LEMMA TidyFreed ==
  ASSUME NEW E, NEW obj, NEW starts, NEW handles, NEW starts2, NEW handles2, NEW h \in handles,
         Tidy(E, obj, starts, handles, {}, {}), obj[h].kind = "data",
         starts2 = starts \ {h}, handles2 = handles \ {h}
  PROVE  Tidy(E, obj, starts2, handles2, {}, {})
<1>1. "data" \notin Kind
  BY DEF Kind
<1> QED BY <1>1 DEF Tidy

\* The addresses entered in the directories d.
ListedIn(d) == [k \in Kind |-> {d[k].slot[i] : i \in DOMAIN d[k].slot} \ {NULL}]

LEMMA NamesAre ==
  ASSUME NEW k, NEW a
  PROVE  NameOf(k, a) = NameIn(object, k, a)
BY DEF NameOf, NameAt, NameIn

LEMMA ListedIs ==
  ASSUME Dirs, NEW k \in Kind
  PROVE  /\ Listed = ListedIn(dir) /\ Listed[k] = Entries(k)
         /\ \A a : a \in Listed[k] <=> \E i \in Slot(k) : dir[k].slot[i] = a /\ a # NULL
         /\ \A a \in Listed[k] : a \in Starts /\ a \in Address /\ a # NULL /\ object[a].kind = k
<1>1. DOMAIN dir[k].slot = Slot(k)
  BY DirFacts
<1>2. Listed = ListedIn(dir) /\ Listed[k] = Entries(k)
  BY DEF Listed, ListedIn, Entries
<1>3. \A a : a \in Listed[k] <=> \E i \in Slot(k) : dir[k].slot[i] = a /\ a # NULL
  BY <1>1, <1>2 DEF Entries
<1>4. \A a \in Listed[k] : a \in Starts /\ a \in Address /\ a # NULL /\ object[a].kind = k
  <2>1. ASSUME NEW a \in Listed[k] PROVE a \in Starts /\ a \in Address /\ a # NULL /\ object[a].kind = k
    <3>1. PICK i \in Slot(k) : dir[k].slot[i] = a /\ a # NULL
      BY <1>3
    <3> QED BY <3>1, DirFacts
  <2> QED BY <2>1
<1> QED BY <1>2, <1>3, <1>4

LEMMA ListedNext == Listed' = ListedIn(dir')
BY DEF Listed, ListedIn, Entries

(* A name is found when an object that is listed has it. *)
LEMMA IndexListed ==
  ASSUME Dirs, NEW k \in Kind, NEW n
  PROVE  IF IndexOf(k, n) = -1
         THEN \A a \in Listed[k] : NameIn(object, k, a) # n
         ELSE /\ IndexOf(k, n) \in Slot(k) /\ dir[k].slot[IndexOf(k, n)] \in Listed[k]
              /\ NameIn(object, k, dir[k].slot[IndexOf(k, n)]) = n
<1>1. CASE IndexOf(k, n) = -1
  <2>1. \A j \in Slot(k) : dir[k].slot[j] # NULL => NameOf(k, dir[k].slot[j]) # n
    BY <1>1, IndexIs, DirFacts
  <2>2. ASSUME NEW a \in Listed[k] PROVE NameIn(object, k, a) # n
    <3>1. PICK i \in Slot(k) : dir[k].slot[i] = a /\ a # NULL
      BY ListedIs
    <3> QED BY <2>1, <3>1, NamesAre
  <2> QED BY <1>1, <2>2
<1>2. CASE IndexOf(k, n) # -1
  <2> DEFINE i == IndexOf(k, n)
  <2>1. i \in Slot(k) /\ dir[k].slot[i] # NULL /\ NameOf(k, dir[k].slot[i]) = n
    BY <1>2, IndexIs
  <2> HIDE DEF i
  <2>2. dir[k].slot[i] \in Listed[k] /\ NameIn(object, k, dir[k].slot[i]) = n
    BY <2>1, ListedIs, NamesAre
  <2> QED BY <1>2, <2>1, <2>2 DEF i
<1> QED BY <1>1, <1>2

LEMMA SlotEntered ==
  ASSUME NEW S, NEW T, NEW s \in [S -> T], NEW f \in S, s[f] = NULL, NEW h, h # NULL,
         NEW s2, s2 = [s EXCEPT ![f] = h]
  PROVE  {s2[i] : i \in DOMAIN s2} \ {NULL} = ({s[i] : i \in DOMAIN s} \ {NULL}) \cup {h}
<1>1. DOMAIN s2 = S /\ DOMAIN s = S /\ \A i \in S : s2[i] = IF i = f THEN h ELSE s[i]
  OBVIOUS
<1> QED BY <1>1

LEMMA SlotLeft ==
  ASSUME NEW S, NEW T, NEW s \in [S -> T], NEW f \in S, s[f] # NULL,
         \A i, j \in S : s[i] = s[j] /\ s[i] # NULL => i = j,
         NEW s2, s2 = [s EXCEPT ![f] = NULL]
  PROVE  {s2[i] : i \in DOMAIN s2} \ {NULL} = ({s[i] : i \in DOMAIN s} \ {NULL}) \ {s[f]}
<1>1. DOMAIN s2 = S /\ DOMAIN s = S /\ \A i \in S : s2[i] = IF i = f THEN NULL ELSE s[i]
  OBVIOUS
<1> QED BY <1>1

(* What create makes is listed, and nothing else is new. *)
LEMMA EnterLists ==
  ASSUME Dirs, NEW k \in Kind, dir[k].free # -1, NEW h, h # NULL, NEW d,
         d[k].slot = [dir[k].slot EXCEPT ![dir[k].free] = h],
         \A l \in Kind : l # k => d[l] = dir[l]
  PROVE  Relists(Listed, ListedIn(d), k, {h}, {})
<1>1. /\ dir[k].slot \in [Slot(k) -> Address \cup {NULL}] /\ dir[k].free \in Slot(k)
      /\ FreeRight(dir[k])
  BY DirFacts DEF DirGood
<1>2. dir[k].slot[dir[k].free] = NULL
  BY <1>1 DEF FreeRight
<1>3. ListedIn(d)[k] = ListedIn(dir)[k] \cup {h}
  BY <1>1, <1>2, SlotEntered DEF ListedIn
<1>4. \A l \in Kind : l # k => ListedIn(d)[l] = ListedIn(dir)[l]
  BY DEF ListedIn
<1> QED BY <1>3, <1>4, ListedIs DEF Relists

(* What destroy removes is listed no more. *)
LEMMA LeaveLists ==
  ASSUME Dirs, NEW k \in Kind, NEW i \in Slot(k), dir[k].slot[i] # NULL,
         dir' = [dir EXCEPT ![k] = Left(@, i)]
  PROVE  Relists(Listed, Listed', k, {}, {dir[k].slot[i]})
<1>1. dir[k].slot \in [Slot(k) -> Address \cup {NULL}]
  BY DirFacts
<1>2. \A p, q \in Slot(k) : dir[k].slot[p] = dir[k].slot[q] /\ dir[k].slot[p] # NULL => p = q
  BY DirFacts
<1>3. dir'[k].slot = [dir[k].slot EXCEPT ![i] = NULL] /\ \A l \in Kind : l # k => dir'[l] = dir[l]
  BY DEF Left, Dirs
<1>4. ListedIn(dir')[k] = ListedIn(dir)[k] \ {dir[k].slot[i]}
  BY <1>1, <1>2, <1>3, SlotLeft DEF ListedIn
<1>5. \A l \in Kind : l # k => ListedIn(dir')[l] = ListedIn(dir)[l]
  BY <1>3 DEF ListedIn
<1> QED BY <1>4, <1>5, ListedIs, ListedNext DEF Relists

-----------------------------------------------------------------------------
(* The directories list what they should *)

Listing == Tidy(Listed, object, Starts, live, Coming, Going)

\* A semaphore that is coming finds no object of its name, and its mutex has
\* a slot and memory.
BusyNames ==
  busy.call = "sem_create" =>
    /\ \A k \in {"sem", "mutex"} : \A a \in Listed[k] : NameIn(object, k, a) # busy.name
    /\ dir["mutex"].free # -1 /\ NodeFor(pages, Size["mutex"]) # -1

NamesInv == DirInv /\ Listing /\ BusyNames

LEMMA IdleListing ==
  ASSUME busy = Idle, Listing
  PROVE  Tidy(Listed, object, Starts, live, {}, {})
<1>1. Coming = {} /\ Going = {}
  BY IdleIs DEF Coming, Going
<1> QED BY <1>1 DEF Listing

LEMMA IdleNext ==
  ASSUME busy' = Idle, Tidy(Listed', object', Starts', live', {}, {})
  PROVE  Listing' /\ BusyNames'
<1>1. Coming' = {} /\ Going' = {}
  BY IdleIs DEF Coming, Going
<1>2. Listing'
  BY <1>1 DEF Listing
<1>3. BusyNames'
  BY IdleIs DEF BusyNames
<1> QED BY <1>2, <1>3

(* mutex_create and create_mailbox keep a name of an object apart from all     *)
(* others of its kind.                                                         *)
LEMMA MakeLists ==
  ASSUME DirInv, Listing, busy = Idle, busy' = Idle, Long = {},
         NEW k \in {"mutex", "mailbox"}, NEW n \in Name, NEW h, Create(k, n, h), Known(h),
         k = "mutex" => \A a \in Listed["sem"] : NameIn(object, "sem", a) # n
  PROVE  Listing' /\ BusyNames'
<1>1. k \in Kind /\ k # "sem" /\ "mutex" \in Kind /\ "sem" \in Kind
  BY DEF Kind
<1>2. Tidy(Listed, object, Starts, live, {}, {}) /\ Dirs /\ MemoryInv
  BY IdleListing DEF DirInv
<1>3. live' = live \cup ({h} \ {NULL})
  BY DEF Known
<1>4. Found(k, n, h) \/ Makes(k, n, h) \/ Fails(h)
  BY <1>1, <1>2, CreateIs
<1>5. CASE Found(k, n, h)
  <2>1. /\ h # NULL /\ NameOf(k, h) = n /\ \E i \in Slot(k) : dir[k].slot[i] = h
        /\ UNCHANGED <<held, dir, object>>
    BY <1>5 DEF Found
  <2>2. h \in Listed[k] /\ NameIn(object, k, h) = n
    BY <1>1, <1>2, <2>1, ListedIs, NamesAre
  <2>3. \A a \in Listed["sem"] : object[a].inner # h
    <3>1. ASSUME NEW a \in Listed["sem"], object[a].inner = h PROVE FALSE
      <4>1. a # NULL /\ object[a].kind = "sem" /\ object[h].kind = k /\ h \in Starts /\ a \in Starts
        BY <1>1, <1>2, <2>2, <3>1, ListedIs
      <4>2. h \in Listed["mutex"]
        BY <1>1, <1>2, <3>1 DEF Tidy
      <4>3. object[h].kind = "mutex"
        BY <1>1, <1>2, <4>2, ListedIs
      <4>4. k = "mutex" /\ NameIn(object, "sem", a) = n
        BY <1>1, <2>1, <2>2, <3>1, <4>1, <4>3 DEF NameIn
      <4> QED BY <3>1, <4>4
    <3> QED BY <3>1
  <2>4. Tidy(Listed, object, Starts, live \cup {h}, {}, {})
    BY <1>1, <1>2, <2>2, <2>3, TidyKnown
  <2>5. Listed' = Listed /\ Starts' = Starts /\ object' = object
    BY <2>1 DEF Listed, Entries, Starts
  <2>6. live' = live \cup {h}
    BY <1>3, <2>1
  <2>7. Tidy(Listed', object', Starts', live', {}, {})
    BY <2>4, <2>5, <2>6
  <2> QED BY <2>7, IdleNext
<1>6. CASE Makes(k, n, h)
  <2>1. /\ IndexOf(k, n) = -1 /\ dir[k].free # -1 /\ h \in Address /\ h \notin Starts
        /\ Starts' = Starts \cup {h} /\ dir' = [dir EXCEPT ![k] = Entered(@, h)]
    BY <1>6 DEF Makes
  <2>2. /\ dir'[k].slot = [dir[k].slot EXCEPT ![dir[k].free] = h]
        /\ object'[h] = New(k, n) /\ \A x \in Address : x # h => object'[x] = object[x]
    <3>1. Dirs' /\ Entering(k, n, h)
      BY <1>1, <1>2, <1>6, MakesKeeps
    <3> QED BY <3>1 DEF Entering
  <2>3. h # NULL /\ Starts \subseteq Address
    BY <1>2, <2>1, AddressIs
  <2>4. \A x \in Starts : object'[x] = object[x]
    BY <2>1, <2>2, <2>3
  <2>5. \A l \in Kind : l # k => dir'[l] = dir[l]
    BY <1>2, <2>1 DEF Dirs
  <2>6. Relists(Listed, Listed', k, {h}, {})
    BY <1>1, <1>2, <2>1, <2>2, <2>3, <2>5, EnterLists, ListedNext
  <2>7. \A a \in Listed[k] : NameIn(object, k, a) # n
    BY <1>1, <1>2, <2>1, IndexListed
  <2>8. object'[h].kind = k /\ object'[h].name = n
    BY <2>2 DEF New, Stored
  <2>9. live' = live \cup {h}
    BY <1>3, <2>3
  <2>10. Tidy(Listed', object', Starts', live', {}, {})
    BY <1>2, <2>1, <2>3, <2>4, <2>6, <2>7, <2>8, <2>9, TidyMade
  <2> QED BY <2>10, IdleNext
<1>7. CASE Fails(h)
  <2>1. Listed' = Listed /\ Starts' = Starts /\ object' = object /\ live' = live
    BY <1>3, <1>7 DEF Fails, Listed, Entries
  <2>2. Tidy(Listed', object', Starts', live', {}, {})
    BY <1>2, <2>1
  <2> QED BY <2>2, IdleNext
<1> QED BY <1>4, <1>5, <1>6, <1>7

(* mutex_destroy and destroy_mailbox remove the object of the handle: no other *)
(* has its name.                                                               *)
LEMMA RemoveLists ==
  ASSUME DirInv, Listing, busy = Idle, busy' = Idle,
         NEW k \in {"mutex", "mailbox"}, NEW h \in live, object[h].kind = k,
         Destroy(k, NameAt(h)), live' = live \ {h}
  PROVE  Listing' /\ BusyNames'
<1>1. k \in Kind /\ k # "sem"
  BY DEF Kind
<1>2. Tidy(Listed, object, Starts, live, {}, {}) /\ Dirs /\ MemoryInv
  BY IdleListing DEF DirInv
<1>3. h \in Listed[k]
  BY <1>1, <1>2 DEF Tidy
<1>4. h # NULL /\ NameAt(h) = NameIn(object, k, h)
  BY <1>1, <1>2, <1>3, ListedIs DEF NameIn, NameAt
<1>5. IndexOf(k, NameAt(h)) # -1
  BY <1>1, <1>2, <1>3, <1>4, IndexListed
<1>6. Removes(k, NameAt(h))
  BY <1>1, <1>2, <1>5, DestroyIs
<1>7. PICK i \in Slot(k) : /\ dir[k].slot[i] # NULL /\ NameOf(k, dir[k].slot[i]) = NameAt(h)
                           /\ Starts' = Starts \ {dir[k].slot[i]}
                           /\ dir' = [dir EXCEPT ![k] = Left(@, i)] /\ object' = object
  BY <1>6 DEF Removes
<1>8. dir[k].slot[i] = h
  <2>1. dir[k].slot[i] \in Listed[k]
    BY <1>1, <1>2, <1>7, ListedIs
  <2>2. NameIn(object, k, dir[k].slot[i]) = NameIn(object, k, h)
    BY <1>4, <1>7, NamesAre
  <2> QED BY <1>1, <1>2, <1>3, <2>1, <2>2 DEF Tidy
<1>9. Relists(Listed, Listed', k, {}, {h})
  BY <1>1, <1>2, <1>7, <1>8, LeaveLists
<1>10. Tidy(Listed', object, Starts', live', {}, {})
  BY <1>2, <1>7, <1>8, <1>9, TidyRemoved
<1>11. Tidy(Listed', object', Starts', live', {}, {})
  BY <1>7, <1>10
<1> QED BY <1>11, IdleNext

\* What a call of malloc gives when there is a node for it.
LEMMA NodeGives ==
  ASSUME MemoryInv, NEW k \in Kind, Allocate(k, k), dir[k].free # -1,
         NodeFor(pages, Size[k]) # -1
  PROVE  Made(k)
<1>1. malloc(Size[k]) /\ Size[k] \in Nat
  BY ObjectsAssumption DEF Allocate
<1>2. reply' # NULL
  <2> DEFINE n == NodeFor(pages, Size[k])
  <2>1. reply' = calculateOffset(n) /\ pages' = Taken(pages, n) /\ held' = held \cup {BlockOf(n)}
    BY <1>1 DEF malloc
  <2>2. GivesAt
    BY <1>1, MallocStarts
  <2> HIDE DEF n
  <2>3. BlockOf(n) \in held' /\ BlockOf(n).start = reply'
    BY <2>1 DEF BlockOf
  <2>4. reply' \in Starts'
    BY <2>3 DEF Starts
  <2> QED BY <2>2, <2>4, AddressIs DEF GivesAt
<1> QED BY <1>2 DEF Made

(* sem_create, up to the call of mutex_create. *)
LEMMA SemCreateLists ==
  ASSUME DirInv, Listing, Workload = {}, Long = {}, NEW n \in Name, sem_create(n)
  PROVE  Listing' /\ BusyNames'
<1> DEFINE i == IndexOf("sem", n)
<1>m. "mutex" \in Kind /\ "sem" \in Kind
  BY DEF Kind
<1>1. busy = Idle /\ dir' = dir /\ Stored(n) = n
  BY DEF sem_create, Stored
<1>2. Tidy(Listed, object, Starts, live, {}, {}) /\ Dirs /\ MemoryInv
  BY <1>1, IdleListing DEF DirInv
<1>3. Listed' = Listed
  BY <1>1 DEF Listed, Entries
<1>4. CASE i # -1
  <2> DEFINE h == dir["sem"].slot[i]
  <2>1. h \in Listed["sem"]
    BY <1>m, <1>2, <1>4, IndexListed
  <2>2. Known(h) /\ UNCHANGED <<pages, held, reply, object, busy>>
    BY <1>4 DEF sem_create
  <2> HIDE DEF i, h
  <2>3. h # NULL /\ object[h].kind = "sem"
    BY <1>m, <1>2, <2>1, ListedIs
  <2>4. \A a \in Listed["sem"] : object[a].inner # h
    <3>1. \A a \in Listed["sem"] : object[a].inner \in Listed["mutex"]
      BY <1>m, <1>2 DEF Tidy
    <3>2. \A b \in Listed["mutex"] : object[b].kind = "mutex"
      BY <1>m, <1>2, ListedIs
    <3> QED BY <2>3, <3>1, <3>2
  <2>5. Tidy(Listed, object, Starts, live \cup {h}, {}, {})
    BY <1>m, <1>2, <2>1, <2>4, TidyKnown
  <2>6. live' = live \cup {h} /\ Starts' = Starts /\ object' = object /\ busy' = Idle
    BY <1>1, <2>2, <2>3 DEF Known, Starts
  <2>7. Tidy(Listed', object', Starts', live', {}, {})
    BY <1>3, <2>5, <2>6
  <2> QED BY <2>6, <2>7, IdleNext
<1>5. CASE i = -1
  <2>1. Allocate("sem", n) /\ RoomForMutex(n) /\ live' = live
    BY <1>5 DEF sem_create
  <2>2. IF Made("sem") THEN dir["sem"].free # -1 /\ GivesAt /\ reply' # NULL ELSE Starts' = Starts
    BY <1>m, <1>2, <2>1, AllocateStarts
  <2>3. IndexOf("mutex", n) = -1
    <3>1. MayName("sem", n) /\ "Shared" \notin Workload
      BY DEF sem_create
    <3> QED BY <1>1, <1>5, <3>1 DEF MayName
  <2>4. dir["mutex"].free # -1 /\ NodeFor(pages', Size["mutex"]) # -1
    BY <2>1, <2>3 DEF RoomForMutex
  <2>5. CASE Made("sem")
    <3> DEFINE a == reply'
               new == [kind |-> "sem", name |-> NoName, inner |-> NULL]
    <3>1. /\ busy' = [call |-> "sem_create", at |-> a, name |-> n]
          /\ object' = [object EXCEPT ![a] = new]
      BY <1>5, <2>5 DEF sem_create
    <3>2. a \in Address /\ a \notin Starts /\ Starts' = Starts \cup {a} /\ a # NULL
      BY <2>2, <2>5 DEF GivesAt
    <3> HIDE DEF i, a, new
    <3>3. object \in [Address -> Object] /\ Starts \subseteq Address
      BY <1>2, AddressIs DEF Dirs
    <3>4. \A x \in Starts : object'[x] = object[x]
      BY <3>1, <3>2, <3>3
    <3>5. /\ Tidy(Listed, object', Starts', live, {a}, {})
          /\ \A k \in Kind : \A b \in Listed[k] : NameIn(object', k, b) = NameIn(object, k, b)
      <4>1. /\ Tidy(Listed, object, Starts, live, {}, {})
            /\ a \notin Starts /\ a # NULL /\ Starts' = Starts \cup {a}
            /\ \A y \in Starts : object'[y] = object[y]
        BY <1>2, <3>2, <3>4
      <4>2. Tidy(Listed, object', Starts', live, {a}, {})
        BY ONLY <4>1, TidyComing
      <4> QED BY ONLY <4>1, <4>2, TidyComing
    <3>6. Coming' = {a} /\ Going' = {}
      BY <3>1 DEF Coming, Going
    <3>7. Listing'
      BY <1>3, <2>1, <3>5, <3>6 DEF Listing
    <3>8. \A k \in {"sem", "mutex"} : \A b \in Listed[k] : NameIn(object, k, b) # n
      BY <1>m, <1>2, <1>5, <2>3, IndexListed DEF i
    <3>9. \A k \in {"sem", "mutex"} : \A b \in Listed'[k] : NameIn(object', k, b) # n
      BY <1>m, <1>3, <3>5, <3>8
    <3>10. busy'.name = n /\ dir'["mutex"].free # -1
      BY <1>1, <2>4, <3>1
    <3>11. BusyNames'
      BY <2>4, <3>9, <3>10 DEF BusyNames
    <3> QED BY <3>7, <3>11
  <2>6. CASE ~ Made("sem")
    <3>1. UNCHANGED <<object, busy>> /\ Starts' = Starts
      BY <1>5, <2>2, <2>6 DEF sem_create
    <3>2. Tidy(Listed', object', Starts', live', {}, {}) /\ busy' = Idle
      BY <1>1, <1>2, <1>3, <2>1, <3>1
    <3> QED BY <3>2, IdleNext
  <2> QED BY <2>5, <2>6
<1> QED BY <1>4, <1>5

(* The semaphore and its new mutex are entered. *)
LEMMA SemEntersLists ==
  ASSUME DirInv, Listing, BusyNames, Long = {}, SemCreateReturns
  PROVE  Listing' /\ BusyNames'
<1> DEFINE s == busy.at
           n == busy.name
           h == reply'
           fresh == [kind |-> "mutex", name |-> Stored(n), inner |-> NULL]
<1>m. Kind = {"mutex", "sem", "mailbox"}
  BY DEF Kind
<1>1. /\ busy.call = "sem_create" /\ n \in Name /\ s \in Starts /\ object[s].kind = "sem"
      /\ \A j \in Slot("sem") : dir["sem"].slot[j] # s
      /\ dir["sem"].free # -1 /\ busy' = Idle
  BY IdleIs DEF SemCreateReturns, BusyGood, DirInv
<1>2. Tidy(Listed, object, Starts, live, {s}, {}) /\ Dirs /\ MemoryInv
  BY <1>1 DEF Coming, Going, Listing, DirInv
<1>3. /\ \A k \in {"sem", "mutex"} : \A a \in Listed[k] : NameIn(object, k, a) # n
      /\ dir["mutex"].free # -1 /\ NodeFor(pages, Size["mutex"]) # -1
  BY <1>1 DEF BusyNames
<1>4. IndexOf("mutex", n) = -1
  BY <1>m, <1>2, <1>3, IndexListed
<1>5. Allocate("mutex", n)
  BY <1>4 DEF SemCreateReturns
<1>6. Made("mutex")
  BY <1>m, <1>2, <1>3, <1>5, NodeGives DEF Allocate
<1>7. h \in Address /\ h \notin Starts /\ Starts' = Starts \cup {h} /\ h # NULL
  BY <1>m, <1>2, <1>5, <1>6, AllocateStarts DEF GivesAt
<1>8. /\ dir' = [dir EXCEPT !["sem"] = Entered(@, s), !["mutex"] = Entered(@, h)]
      /\ object' = [a \in Address |-> IF a = s THEN [object[a] EXCEPT !.inner = h]
                                      ELSE IF a = h THEN fresh ELSE object[a]]
      /\ live' = live \cup ({s} \ {NULL})
  BY <1>4, <1>6, <1>7 DEF SemCreateReturns, Known
<1> HIDE DEF s, n, h, fresh
<1>9. s # NULL /\ s # h /\ Starts \subseteq Address /\ s \notin Listed["sem"]
  BY <1>m, <1>1, <1>2, <1>7, AddressIs, ListedIs
<1>10. /\ object'[h].kind = "mutex" /\ object'[h].name = n
       /\ object'[s].kind = "sem" /\ object'[s].inner = h
       /\ \A y \in Starts : y # s => object'[y] = object[y]
  <2>1. object'[h] = fresh /\ fresh.kind = "mutex" /\ fresh.name = n
    BY <1>7, <1>8, <1>9 DEF fresh, Stored
  <2>2. object[s] \in Object /\ object'[s] = [object[s] EXCEPT !.inner = h]
    BY <1>1, <1>2, <1>8, <1>9 DEF Dirs
  <2>3. object'[s].kind = "sem" /\ object'[s].inner = h
    BY <1>1, <2>2 DEF Object
  <2>4. \A y \in Starts : y # s => object'[y] = object[y]
    BY <1>7, <1>8, <1>9
  <2> QED BY <2>1, <2>3, <2>4
<1>11. /\ dir'["sem"] = Entered(dir["sem"], s) /\ dir'["mutex"] = Entered(dir["mutex"], h)
       /\ dir'["mailbox"] = dir["mailbox"]
  BY <1>m, <1>2, <1>8 DEF Dirs
<1>12. Listed'["sem"] = Listed["sem"] \cup {s}
  <2> DEFINE d == [dir EXCEPT !["sem"] = Entered(dir["sem"], s)]
  <2>1. d["sem"].slot = [dir["sem"].slot EXCEPT ![dir["sem"].free] = s]
    <3>1. d["sem"] = Entered(dir["sem"], s)
      BY <1>m, <1>2 DEF Dirs
    <3> QED BY <3>1 DEF Entered
  <2>2. \A l \in Kind : l # "sem" => d[l] = dir[l]
    BY <1>2 DEF Dirs
  <2>3. d["sem"] = dir'["sem"]
    BY <1>m, <1>2, <1>11 DEF Dirs
  <2> HIDE DEF d
  <2>4. Relists(Listed, ListedIn(d), "sem", {s}, {})
    BY <1>m, <1>1, <1>2, <1>9, <2>1, <2>2, EnterLists
  <2>5. ListedIn(d)["sem"] = ListedIn(dir')["sem"]
    BY <1>m, <2>3 DEF ListedIn
  <2> QED BY <2>4, <2>5, ListedNext DEF Relists
<1>13. Listed'["mutex"] = Listed["mutex"] \cup {h} /\ Listed'["mailbox"] = Listed["mailbox"]
  <2> DEFINE d == [dir EXCEPT !["mutex"] = Entered(dir["mutex"], h)]
  <2>1. d["mutex"].slot = [dir["mutex"].slot EXCEPT ![dir["mutex"].free] = h]
    <3>1. d["mutex"] = Entered(dir["mutex"], h)
      BY <1>m, <1>2 DEF Dirs
    <3> QED BY <3>1 DEF Entered
  <2>2. \A l \in Kind : l # "mutex" => d[l] = dir[l]
    BY <1>2 DEF Dirs
  <2>3. d["mutex"] = dir'["mutex"] /\ d["mailbox"] = dir'["mailbox"]
    BY <1>m, <1>2, <1>11 DEF Dirs
  <2> HIDE DEF d
  <2>4. Relists(Listed, ListedIn(d), "mutex", {h}, {})
    BY <1>m, <1>2, <1>3, <1>7, <2>1, <2>2, EnterLists
  <2>5. ListedIn(d)["mutex"] = ListedIn(dir')["mutex"] /\ ListedIn(d)["mailbox"] = ListedIn(dir')["mailbox"]
    BY <1>m, <2>3 DEF ListedIn
  <2> QED BY <1>m, <2>4, <2>5, ListedNext DEF Relists
<1>14. live' = live \cup {s}
  BY <1>8, <1>9
<1>15. Tidy(Listed', object', Starts', live', {}, {})
  BY <1>1, <1>2, <1>3, <1>7, <1>9, <1>10, <1>12, <1>13, <1>14, TidyEntered
<1> QED BY <1>1, <1>15, IdleNext

(* sem_destroy gives back the mutex of the semaphore whose handle it got. *)
LEMMA SemGoesLists ==
  ASSUME DirInv, Listing, Workload = {}, NEW h \in Address, sem_destroy(h)
  PROVE  Listing' /\ BusyNames'
<1> DEFINE n == NameOf("sem", h)
           i == IndexOf("sem", n)
<1>m. Kind = {"mutex", "sem", "mailbox"}
  BY DEF Kind
<1>1. busy = Idle /\ h \in live /\ object[h].kind = "sem" /\ live' = live \ {h}
  BY DEF sem_destroy, MayUse
<1>2. Tidy(Listed, object, Starts, live, {}, {}) /\ Dirs /\ MemoryInv
  BY <1>1, IdleListing DEF DirInv
<1>3. h \in Listed["sem"] /\ n = NameIn(object, "sem", h)
  BY <1>m, <1>1, <1>2, NamesAre DEF Tidy
<1>4. i # -1
  BY <1>m, <1>2, <1>3, IndexListed
<1>5. i \in Slot("sem") /\ dir["sem"].slot[i] = h
  <2>1. i \in Slot("sem") /\ dir["sem"].slot[i] \in Listed["sem"] /\ NameIn(object, "sem", dir["sem"].slot[i]) = n
    BY <1>m, <1>2, <1>4, IndexListed
  <2> HIDE DEF i, n
  <2> QED BY <1>m, <1>2, <1>3, <2>1 DEF Tidy
<1>6. Destroy("mutex", n) /\ busy' = [call |-> "sem_destroy", at |-> i, name |-> n]
  BY <1>4 DEF sem_destroy
<1> HIDE DEF i, n
<1>7. object[h].inner \in Listed["mutex"] /\ NameIn(object, "mutex", object[h].inner) = n
  <2>1. object[h].inner \in Listed["mutex"] /\ h # NULL
    BY <1>m, <1>2, <1>3, ListedIs DEF Tidy
  <2>2. object[h].inner # NULL
    BY <1>m, <1>2, <2>1, ListedIs
  <2> QED BY <1>3, <2>1, <2>2 DEF NameIn
<1>8. IndexOf("mutex", n) # -1
  BY <1>m, <1>2, <1>7, IndexListed
<1>9. Removes("mutex", n)
  BY <1>m, <1>2, <1>6, <1>8, DestroyIs
<1>10. PICK j \in Slot("mutex") : /\ dir["mutex"].slot[j] # NULL /\ NameOf("mutex", dir["mutex"].slot[j]) = n
                                  /\ Starts' = Starts \ {dir["mutex"].slot[j]}
                                  /\ dir' = [dir EXCEPT !["mutex"] = Left(@, j)] /\ object' = object
  BY <1>9 DEF Removes
<1> DEFINE m == dir["mutex"].slot[j]
<1>11. m \in Listed["mutex"] /\ NameIn(object, "mutex", m) = NameIn(object, "sem", h)
  BY <1>m, <1>2, <1>3, <1>10, ListedIs, NamesAre
<1>12. Relists(Listed, Listed', "mutex", {}, {m})
  BY <1>m, <1>2, <1>10, LeaveLists
<1>13. Starts' = Starts \ {m} /\ object' = object
  BY <1>10
<1> HIDE DEF m
<1>14. Tidy(Listed', object, Starts', live', {}, {h})
  BY <1>1, <1>2, <1>11, <1>12, <1>13, TidyGoing
<1>15. dir'["sem"] = dir["sem"]
  BY <1>m, <1>2, <1>10 DEF Dirs
<1>16. Coming' = {} /\ Going' = {h}
  BY <1>5, <1>6, <1>15 DEF Coming, Going
<1>17. Listing'
  BY <1>13, <1>14, <1>16 DEF Listing
<1>18. BusyNames'
  BY <1>6 DEF BusyNames
<1> QED BY <1>17, <1>18

(* Then the semaphore leaves its directory. *)
LEMMA SemGoneLists ==
  ASSUME DirInv, Listing, SemDestroyReturns
  PROVE  Listing' /\ BusyNames'
<1> DEFINE i == busy.at
           g == dir["sem"].slot[i]
<1>m. "sem" \in Kind
  BY DEF Kind
<1>1. busy.call = "sem_destroy" /\ i \in Slot("sem") /\ g # NULL /\ Dirs
  BY IdleIs DEF SemDestroyReturns, BusyGood, DirInv
<1>2. Tidy(Listed, object, Starts, live, {}, {g})
  BY <1>1 DEF Coming, Going, Listing
<1>3. /\ free_handler(g) /\ dir' = [dir EXCEPT !["sem"] = Left(@, i)]
      /\ busy' = Idle /\ object' = object /\ live' = live
  BY DEF SemDestroyReturns
<1>4. Starts' = Starts \ {g}
  BY <1>3, FreeStarts
<1>5. g \in Listed["sem"] /\ Relists(Listed, Listed', "sem", {}, {g})
  BY <1>m, <1>1, <1>3, ListedIs, LeaveLists
<1> HIDE DEF i, g
<1>6. Tidy(Listed', object, Starts', live, {}, {})
  BY <1>2, <1>4, <1>5, TidyGone
<1>7. Tidy(Listed', object', Starts', live', {}, {})
  BY <1>3, <1>6
<1> QED BY <1>3, <1>7, IdleNext

(* A program takes memory. *)
LEMMA DataLists ==
  ASSUME DirInv, Listing, NEW bytes \in DataSize, user_malloc(bytes)
  PROVE  Listing' /\ BusyNames'
<1> DEFINE a == reply'
           new == [kind |-> "data", name |-> NoName, inner |-> NULL]
<1>1. /\ malloc(bytes) /\ busy = Idle /\ dir' = dir /\ busy' = busy /\ live' = live \cup ({a} \ {NULL})
      /\ object' = IF a = NULL THEN object ELSE [object EXCEPT ![a] = new]
  BY DEF user_malloc, Known
<1>2. bytes \in Nat /\ MemoryInv /\ Dirs /\ busy' = Idle
  BY <1>1, ObjectsAssumption DEF DirInv
<1>3. GivesAt
  BY <1>1, <1>2, MallocStarts
<1>4. Tidy(Listed, object, Starts, live, {}, {}) /\ Listed' = Listed
  BY <1>1, IdleListing DEF Listed, Entries
<1> HIDE DEF a, new
<1>5. CASE a = NULL
  <2>1. Starts' = Starts
    BY <1>3, <1>5, AddressIs DEF GivesAt, a
  <2>2. object' = object /\ live' = live
    BY <1>1, <1>5
  <2>3. Tidy(Listed', object', Starts', live', {}, {})
    BY <1>4, <2>1, <2>2
  <2> QED BY <1>2, <2>3, IdleNext
<1>6. CASE a # NULL
  <2>1. a \in Address /\ a \notin Starts /\ Starts' = Starts \cup {a}
    BY <1>3, <1>6 DEF GivesAt, a
  <2>2. object \in [Address -> Object] /\ Starts \subseteq Address
    BY <1>2, AddressIs DEF Dirs
  <2>3. object'[a].kind = "data" /\ \A y \in Starts : object'[y] = object[y]
    BY <1>1, <1>6, <2>1, <2>2 DEF new
  <2>4. live' = live \cup {a}
    BY <1>1, <1>6
  <2>5. Tidy(Listed, object', Starts', live', {}, {})
    BY <1>4, <1>6, <2>1, <2>3, <2>4, TidyData
  <2>6. Tidy(Listed', object', Starts', live', {}, {})
    BY <1>4, <2>5
  <2> QED BY <1>2, <2>6, IdleNext
<1> QED BY <1>5, <1>6

(* And gives it back. *)
LEMMA FreedLists ==
  ASSUME DirInv, Listing, Workload = {}, NEW h \in Address, user_free(h)
  PROVE  Listing' /\ BusyNames'
<1>1. /\ h \in live /\ object[h].kind = "data" /\ busy = Idle /\ free_handler(h)
      /\ live' = live \ {h} /\ dir' = dir /\ object' = object /\ busy' = busy
  BY DEF user_free, MayUse
<1>2. Tidy(Listed, object, Starts, live, {}, {}) /\ Listed' = Listed /\ busy' = Idle
  BY <1>1, IdleListing DEF Listed, Entries
<1>3. Starts' = Starts \ {h}
  BY <1>1, FreeStarts
<1>4. Tidy(Listed, object, Starts', live', {}, {})
  BY <1>1, <1>2, <1>3, TidyFreed
<1>5. Tidy(Listed', object', Starts', live', {}, {})
  BY <1>1, <1>2, <1>4
<1> QED BY <1>2, <1>5, IdleNext

(* What the directories list stays right, for programs that do none of the     *)
(* things in Habits and use no long names.                                     *)
LEMMA NamesStep ==
  ASSUME NamesInv, [ObjectsNext]_allVars, Workload = {}, Long = {}
  PROVE  NamesInv'
<1> USE DEF NamesInv
<1>1. DirInv'
  BY DirInvStep
<1>2. ASSUME NEW n \in Name, mutex_create(n) PROVE Listing' /\ BusyNames'
  <2>1. PICK h : Create("mutex", n, h) /\ Known(h)
    BY <1>2 DEF mutex_create
  <2>2. busy = Idle /\ busy' = Idle /\ IndexOf("sem", n) = -1
    BY <1>2 DEF mutex_create, MayName, Stored
  <2>3. \A a \in Listed["sem"] : NameIn(object, "sem", a) # n
    BY <2>2, KindIs, IndexListed DEF DirInv
  <2> QED BY <2>1, <2>2, <2>3, MakeLists
<1>3. ASSUME NEW n \in Name, create_mailbox(n) PROVE Listing' /\ BusyNames'
  <2>1. PICK h : Create("mailbox", n, h) /\ Known(h)
    BY <1>3 DEF create_mailbox
  <2>2. busy = Idle /\ busy' = Idle
    BY <1>3 DEF create_mailbox
  <2> QED BY <2>1, <2>2, MakeLists
<1>4. ASSUME NEW h \in Address, mutex_destroy(h) PROVE Listing' /\ BusyNames'
  <2>1. /\ busy = Idle /\ busy' = Idle /\ h \in live /\ object[h].kind = "mutex"
        /\ Destroy("mutex", NameAt(h)) /\ live' = live \ {h}
    BY <1>4 DEF mutex_destroy, MayUse
  <2> QED BY <2>1, RemoveLists
<1>5. ASSUME NEW h \in Address, destroy_mailbox(h) PROVE Listing' /\ BusyNames'
  <2>1. /\ busy = Idle /\ busy' = Idle /\ h \in live /\ object[h].kind = "mailbox"
        /\ Destroy("mailbox", NameAt(h)) /\ live' = live \ {h}
    BY <1>5 DEF destroy_mailbox, MayUse
  <2> QED BY <2>1, RemoveLists
<1>6. ASSUME UNCHANGED allVars PROVE Listing' /\ BusyNames'
  <2>1. /\ Listed' = Listed /\ object' = object /\ Starts' = Starts /\ live' = live
        /\ Coming' = Coming /\ Going' = Going /\ busy' = busy /\ dir' = dir /\ pages' = pages
    BY <1>6 DEF allVars, Listed, Entries, Starts, Coming, Going
  <2> QED BY <2>1 DEF Listing, BusyNames
<1>7. Listing' /\ BusyNames'
  BY <1>2, <1>3, <1>4, <1>5, <1>6, SemCreateLists, SemEntersLists, SemGoesLists, SemGoneLists,
     DataLists, FreedLists DEF ObjectsNext
<1> QED BY <1>1, <1>7

LEMMA NamesInit ==
  ASSUME ObjectsInit
  PROVE  NamesInv
<1>1. DirInv
  BY DirInit
<1>2. busy = Idle /\ live = {} /\ Starts = {} /\ \A k \in Kind : Listed[k] = {}
  <2>1. \A k \in Kind : \A i \in DOMAIN dir[k].slot : dir[k].slot[i] = NULL
    BY DEF ObjectsInit
  <2> QED BY <2>1 DEF ObjectsInit, MemoryInit, Starts, Listed, Entries
<1>3. Listing /\ BusyNames
  <2>1. Coming = {} /\ Going = {}
    BY <1>2, IdleIs DEF Coming, Going
  <2>2. Tidy(Listed, object, Starts, live, {}, {})
    BY <1>2, KindIs DEF Tidy
  <2>3. BusyNames
    BY <1>2, IdleIs DEF BusyNames
  <2> QED BY <2>1, <2>2, <2>3 DEF Listing
<1> QED BY <1>1, <1>3 DEF NamesInv

LEMMA NamesFind ==
  ASSUME NamesInv
  PROVE  HandlesGood
<1>1. Dirs /\ Tidy(Listed, object, Starts, live, Coming, Going)
  BY DEF NamesInv, DirInv, Listing
<1>2. ASSUME NEW h \in live, object[h].kind \in Kind
      PROVE  LET k == object[h].kind
             IN  \E i \in DOMAIN dir[k].slot : dir[k].slot[i] = h /\ i = IndexOf(k, NameOf(k, h))
  <2> DEFINE k == object[h].kind
             i == IndexOf(k, NameOf(k, h))
  <2>1. k \in Kind /\ h \in Listed[k]
    BY <1>1, <1>2 DEF Tidy
  <2> HIDE DEF k
  <2>2. NameIn(object, k, h) = NameOf(k, h)
    BY NamesAre
  <2>3. /\ i \in Slot(k) /\ dir[k].slot[i] \in Listed[k]
        /\ NameIn(object, k, dir[k].slot[i]) = NameOf(k, h)
    BY <1>1, <2>1, <2>2, IndexListed
  <2> HIDE DEF i
  <2>4. dir[k].slot[i] = h
    BY <1>1, <2>1, <2>2, <2>3 DEF Tidy
  <2>5. DOMAIN dir[k].slot = Slot(k)
    BY <1>1, <2>1, DirFacts
  <2> QED BY <2>3, <2>4, <2>5 DEF i, k
<1>3. ASSUME NEW h \in live PROVE \E b \in held : b.start = h
  BY <1>1 DEF Tidy, Starts
<1> QED BY <1>2, <1>3 DEF HandlesGood

LEMMA NamesDirectories ==
  ASSUME NamesInv
  PROVE  DirectoriesSound
<1>1. Dirs /\ Listing
  BY DEF NamesInv, DirInv
<1>2. FreeIndexRight
  <2>1. \A k \in Kind : FreeRight(dir[k])
    BY <1>1 DEF Dirs, DirGood
  <2> QED BY <2>1 DEF FreeRight, FreeIndexRight
<1>3. ASSUME busy = Idle, NEW h \in Entries("sem") PROVE object[h].inner \in Entries("mutex")
  <2>1. Tidy(Listed, object, Starts, live, {}, {})
    BY <1>1, <1>3, IdleListing
  <2>2. Listed["sem"] = Entries("sem") /\ Listed["mutex"] = Entries("mutex")
    BY KindIs DEF Listed
  <2> QED BY <1>3, <2>1, <2>2 DEF Tidy
<1> QED BY <1>2, <1>3 DEF DirectoriesSound, SemHasMutex

(* A structure is in one slot of one directory. *)
LEMMA NamesRemember ==
  ASSUME NamesInv
  PROVE  NoBlockForgotten
<1> SUFFICES ASSUME busy = Idle, NEW b \in held
             PROVE  LET slots == {e \in Kind \X (0 .. MAX_MUTEXES + MAX_MAILBOXES) :
                                    /\ e[2] \in DOMAIN dir[e[1]].slot
                                    /\ dir[e[1]].slot[e[2]] = b.start}
                    IN  Cardinality(slots) = 1 \/ (slots = {} /\ object[b.start].kind = "data"
                                                     /\ b.start \in live)
  BY DEF NoBlockForgotten
<1> DEFINE s == b.start
           slots == {e \in Kind \X (0 .. MAX_MUTEXES + MAX_MAILBOXES) :
                       /\ e[2] \in DOMAIN dir[e[1]].slot
                       /\ dir[e[1]].slot[e[2]] = s}
<1>1. Dirs /\ Tidy(Listed, object, Starts, live, {}, {}) /\ s \in Starts /\ s # NULL
  <2>1. Dirs /\ Tidy(Listed, object, Starts, live, {}, {}) /\ s \in Starts
    BY IdleListing DEF NamesInv, DirInv, Starts
  <2> QED BY <2>1 DEF Tidy
<1> HIDE DEF s
<1>2. \A k \in Kind : /\ DOMAIN dir[k].slot = Slot(k)
                      /\ \A i \in Slot(k) : dir[k].slot[i] = s => object[s].kind = k /\ s \in Listed[k]
                      /\ \A i, j \in Slot(k) : dir[k].slot[i] = s /\ dir[k].slot[j] = s => i = j
  BY <1>1, DirFacts, ListedIs
<1>3. CASE \E k \in Kind : s \in Listed[k]
  <2>1. PICK k \in Kind : s \in Listed[k]
    BY <1>3
  <2>2. PICK i \in Slot(k) : dir[k].slot[i] = s
    BY <1>1, <2>1, ListedIs
  <2>3. i \in 0 .. MAX_MUTEXES + MAX_MAILBOXES
    <3>1. MAX_MUTEXES \in Nat /\ MAX_MAILBOXES \in Nat
      BY ObjectsAssumption
    <3>2. MAX_MUTEXES \div 2 <= MAX_MUTEXES
      BY <3>1
    <3>3. Capacity[k] <= MAX_MUTEXES + MAX_MAILBOXES /\ Capacity[k] \in Nat
      BY <3>1, <3>2, CapacityIs DEF Capacity, Kind
    <3> QED BY <3>1, <3>3 DEF Slot
  <2>4. <<k, i>> \in slots
    BY <1>2, <2>2, <2>3
  <2>5. \A e \in slots : e = <<k, i>>
    <3>1. ASSUME NEW e \in slots PROVE e = <<k, i>>
      <4>1. e \in Kind \X (0 .. MAX_MUTEXES + MAX_MAILBOXES) /\ e[2] \in Slot(e[1]) /\ dir[e[1]].slot[e[2]] = s
        BY <1>2
      <4>2. e[1] = k
        BY <1>2, <2>2, <4>1
      <4>3. e[2] = i
        BY <1>2, <2>2, <4>1, <4>2
      <4> QED BY <4>1, <4>2, <4>3
    <3> QED BY <3>1
  <2>6. slots = {<<k, i>>}
    BY <2>4, <2>5
  <2> HIDE DEF slots
  <2>7. Cardinality(slots) = 1
    BY <2>6, FS_Singleton
  <2> QED BY <2>7 DEF slots, s
<1>4. CASE \A k \in Kind : s \notin Listed[k]
  <2>1. object[s].kind = "data" /\ s \in live
    BY <1>1, <1>4 DEF Tidy
  <2>2. slots = {}
    BY <1>2, <1>4
  <2> QED BY <2>1, <2>2 DEF s
<1> QED BY <1>3, <1>4

(***************************************************************************)
(* A handle that a program got and did not give to destroy is memory of    *)
(* its own, and the object is found under its name: no call destroys what  *)
(* another one made.                                                       *)
(***************************************************************************)
THEOREM HandlesGoodHolds ==
  ASSUME Workload = {}, Long = {}
  PROVE  ObjectsSpec => []HandlesGood
<1>1. NamesInv /\ [ObjectsNext]_allVars => NamesInv'
  BY NamesStep
<1> QED BY <1>1, NamesInit, NamesFind, PTL DEF ObjectsSpec

(***************************************************************************)
(* free_index is right, and between two calls a semaphore has its mutex.   *)
(***************************************************************************)
THEOREM DirectoriesSoundHolds ==
  ASSUME Workload = {}, Long = {}
  PROVE  ObjectsSpec => []DirectoriesSound
<1>1. NamesInv /\ [ObjectsNext]_allVars => NamesInv'
  BY NamesStep
<1> QED BY <1>1, NamesInit, NamesDirectories, PTL DEF ObjectsSpec

(***************************************************************************)
(* Memory that is handed out is in one slot of one directory, or a program *)
(* knows it: destroy gives back all that create took.                      *)
(***************************************************************************)
THEOREM NoBlockForgottenHolds ==
  ASSUME Workload = {}, Long = {}
  PROVE  ObjectsSpec => []NoBlockForgotten
<1>1. NamesInv /\ [ObjectsNext]_allVars => NamesInv'
  BY NamesStep
<1> QED BY <1>1, NamesInit, NamesRemember, PTL DEF ObjectsSpec

=============================================================================
