------------------------------- MODULE Clock --------------------------------
(***************************************************************************)
(* The way into the kernel and out of it, and the one system call that     *)
(* runs partly with interrupts on: CLOCK, which reads the time of day from *)
(* the CMOS clock (interrupts.asm, libasm.asm:43-79, SysCallDispatcher.c,  *)
(* time.c of the kernel), and what programs make of it (time.c of          *)
(* userland).                                                              *)
(*                                                                         *)
(* The CMOS clock goes its own way.  It is read a register at a time: the  *)
(* number of the register is written to port 70h, its value is read from   *)
(* port 71h.                                                               *)
(***************************************************************************)
EXTENDS Integers, FiniteSets

CONSTANTS
  Process,                   \* the processes
  Sleeper,                   \* bound: those that only sleep; the others never do
  Hours, Minutes, Seconds,   \* 24, 60 and 60 in the code
  MaxSleep                   \* bound: seconds to sleep

ASSUME ClockAssumption ==
  /\ Sleeper \subseteq Process
  /\ {Hours, Minutes, Seconds} \subseteq 1 .. 60
  /\ MaxSleep \in 1 .. Hours * Minutes * Seconds - 1

Day == Hours * Minutes * Seconds

VARIABLES
  now,       \* the second of the day, in the CMOS clock
  index,     \* the register port 71h gives
  cpu,       \* the process that runs
  mode,      \* where each process is: in user code, or in a system call
  got,       \* what each process has read of the time
  prog,      \* what each process does with it
  extra,     \* seconds its sleep was asked for
  target,    \* target_time of sleep
  clean,     \* no second has passed during the last reading of the time
  straight,  \* history: sleep started from a clean reading
  elapsed,   \* history: seconds since then, up to one more than MaxSleep
  polled     \* the process has read the whole time within this second

cvars == <<now, index, cpu, mode, got, prog, extra, target, clean, straight, elapsed, polled>>

machine == <<now, cpu>>
sleeping == <<prog, extra, target, straight>>
history == <<clean, elapsed, polled>>

-----------------------------------------------------------------------------
(* Into the kernel and out of it *)

Goes(p, m) == mode' = [mode EXCEPT ![p] = m]

Runs(p, m) == cpu = p /\ mode[p] = m

\* The numbers of the system calls, as userland's wrappers give them.
Number == [
  beep |-> 5, setCursor |-> 6, screen_width |-> 7, myPutchar |-> 4, myPutcharBig |-> 8, printHex |-> 11,
  clearScreen |-> 1, myGetChar |-> 3, malloc |-> 9, free |-> 10, print_bitmap |-> 87, run |-> 12,
  kill |-> 13, list_all_processes |-> 14, nice |-> 15, sem_create |-> 88, sem_destroy |-> 89,
  sem_wait |-> 90, sem_signal |-> 91, mutex_create |-> 92, mutex_destroy |-> 93, mutex_lock |-> 94,
  mutex_unlock |-> 95, create_mailbox |-> 96, destroy_mailbox |-> 97, write_message |-> 98,
  read_message |-> 99]

\* READ, CREATE_PROCESS, KILL_PROCESS, BE_NICE, SEM_WAIT, SEM_SIGNAL,
\* MUTEX_LOCK and MAIL_READ may give the processor away half way.
GivesAway == {3, 12, 13, 15, 90, 91, 94, 99}

\* Mutated form of Open: trap gates, which leave interrupts on.
OpenByTrap == {"user", "to seconds", "seconds", "return", "data", "may leave"}

\* Where interrupts are on: in user code, and in CLOCK after the sti of
\* getMinutes.  Every gate of the idt is an interrupt gate.
Open == {"user", "to seconds", "seconds", "return"}

\* int 80h for any call but CLOCK.
Call(p) ==
  /\ p \notin Sleeper /\ Runs(p, "user")
  /\ \E w \in DOMAIN Number : Goes(p, IF Number[w] \in GivesAway THEN "may leave" ELSE "data")
  /\ UNCHANGED <<machine, index, got, sleeping, history>>

\* The handler has done its work: iretq.
Done(p) ==
  /\ Runs(p, "data") \/ Runs(p, "may leave")
  /\ Goes(p, "user")
  /\ UNCHANGED <<machine, index, got, sleeping, history>>

\* _force_irq00, between two pieces of work of a handler.
Leave(p) ==
  /\ Runs(p, "may leave")
  /\ Goes(p, "away")
  /\ cpu' \in Process \ {p}
  /\ UNCHANGED <<now, index, got, sleeping, history>>

\* Scheduled again: the handler goes on.
ComesBack(p) ==
  /\ Runs(p, "away")
  /\ Goes(p, "data")
  /\ UNCHANGED <<machine, index, got, sleeping, history>>

\* IRQ 0 takes the processor to another process (which one, is a matter for
\* Scheduler).
Timer ==
  /\ mode[cpu] \in Open
  /\ cpu' \in Process \ {cpu}
  /\ UNCHANGED <<now, index, mode, got, sleeping, history>>

-----------------------------------------------------------------------------
(* CLOCK *)

\* The registers hold two decimal digits each.
Bcd(n) == (n \div 10) * 16 + (n % 10)

\* Mutated form of translateTime: the value is taken for binary.
translateNothing(v) == v

translateTime(v) == (v \div 16) * 10 + (v % 16)

HourAt(t) == t \div (Minutes * Seconds)
MinuteAt(t) == (t \div Seconds) % Minutes

\* Register 0 holds the seconds, 2 the minutes, 4 the hours.
Port71 ==
  CASE index = 4 -> Bcd(HourAt(now)) [] index = 2 -> Bcd(MinuteAt(now)) [] OTHER -> Bcd(now % Seconds)

ClockCall(p) == Goes(p, "hours") /\ index' = 4

ReadHours(p) ==
  /\ Runs(p, "hours")
  /\ got' = [got EXCEPT ![p].hour = translateTime(Port71)]
  /\ clean' = [clean EXCEPT ![p] = TRUE]
  /\ Goes(p, "minutes") /\ index' = 2
  /\ UNCHANGED <<machine, sleeping, elapsed, polled>>

\* getMinutes ends with sti.
ReadMinutes(p) ==
  /\ Runs(p, "minutes")
  /\ got' = [got EXCEPT ![p].minute = translateTime(Port71)]
  /\ Goes(p, "to seconds")
  /\ UNCHANGED <<machine, index, sleeping, history>>

SelectSeconds(p) ==
  /\ Runs(p, "to seconds")
  /\ Goes(p, "seconds") /\ index' = 0
  /\ UNCHANGED <<machine, got, sleeping, history>>

\* Another process may have been in CLOCK since, and have left the index at
\* another register.
ReadSeconds(p) ==
  /\ Runs(p, "seconds")
  /\ got' = [got EXCEPT ![p].second = translateTime(Port71)]
  /\ clean' = [clean EXCEPT ![p] = @ /\ index = 0]
  /\ polled' = [polled EXCEPT ![p] = @ \/ (prog[p] # "watches" /\ clean[p] /\ index = 0)]
  /\ Goes(p, "return")
  /\ UNCHANGED <<machine, index, sleeping, elapsed>>

-----------------------------------------------------------------------------
(* Programs *)

current_time(p) == (got[p].hour * Minutes + got[p].minute) * Seconds + got[p].second

\* sleep(n), up to its first system call.
Sleep(p) ==
  /\ p \in Sleeper /\ Runs(p, "user")
  /\ \E n \in 1 .. MaxSleep : extra' = [extra EXCEPT ![p] = n]
  /\ prog' = [prog EXCEPT ![p] = "starts"]
  /\ ClockCall(p)
  /\ UNCHANGED <<machine, got, target, straight, history>>

\* watch, and the digital clock
Watch(p) ==
  /\ p \notin Sleeper /\ Runs(p, "user")
  /\ prog' = [prog EXCEPT ![p] = "watches"]
  /\ ClockCall(p)
  /\ UNCHANGED <<machine, got, extra, target, straight, history>>

Midnight == [hour |-> 0, minute |-> 0, second |-> 0]

\* What p has read and counted is of no use any more.
Forgets(p) ==
  /\ got' = [got EXCEPT ![p] = Midnight]
  /\ extra' = [extra EXCEPT ![p] = 0]
  /\ target' = [target EXCEPT ![p] = 0]
  /\ straight' = [straight EXCEPT ![p] = FALSE]
  /\ clean' = [clean EXCEPT ![p] = FALSE]
  /\ polled' = [polled EXCEPT ![p] = FALSE]
  /\ elapsed' = [elapsed EXCEPT ![p] = 0]

WatchEnds(p) ==
  /\ Runs(p, "return") /\ prog[p] = "watches"
  /\ prog' = [prog EXCEPT ![p] = "idle"]
  /\ Forgets(p)
  /\ Goes(p, "user")
  /\ UNCHANGED <<machine, index>>

\* sleep up to its loop.  A second that passed while the time was read, or
\* another register in place of the seconds, puts the target anywhere.
SleepStarts(p) ==
  /\ Runs(p, "return") /\ prog[p] = "starts"
  /\ target' = [target EXCEPT ![p] = (current_time(p) + extra[p]) % Day]
  /\ prog' = [prog EXCEPT ![p] = "sleeps"]
  /\ straight' = [straight EXCEPT ![p] = clean[p]]
  /\ got' = [got EXCEPT ![p] = Midnight]
  /\ ClockCall(p)
  /\ UNCHANGED <<machine, extra, history>>

\* Mutated form of SleepGoesOn: the clock has to show more than the target.
SleepPast(p) ==
  /\ Runs(p, "return") /\ prog[p] = "sleeps"
  /\ IF current_time(p) <= target[p]
     THEN /\ got' = [got EXCEPT ![p] = Midnight]
          /\ ClockCall(p)
          /\ UNCHANGED <<sleeping, history>>
     ELSE /\ prog' = [prog EXCEPT ![p] = "idle"]
          /\ Forgets(p)
          /\ Goes(p, "user")
          /\ UNCHANGED index
  /\ UNCHANGED machine

\* The loop of sleep ends in the second it waits for, and in no other.
SleepGoesOn(p) ==
  /\ Runs(p, "return") /\ prog[p] = "sleeps"
  /\ IF current_time(p) # target[p]
     THEN /\ got' = [got EXCEPT ![p] = Midnight]
          /\ ClockCall(p)
          /\ UNCHANGED <<sleeping, history>>
     ELSE /\ prog' = [prog EXCEPT ![p] = "idle"]
          /\ Forgets(p)
          /\ Goes(p, "user")
          /\ UNCHANGED index
  /\ UNCHANGED machine

\* Bounds: a process that sleeps gets to read the time within every second,
\* and no reading lasts longer than one.
SecondPasses ==
  /\ \A p \in Process : mode[p] \in {"minutes", "to seconds", "seconds", "return"} => clean[p]
  /\ \A p \in Process : prog[p] = "sleeps" => polled[p]
  /\ now' = (now + 1) % Day
  /\ clean' = [p \in Process |-> FALSE]
  /\ polled' = [p \in Process |-> FALSE]
  /\ elapsed' = [p \in Process |->
       IF straight[p] /\ elapsed[p] <= MaxSleep THEN elapsed[p] + 1 ELSE elapsed[p]]
  /\ UNCHANGED <<index, cpu, mode, got, sleeping>>

ClockInit ==
  /\ now \in 0 .. Day - 1
  /\ index = 0
  /\ cpu \in Process
  /\ mode = [p \in Process |-> "user"]
  /\ got = [p \in Process |-> Midnight]
  /\ prog = [p \in Process |-> "idle"]
  /\ extra = [p \in Process |-> 0]
  /\ target = [p \in Process |-> 0]
  /\ clean = [p \in Process |-> FALSE]
  /\ straight = [p \in Process |-> FALSE]
  /\ elapsed = [p \in Process |-> 0]
  /\ polled = [p \in Process |-> FALSE]

Step(p) ==
  \/ Call(p) \/ Done(p) \/ Leave(p) \/ ComesBack(p)
  \/ ReadHours(p) \/ ReadMinutes(p) \/ SelectSeconds(p) \/ ReadSeconds(p)
  \/ Sleep(p) \/ Watch(p) \/ WatchEnds(p) \/ SleepStarts(p) \/ SleepGoesOn(p)

ClockNext == Timer \/ SecondPasses \/ \E p \in Process : Step(p)

-----------------------------------------------------------------------------
(* Properties *)

\* Nothing runs while a system call is in the middle of the kernel's data,
\* although CLOCK switches interrupts on and calls give the processor away.
KernelDataAlone ==
  \A p \in Process : mode[p] \in {"data", "may leave"} => cpu = p

\* Each value is read from its own register: hours and minutes always; for
\* the seconds the index is wrong only while another process stands between
\* its minutes and its seconds.
ReadsItsRegister ==
  \A p \in Process :
    /\ mode[p] = "hours" => index = 4 /\ cpu = p
    /\ mode[p] = "minutes" => index = 2 /\ cpu = p
    /\ Runs(p, "seconds") /\ index # 0 =>
         index = 2 /\ \E q \in Process \ {p} : mode[q] = "to seconds"

\* A reading during which no second passed, and the index stayed where it
\* was put, is the time of the day.
ReadsTheTime ==
  /\ ReadsItsRegister
  /\ \A p \in Process : mode[p] = "return" /\ clean[p] => current_time(p) = now

\* sleep(n) from and to such readings is n seconds long, midnight included.
SleepsAsAsked ==
  [][\A p \in Process :
       prog[p] = "sleeps" /\ prog'[p] = "idle" /\ straight[p] /\ clean[p] => elapsed[p] = extra[p]]_cvars

\* A process that reads the time within every second wakes up, if no other
\* process shifts the index whenever it does.
SleepEnds ==
  \A p \in Sleeper :
    [](Runs(p, "seconds") => index = 0) => (prog[p] = "starts" ~> prog[p] = "idle")

=============================================================================
