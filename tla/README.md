# HoraciOS in TLA+

HoraciOS is a small x86-64 teaching kernel (`src/Kernel`) with a shell and test
programs (`src/Userland/SampleCodeModule`).  This directory holds its
specifications: what each part of the kernel, the shell and the two simulation
programs do, checked with TLC on small instances, and theorems, proved with
TLAPS for every size, about the mutexes, the process table, the scheduler's ring,
semaphores and mailboxes, the clock and the two programs.

## 1. How the system runs

Everything about the interleavings of this kernel follows from a few facts.

* There is one processor.  System calls (`int 80h`) and device interrupts enter
  through interrupt gates (`idtLoader.c`), which clear the interrupt flag.  A
  system call is therefore one atomic step, up to the point where it gives the
  processor away itself with `_force_irq00` (`asm/interrupts.asm:351`).  The
  calls that do are `mark_process_as_blocked` and `mark_process_as_finished`
  (`process.c:141-167`), for the process that runs.
* User code runs with interrupts on, and the timer switches processes between
  any two instructions of it.
* `wrapper_process` (`process.c:62-70`), the code a process returns to when its
  entry point ends, is kernel code that runs *with interrupts on*.  It wakes the
  parent and finishes the process, so `mutex_lock`, `release_mutex_by_owner`,
  `resume_process` and `mark_process_as_finished` also run interruptible, one
  memory write at a time.
* A blocked process is resumed by `resume_process`, whoever calls it: the owner
  of a mutex that unlocks, a semaphore or mailbox operation, or the return of
  *any* child (`process.c:66`).  The code that blocked does not know why it was
  resumed.
* Killing a process (`mark_process_as_finished` of another process id) releases
  the mutexes it owns and nothing else: entries in waiting lists stay.
* One system call runs partly with interrupts on: `getMinutes`, inside the clock
  call, ends its port access with `sti` (`asm/libasm.asm:59`).
* Process 0 is the shell, and a program that the shell calls as a function, such
  as `prodcons` and `philosophers`, is process 0 as well.

## 2. Inventory

State is kept in static variables of each C file and in structures from the
kernel's own `malloc`.

| Part | State | Operations | What makes it correct | Where |
|---|---|---|---|---|
| Mutexes, `mutex.c` | value, owner, ring of waiting process ids | lock, unlock, `mutex_super_unlock`, `release_mutex_by_owner` | mutual exclusion; served in order of arrival; no mutex left to a dead owner; nobody waits outside the queue | `Mutex`, `MutexFifo`, `FifoLock` |
| Directories of mutexes, semaphores, mailboxes | slots and `free_index`, structures from malloc | create, find by name, destroy | the free index names a free slot; a destroy hits its own object; no block forgotten | `Objects` |
| Process table, `process.c` | 50 slots with state, parent and priority; `process_pointer`, `process_count`, `process_mutex` | create, finish, kill, block, resume, `wrapper_process` | exact count; pointer at a free slot; a finished process stays finished; a parent waiting for its child is woken | `Process` |
| Scheduler, `scheduler.c`, `priority_round_robin.c`, `non_sizable_stack.c` | ring of 10 nodes, stack of new processes, quantum | queue, dequeue, next, `short_term_scheduling`, ghost shell, nice | nobody lost from the ring; ring closed; READY processes run; the loop ends | `RoundRobin`, `Scheduler` |
| Memory manager, `memoryManager.c` | buddy tree in an array | malloc, free | blocks disjoint; NULL only without room; free gives back the whole block | `MemoryManager`, `Allocator` |
| Semaphores, `sem.c` | value, waiting list, an inner mutex found by name | wait, signal | tokens neither lost nor doubled; waiters served in order | `Ipc`, `CountingSemaphore` |
| Mailboxes, `mailbox.c` | ring of 4000 bytes, list of blocked readers | write, read with a retry loop | bytes in order, none lost; readers woken | `Ipc`, `ByteQueue` |
| Keyboard, `keyboard.c` | key buffer, its index, shift | key interrupt, read one key | keys in order; the buffer is a string | `Terminal` |
| Console, `naiveConsole.c`, `write.c` | cursor, screen | print, big print, new line, scroll, clear | nothing drawn outside the screen | `Console` |
| Shell, `shell.c`, `taskmanager.c` | the line, the pipe counter | edit, take apart, start in the foreground, background or a pipe | what is shown is what is run, the way it was meant | `Terminal`, `Text` |
| Numbers and text, `stdlib.c` | | `myPrintf`, `toString`, `myAtoi`, `isNumber` | a number that was written can be typed again | `Text` |
| Producers and consumers, `prodcons_sem.c` | plates, chefs, waiters, two semaphores, a mutex | hire, dismiss, end; the chefs' and waiters' loop | plates and trays accounted for; nobody left behind; everybody works | `Restaurant` |
| Philosophers, `philosophers.c` | quantity, numbers, chopsticks, `main_mutex` | hire, let go, end; the philosophers' loop | no circular wait; two chopsticks; everybody eats | `Philosophers` |
| System calls, interrupts, `SysCallDispatcher.c`, `irqDispatcher.c`, `idtLoader.c`, `asm/` | the interrupt flag | dispatch, timer | nothing runs beside a system call inside the kernel's data | `Clock` |
| Clock and sleep, `time.c` of both sides | CMOS registers and their index | clock call, sleep, watch | the time read is the time; sleep lasts as asked and ends | `Clock` |
| Packer, loader, kernel start | memory | build the image, load the modules, clear the bss, initialise | the modules arrive whole | `Boot`, `Machine` |
| Speaker, font, exceptions, pipes as a whole, `tests.c`, Pure64, BMFS | | | | section 7 |

How the parts touch each other: the mutexes, semaphores and mailboxes block and
resume processes through the process table; a semaphore has a mutex of the
directory programs use, and so has the process table (`process_mutex`), so the
two call each other; `create_process` hands new processes to the scheduler
through `to_queue`; the scheduler reads the state field of the process table and
drops FINISHED processes; all structures come from `malloc`; keys go through the
buffer to the shell, which writes them on the console; the programs use
mutexes, semaphores, kill and the clock by system calls.

What is hard in it: the interruptible epilogue; code resumed without knowing
why; state read, then acted on after the processor was given away; finished
processes left in waiting lists; rings whose indices move in different calls;
fixed-size tables; and the scheduler's loop, which nothing can interrupt.
`PROJECT.json` lists each hazard at its line with the properties for it.

## 3. The modules

`WaitQueue` is the ring `lockedQueue` with its two indices, as a record and
operators.  `MutexRecord` adds value and owner, and `HandOff`, what
`mutex_super_unlock` does.  Both `Mutex` and `Process` are built on them.

`Mutex` is the mutexes as programs use them.  `Lock` is `mutex_lock` up to where
the caller has the mutex or is blocked; `LockReturn` is the rest of the call,
which looks at nothing.  `holds[p]` is what the program believes: `mutex_lock`
returned and it has not unlocked.  `Spawn`, `ResumeParent`, `Exit` and `Kill` are
the calls of `process.c` that wake or finish a process.  The constant `Workload`
names two things programs may do to a process that is inside `mutex_lock`:
`ChildReturns` and `KillWaiter`.  The passing runs and the theorems leave both
out; section 4 says what happens with them.

`FifoLock` is the abstract lock, a holder and a line per lock; `MutexFifo` shows
that `Mutex` implements it (`holder` is the owner field, `line` the queue read
from its first waiter on).

`Process` is the process table and `process_mutex`.  System calls are single
steps; `wrapper_process` is a chain of small steps, one per write to shared
memory, named after what they write (`Wake`, `LockGuard`, `OwnGuard`, ...,
`FinishSelf`, `CountDown`, `UnlockGuard`).  `Workload` says whether the timer may
strike in that chain (`Preempt`) and whether programs kill anything at all
(`WildKill`: finished processes, and children a parent is waiting for).
`overkill` is a history variable: it counts the kills of finished processes.
The place `Gone` is a slot whose stack is at its base again, because its process has left
or was killed: should a late `resume_process` write READY into its state, it does
nothing that is modelled.

`RoundRobin` holds the ring's and the stack's operators, node by node as in the
array, and `Scheduler` the processes that use it.  The loop of
`short_term_scheduling` is one action per iteration (`Skip` a blocked process,
`Discard` a finished one, `Dispatch` a ready one, `Restart` with a ghost shell
when the ring is empty), so that its end is a liveness property.  `Hasty` in the
workload lets programs create twice, or create and finish, before the ring has
advanced; `AllBlocked` lets the last READY process block.

`MemoryManager` is the buddy tree.  `malloc` and `free_handler` are one step
each; the search and the climb through the tree are recursive functions over
nodes, the powers of two one over orders (`pow`).  The search goes through nodes that are
large enough and no others, which is its domain in `Search`.  `held` is the blocks programs have.
`Allocator` is the abstract allocator, which knows only those blocks and never a tree; what is
available and the sizes it deals in (`Available`, `Sizes`) are its constants.

`Objects` extends `MemoryManager`: the structures of mutexes, semaphores and
mailboxes are blocks of it, entered in three directories, whose code is one piece
written three times.  Freed memory keeps what was in it, and a handle is an
address: every call reads the name that stands there.  Creating and destroying a
semaphore takes two blocks and is two steps.  `Workload` can add the use of
destroyed handles (`Stale`), one name for a mutex and a semaphore (`Shared`), and
semaphores without room for their mutex (`Exhausted`).

`Ipc` is one semaphore, with its inner mutex and two waiting lines, and one
mailbox.  A call that blocks goes on in an action of its own
(`MutexLockReturns`, `SemWaitReturns`, `Reread`).  `credit` counts tokens given and
not yet taken.  `CountingSemaphore` and `ByteQueue` are what they promise.  The
`Workload` names what else happens: programs that lock the inner mutex
(`Shared`), children that return while a parent reads or waits (`ReaderWoken`,
`WaiterWoken`), and kills of waiters (`KillWaiter`).

`Console` is the cursor and its moves, with what is on the last line and how far
to the right and below anything was ever drawn.  `Text` holds numbers and the way
the shell takes a line apart, as operators on sequences.  `Terminal` composes both
with the key buffer and the shell: a key interrupt at any time (`PressKey`),
one step of the shell's loop at a time (`Edits`), the line taken apart and handled
(`Interprets`), and output of what was started (`CommandEnds`).

`Sync` states the mutexes and semaphores as programs see them, which is what
`FifoLock` and `CountingSemaphore` promise and `Mutex` and `Ipc` are shown to
implement.  `Restaurant` is `prodcons_sem.c` and `Philosophers` is
`philosophers.c` on top of it, one action per stretch between two system calls.
Both need only `Sync`, because the kernel may interrupt them between any two
calls and nowhere else that matters.  `Programs` runs one or the other.

`Boot` follows the bytes from `ModulePacker` through `loadModules` and `clearBSS`
to `load_idt`.  `Clock` is the entry into the kernel: which calls run with
interrupts off to their end, which give the processor away, and, register by
register, the one that runs with interrupts on in its second half, with `sleep` and
`watch` built on it.  `Machine` is power-on: `Boot` first, then `Clock`.

`MCMutex`, `MCProcess`, `MCScheduler`, `MCObjects`, `MCIpc`, `MCTerminal` and
`MCMachine` instantiate them for TLC; `Programs` is checked as it is.
The modules whose names end in `Proofs` hold the theorems of section 5:
`WaitQueueProofs` what the ring of a waiting list does, which the next three need,
`MutexProofs` (with the refinement of `FifoLock`), `ProcessProofs`, `IpcProofs`,
`SchedulerProofs` and `TerminalProofs` (with `Console`) those about the module they are
named after, `ProgramsProofs` those about `Restaurant` and `Philosophers`, and
`KernelProofs` those about `Boot` and `Clock`, and, in a part of their own, those about
`MemoryManager` and `Objects`.

Operators whose comment begins "Mutated form of" are wrong on purpose.  Put in
the place of the definition they vary, each makes one property fail, which shows
that the property depends on the code.

## 4. What the runs show

| Run | Instance | Properties |
|---|---|---|
| `mutex_safety` | 3 processes, 2 mutexes, queues of 2, symmetry | `TypeOK`, `MutualExclusion`, `NoOrphanMutex`, `NoLostWaiter`, and `ServesInOrder`: `Mutex` implements `FifoLock` |
| `mutex_live` | 3 processes, 1 mutex, fairness | `EveryWaitEnds`: `mutex_lock` returns, so not everyone is ever blocked |
| `process_table` | 4 slots, `WildKill` | `CountExact`, `PointerAtFreeSlot`, `OwnerAwake`, and `NeverRevived` as an action property |
| `process_preempted` | 3 slots, `Preempt` | `GuardCoherent`, `ChildStillToReturn` with ticks anywhere in `wrapper_process` |
| `scheduler_ring` | 3 processes, 3 nodes, fairness | `NoProcessLost`, `RingSound`; `EveryReadyRuns` |
| `objects` | 2 names, 4 blocks, directories of 3, 1 and 1 | `MemorySound` (the marks of the tree agree with each other and with what programs hold); `HandlesGood`; `DirectoriesSound` (free index, and every semaphore has its mutex); `NoBlockForgotten`; `KeepsPromises`: `MemoryManager` implements `Allocator` |
| `ipc` | 3 processes, a semaphore or a mailbox of 2 bytes | `TokensSound`; `NobodyForgotten` (sleepers in `sem_wait` and readers of the mailbox); `ServesInOrder`: the semaphore implements `CountingSemaphore`; `KeepsBytes`: the mailbox implements `ByteQueue` |
| `terminal` | 5 keys and shift, a key buffer of 3, a screen of 12 by 5 characters, lines of up to 5 | `BufferIsString`, `KeysInOrder`, `DrawsInside`, `EchoMatches`, `ExecutesWhatIsShown`, `NumbersSurvive` |
| `programs` | 3 processes hired and 1 dismissal each; 2 trays; a table for 3 | `TraysAccounted`; `TableFlows` (nobody waits in a circle, as long as nobody is hired in haste or nobody is removed), `TableShared` (own number, two chopsticks); `CleansUp`: a program that ends leaves nobody behind and kills nobody else; `EverybodyServed`: each chef, waiter and philosopher gets to do its part |
| `machine` | memory of 16 cells; 2 processes, a day of 22 seconds | `ModulesIntact`; `KernelDataAlone`, `ReadsTheTime`, `SleepsAsAsked`, `SleepEnds` |

The type invariant of a module is a conjunct of one of these: of `GuardCoherent`,
`RingSound`, `MemorySound`, `NobodyForgotten` and `DrawsInside`; `mutex_safety` lists its own.

Runs that end in a violation, each a disagreement between the code and what the
repository says of it (`findings` in `PROJECT.json` quotes the lines):

| Run | Property | What happens |
|---|---|---|
| `mutex_child_returns` | `MutualExclusion` | the return of a background child resumes its parent inside `mutex_lock`, which returns without the mutex |
| `programs_plates` | `PlatesOnTrays` | a chef that has sent another one home goes on with a plate although it gave its tray back: there are more plates than trays |

### What else the models show

The passing runs keep programs within some limits, which the constant `Workload`
of each module lists.  With a limit taken away, TLC finds:

* `Mutex`, `{"KillWaiter"}`: a process killed in the queue is later made the owner
  (`NoOrphanMutex`).
* `Process`, `{"Preempt"}`: a tick between FINISHED and `process_count--` leaves the
  process counted for ever (`CountExact`); a tick between the entry in the queue and
  BLOCKED lets a process be woken before it sleeps, and then sleep as the owner
  (`OwnerAwake`); a parent that finishes between the two steps of `resume_process` is
  revived (`NeverRevived`).
* `Process`, six slots, `{"Preempt"}`: in `mutex_super_unlock` a process that finishes has
  the id of the next owner in a local variable (`mutex.c:131-137`).  By the time
  it writes READY, that owner may have died and a new process in its slot may wait in
  `kill` for `process_mutex`.  It is woken without the mutex, kills itself, and its
  entry stays in the queue of a mutex that is then freed.  When everybody
  has ended, the new shell's `mutex_unlock`, which takes -1 for the owner, makes that entry
  the owner of a mutex whose value is 0 (`GuardCoherent`).  The theorem about
  `GuardCoherent` excludes exactly the last step of this (`NobodyLeftInLine`).
* `Scheduler`, `{"Hasty"}`: of two processes created in one tick the second takes
  the first one's link (`NoProcessLost`).  `{"AllBlocked"}`: the last READY process
  blocks and the loop finds nobody (`SomebodyReady`).
* `Objects`, `{"Stale"}`: a destroy hits somebody else's object (`DirectoriesSound`,
  `NoBlockForgotten`).  Names in `Long`: it hits none (`HandlesGood`).  `{"Exhausted"}`: a semaphore without a
  mutex (`DirectoriesSound`).
* `Ipc`, `{"WaiterWoken"}`: `sem_wait` returns without a token (`TokensSound`).
  `{"KillWaiter"}`: a token is given to a finished process.  A list of readers
  shorter than the processes and their wake-ups, `PROCESS_QUEUE_SIZE` 3, is
  written behind its end.
* `Terminal`: a line longer than the screen is wide scrolls it, and with it the prompt; when
  it is erased again the prompt is a row higher than where Backspace looks for it.
  `EchoMatches` is about the prompt in its place.
* `Terminal`, `{"LongLine"}`: the last character typed into a full line is lost, the line
  runs without Enter (with `MaxTyped` above `LINE_SIZE`).  Without `SingleSpaces` in
  `ExecutesWhatIsShown`: kill with two spaces is given an empty target, which
  counts as a number, and ends process 0.
* `Programs`, four at the table: of two philosophers hired before either has taken
  its number, the second may get the first one's.  If then the last one hired is
  removed, number 4 stays at a table for three: it takes chopstick 0 and then 1, its
  neighbour 1 and then 0, and they wait for each other (`NoCircularWait`), which
  the comment at `philosophers.c:101-107` rules out.
* `Programs`: a dismissal still to be carried out when the program is told to end
  leaves a process behind; told to end before anybody was hired, `philosophers`
  kills `philosophers[0]`, which is process 0, the shell; a second removal is let
  through by the same quantity and takes it below 2.  The comment at
  `philosophers.c:103` has odd and even the other way round; either way works.

### Bounds, and why they are enough

* Three processes give an owner, a first waiter and a second, hence an order in
  the queue; two mutexes let one process own one and wait for the other, and a
  kill release two.  The queue has two slots, so its indices wrap; it cannot
  overflow with three processes.  In the code 30 slots stand against at most 10
  processes that the ring can hold.  `MaxHeld` keeps programs to the mutexes there
  are in `mutex_safety`, and to one at a time in `mutex_live`: two programs that
  take two mutexes in opposite order deadlock, which is theirs to avoid.
* `Process` has four slots, or three with `Preempt`: a process, its child, a third one that
  competes for `process_mutex`, and a free slot.  Four slots with `Preempt` have more
  than 13 million states; the theorems cover every number of slots.  The last free slot is never
  taken (`SlotsLeft`), since `process_pointer` would be looked for for ever with
  interrupts off, and a full count is not exceeded.  `MaxOverkill` bounds the
  kills of finished processes, each of which lowers `process_count` once more.
  A queue index wraps in the step that increments it, and the owner takes the
  head of the queue in one step; the code takes two and three.
* `Scheduler` has as many nodes as processes, and stays within the nodes (guard of
  `Create`), as the code must: beyond it `queue_round_robin` drops a process.  A
  slot whose old node is still in the ring is not used again, because with 50
  slots and 10 nodes `process_pointer` does not come round in time.  Processes have
  priority 0, the ghost shell 1, so both a quantum of one tick and a longer one
  occur.  One process is created per place in the ring (`Hasty` would allow more).
* The buddy tree in `Objects` has a root, an inner level and four leaves; a mailbox takes
  two blocks and the others one, so blocks of each level are split and joined while
  directories fill up and are emptied.  The directory of mutexes can be full, and
  that of semaphores is always smaller, as in the code.  All addresses are freed that
  are not in the middle of a block.
* `Ipc` has one semaphore and one mailbox, used in different behaviours: they share
  only the process table.  The ring of two bytes is full, empty and wraps around
  with messages of one and two bytes.  The lines have four places for three
  processes and one early wake-up (`MaxWakes`).
* `Terminal` scales the sizes down and keeps what is close to each other: a line
  (`LINE_SIZE`, 7) is shorter than the screen is wide, without the prompt; the key
  buffer (3) overflows with keys typed ahead; integers have 8 bits (`INT_MAX` 127),
  so numbers of three digits overflow, and `myPrintf` has 8 characters for them (`PRINT_SIZE`).  A line has five characters (`MaxTyped`),
  enough for a pipe, for `&`, and for a command with one or two arguments whose
  names have one character, and two when earlier output has left the prompt elsewhere
  (`MaxAskew`); Backspace may be pressed beyond these bounds.  `MaxOutput` is what is written between two prompts.
* `Programs` has three processes beside the one that reads the keys, so both
  jobs and a second one of either, or three at the table, where everybody has two
  neighbours; two trays make both semaphores run empty.  `MaxDismissals` and
  `MaxRemovals` are 1.
* `Boot` is checked with every pair of modules of up to two bytes, which together with
  their sizes begin before the bss, cover it and reach beyond it; one cell stands
  for a byte or for a 4-byte number.  `Clock` starts when `load_idt` has run; only one
  pair of modules (`Shipped`) goes on to it, for the two parts share nothing.  Hours,
  minutes and seconds have 1, 2 and 11 values: registers of two decimal digits,
  a full minute to tear and midnight within reach; a full hour is torn like a full
  minute.  No reading of the time lasts longer than a second.

### Fairness

* `Mutex`: weak fairness of `Tick(p)`, which is what the ring gives every READY
  process (`EveryReadyRuns` is the same promise of the scheduler).  Strong
  fairness of `LockReturn`, `Unlock` and `Exit`: a process that runs again and
  again, a quantum at a time, gets on in its code, leaves its critical section and
  comes to an end.  For `LockReturn` and `Exit` that is the processor's doing, for
  `Unlock` the program's.
* `Scheduler`: weak fairness of the timer and of the loop's next iteration.
  Nothing is assumed of the programs.

* `Programs`: weak fairness of every worker, every philosopher, and of the program's own
  steps other than reading keys: each is READY or blocked in the kernel, and the
  ring comes round.  Keys need not be pressed.
* `Clock`: strong fairness of each process's steps, of the timer and of the second.  A
  quantum is many instructions, so a process that is scheduled again and again
  gets on, and an interrupt that is pending is taken when the flag is set again.
  `SleepEnds` needs more, and says so: that the process reads the time within every
  second (a guard of `SecondPasses`), and that no other process shifts the register
  index under it each time.

`CHECK_DEADLOCK FALSE` stands in the runs of `Mutex`, `Process` and `Ipc`, in which the
system may really stop: everyone blocked, with the scheduler spinning, or a bound
reached; in those of `Programs`, which ends; and in `machine`, where the pairs of
modules other than `Shipped` stop after `load_idt`.

## 5. What is proved

The theorems hold for every value of the constants that the named assumptions of the
modules admit: any number of processes, mutexes, philosophers and so on, any sizes
of lists and tables.  Some have a hypothesis besides, about what programs do; none is
assumed of the kernel's own steps.

| Theorem | States | Hypothesis |
|---|---|---|
| `MutexProofs`: `TypeCorrect` | `TypeOK` of `Mutex` | none |
| `MutualExclusionHolds`, `NoOrphanMutexHolds` | `MutualExclusion`, `NoOrphanMutex` | `Disciplined` |
| `NoLostWaiterHolds`, `ServesInOrderHolds` | `NoLostWaiter`; `Mutex` implements `FifoLock` | `Disciplined`, `[]Few` |
| `ProcessProofs`: `PlacesKept` | types and places | none |
| `GuardCoherentHolds` | `GuardCoherent`, with ticks anywhere | `[]NobodyLeftInLine` |
| `ChildStillToReturnHolds` | `ChildStillToReturn`, with ticks anywhere | no `WildKill`, `[]KillsNoAwaited` |
| `CountExactHolds`, `PointerAtFreeSlotHolds`, `OwnerAwakeHolds`, `NeverRevivedHolds` | the properties of `process_table` | no `Preempt` |
| `SchedulerProofs`: `RingSoundHolds`, `NoProcessLostHolds` | `RingSound`, `NoProcessLost` | no `Hasty` |
| `IpcProofs`: `KeepsBytesHolds` | the mailbox implements `ByteQueue` | none |
| `TokensSoundHolds` | `TokensSound` | `Gentle` |
| `NobodyForgottenHolds`, `ServesInOrderHolds` | `NobodyForgotten`; the semaphore implements `CountingSemaphore` | `Gentle`, `[]Few` |
| `KernelProofs`: `ModulesIntactHolds` | `ModulesIntact` | none |
| `KernelDataAloneHolds`, `ReadsTheTimeHolds`, `SleepsAsAskedHolds` | the safety properties of `Clock` | none |
| `AllocatorKept` | `MemorySound`; `MemoryManager` implements `Allocator`: calls in any order, wrong and double frees | none (`MemorySpec`) |
| `MemorySoundHolds`, `KeepsPromisesHolds` | the same, under the directories' calls | no `Stale` |
| `HandlesGoodHolds`, `DirectoriesSoundHolds`, `NoBlockForgottenHolds` | the properties of the directories | `Workload = {}`, `Long = {}` |
| `ProgramsProofs`: `TraysAccountedHolds` | `TraysAccounted` | none |
| `CleansUpHolds`, `TableSharedHolds`, `TableFlowsHolds` | `CleansUp`, `TableShared`, `TableFlows` | none |
| `TerminalProofs`: `BufferIsStringHolds`, `KeysInOrderHolds` | `BufferIsString`, `KeysInOrder` | none |
| `DrawsInsideHolds`, `EchoMatchesHolds` | `DrawsInside`, `EchoMatches` | none |
| `ExecutesWhatIsShownHolds`, `NumbersSurviveHolds` | `ExecutesWhatIsShown`, `NumbersSurvive` | none |

What the hypotheses mean, and why they are there:

* `Disciplined` of `Mutex` is `Workload = {}`: no child returns, and nobody is killed, while
  the process concerned is in `mutex_lock`.  The violation run and section 4 show that
  neither half can be dropped.
* `Few` of `Mutex`: at most one process more is alive than a list has places.  The code has
  30 places (`PROCESS_QUEUE_SIZE`) and a ring of 10 nodes.  Without it an entry of a
  full list is overwritten and its process sleeps for ever; mutual exclusion holds all
  the same, which is why it is proved without `Few`.
* `Gentle` of `Ipc`: nobody but a signal wakes or ends a process that waits in a semaphore
  or for its mutex.  Programs may lock the inner mutex, and children may wake readers of
  a mailbox.  `Few` of `Ipc` also counts such early wake-ups, each of which can leave a
  second entry of the reader in the list.
* `NobodyLeftInLine` of `Process`: when all processes have ended with `process_mutex` free,
  nobody is left in its queue.  Section 4 has the way to a state where that is false;
  `process_preempted` is too small for it.  All that leads there, late wake-ups included, is
  inside the theorem; only the return of the shell to such a queue is not.
* `KillsNoAwaited`: a `kill` that had to wait for `process_mutex` is not carried out on a
  process that was created in the foreground meanwhile.  `Kill` has that guard
  when the call is made, and the code does not look again.
* No `Hasty`: a program neither creates a second process nor ends, with ticks of its quantum
  left, before the ring has moved on from the place where the one created before was put.
  Section 4 says what the ring does otherwise.
* No `Preempt`: the timer does not strike in `wrapper_process`.  With it each of
  the four properties fails (section 4; `PointerAtFreeSlot` with four slots).

* No `Stale`: programs do not use a handle again that they gave to destroy.  What `malloc`
  hands out and what the tree says of it need nothing else: not that programs keep
  to names of their own, nor that creating a semaphore goes well.
* `Workload = {}` and `Long = {}` of `Objects`: besides, a mutex and a semaphore do not share a
  name, a semaphore is created when there is room for its mutex, and names are no longer than
  is stored.  Without one of these a destroy, which goes by name, hits another object or
  none, or a semaphore has no mutex (section 4).
* `MemorySpec` leaves out one call of `free`: with the address of a block boundary inside a
  block that is larger (`Inside`).  The kernel then gives up part of the block.

### The inductive invariants

**Mutexes.** Mutual exclusion rests on who is resumed: `mutex_lock` does not look at the
mutex again after it was blocked, so whoever is woken must already be the owner.
`IInv` says it in parts: a mutex has an owner exactly when it is taken (`ValueOwner`);
a process in `mutex_lock` is READY or BLOCKED (`States`); who is BLOCKED there is in the queue of that
mutex and who is in a queue is BLOCKED there (`QueuedWait`, `QueuedOnce`); what a process
holds it owns (`HoldersOwn`); who is in `mutex_lock` but awake owns the mutex already
(`WokenOwn`); the owner holds it or is on its way out with it (`OwnersKnow`).  `HandOff`
has lemmas of its own about the slots it changes.

**Their order.** `WaitQueueProofs` describes a list by `Holds(q, n)`: its first `n` places from
the start index on, wrapped, are taken, the rest are free, and the free index is behind
them.  `Push` and `Drop` then append to and cut `LineOf(q)`, which are the steps of
`FifoLock`.  `QInv` adds that every list is filled like this, that every waiter is in
the list of what it waits for, and that nobody is in the list of a free mutex.

**Process table.** `Whereabouts` says where a process can be by its state: who has finished
is in the last two steps of `wrapper_process`, running, or gone; `process_pointer` is
at a slot that is gone.  It is what keeps a late wake-up from going on in somebody
else's place, and holds with any workload.  `Guarded` says who is between the exchange and the
writing of the owner: one process, while the value is 1 and there is no owner.
`ChildStillToReturn` needs `WakesParent`, that the id read in `resume_process` is that of the parent.  Without
ticks `Serial` holds: one process at a time is in the kernel, `process_mutex` is free but
for that process, and nobody is ever in its queue.  `Counted` then says what `CountExact`
says, in every state: a process that has finished itself is counted until it counts
itself off.

**Ring.** Reachability in a linked list is no inductive invariant, an order of its nodes is: `Laid(r, f)`
says that `f` numbers the used nodes from `current` on, that `next` leads from each to the one
after it and from the last back to the first, and that `last` is the end of that order or, when a
process was just put between the two, the one before (`Closed` tells which).  Queueing, advancing and removing each have a
lemma that gives the new order; removing needs `Closed`.  `SchedInv` adds what makes sure of
that: at most one process is on the stack, and then the ring is closed (`Stacked`), the
current process is removed only when nothing was put behind its back (`Removable`), and whoever
has not finished is in the ring or on the stack (`AllThere`).  That the
nodes of the order are those the scheduler reaches takes induction over the number of steps,
which here is about a set of numbers: one that lacks a number has a smallest (`UpTo`).

**Mailbox.** `MailboxInv` is the soundness of the ring, with the two indices and
the number of readable bytes in one equation modulo the size, and that what a reader asked
for has a length.  Its bytes in order are a function on the ring, and reads and writes
are those of `ByteQueue`.

**Semaphore.** `TokenInv`: value plus the processes on their way out of `sem_wait` is `credit`
(`Counted`), and `credit` plus the signals that still wait for the inner mutex is bounded
(`Bounded`).  `LineInv`: sleepers are in the list, and there are none while the value is
positive.  `ReaderInv`: all sleeping readers are in the mailbox's list, whose index counts at most
them and the early wake-ups.

**Memory manager.** The nodes have a first leaf and a number of leaves (`First`, `Width`),
and two nodes either have no leaf in common or one is above the other (`Laminar`).
`SoundTree`: every inner node agrees with its two halves (`Agree`), where one that was
handed out as a whole is USED over two EMPTY ones. `MemoryInv` adds that `held` is the
blocks of the nodes that were handed out (`Handed`). From `SoundTree` alone it follows
what a mark says of the nodes below: below an EMPTY node, and below one that was handed
out, all is EMPTY (`EmptyBelow`), below another USED one all is USED (`UsedBelow`). So a
node may be handed out exactly when it shares no leaf with what was (`FreeIs`), and nodes
handed out do not overlap (`HandedDisjoint`). `Settles` is the climb: after one node
changed, the marks up to the root are again what the halves say, so `Taken` adds one node
to `Handed` (`TakenIs`) and `Emptied` takes away the one whose block begins at the address
(`EmptiedIs`). The search is a walk through the nodes in the order of their first leaf: no
free node of the size wanted begins before the one it is at (`OnTheWalk`), each step keeps
that (`WalksOn`) and leaves less to walk (`Ahead`). So it ends at the first free node, or
at -1 when there is none (`SearchIs`), which is the choice that `Allocator` makes. The
functions by recursion exist by `Recursion` and `WalkExists`.

**Directories.** `DirInv`: a directory enters addresses of blocks in use, each once,
holding a structure of its kind, and `free_index` is right (`DirGood`); a call that is
half done has a block that nobody entered, or a slot that is (`BusyGood`). That is enough
for the memory, because only the beginning of a block is ever freed. `NamesInv` is about
the directories as sets: `Tidy` says that names are unique in each, that every semaphore
has a mutex of its own in the directory, that a program has no handle of such a mutex, and
that what is in use is listed, or data of a program, or on its way in or out (`Coming`,
`Going`). Each call is a lemma about how `Tidy` goes from one such set to the next
(`TidyMade`, `TidyGoing`, ...). `BusyNames` carries what `sem_create` found about name and
room over to the second half of the call.

**Boot.** `BootInv`: until the bss is cleared the image is as the packer laid it out (`Packed`),
`current` is at the size of the next module, and those already loaded are whole (`Copied`).
Nothing is written into the image, because it ends before the first module's address; and
the bss begins behind the kernel's data and ends before that address.

**Clock.** `Alone`: who is in the kernel with interrupts off is the one that runs.  `Registers`: whoever
is in the middle of a reading finds the index where it put it, except
between minutes and seconds.  `Readings`: what was read is of this second as long as no
second has passed (`clean`).  `Sleeps`: target less now is what is left to sleep,
modulo the day.  The decimal digits of the registers and their way back (`BcdBack`) are a
lemma over 0..99.

**Producers and consumers.** `Peace` is the whole of it while nobody is dismissed: types and places
(`Kitchens`), the boss's orders (`Orders`), who is in which array (`Staffed`), who was killed so
far (`Killings`), and the books (`Serving`): `plates` is the value of one semaphore and
those on their way between it and the counter, and what is left of the trays the same for the other.

**Philosophers.** `TableInv` ties together what the host is at, `quantity` and
`assigned` (`Hiring`), the array (`Seating`), the host's local in `destroyAll` (`Ends`), the
numbers (`Numbers`) and the chopsticks, chosen for the quantity of some earlier time
(`Sticks`).  `ChopsInv` says who has and who waits for which chopstick by the place in the
code, `DoorsInv` the same of `main_mutex`.  That nobody waits in a circle then follows by
rank: an odd chopstick has rank 2, chopstick 0 rank 1, any other even one 0; a
philosopher's first chopstick ranks above its second (`FirstIsHigher`), whatever the quantity, as
long as its number is at most that.  Who waits for `main_mutex` waits for a process that does
not stand in line for a chopstick; who waits for a chopstick waits for one that
eats or waits for a lower one.  There are three ranks, so nobody comes back to where
he began.

**Key buffer.** `KeysInv`: the first `n` places are filled and no others, with the same keys
that were pressed and not read, counted one by one, the index at most at `n`, and in the
same order unless `ahead`.  The same `n` at every step of `shiftBufferLeft` is what makes
that inductive.

**Console.** `ShellInv`: rows are at multiples of a character's height, so the last line, which is
drawn after every scroll, ends with the screen; that it does is the assumption
`ScreenAssumption`, with the place of the big clock.  `print` is a recursive function;
that it exists is the lemma `Recursion`, and what holds at each of its steps goes up to the last
by `UpTo`.

**Echo.** `EchoInv`: the prompt in its place means that nothing has scrolled since it was written,
and then the last line shows the prompt and the line behind it.  `FreshInv` is what a new
prompt rests on: nothing stands on the last line right of the cursor, when the cursor comes to
its beginning or is above it, and a prompt only ever scrolls up.

**Commands.** `DidInv`: what was done is `DidOf` a line, so both theorems are about
`interprete` and the handlers for any line whatever.  `LineMeant` puts the line together again
from the parts (`IsPart`, `Joined`) in each of its five cases.  `CommandAssumption` is what
the table of `shell.c:74-190` has to have: commands start programs of different names,
what may stand in a pipe is a program, and the left side of one reads no keys.  It is read
off `is_output_command` and `is_input_command`; with `digitalclock` among the former,
a pipe would start one side only.

**Numbers.** `uintToBase`, `toString` and `myAtoi` are recursive functions.  `InBaseWrites` (the
digits of a number are worth that number) has a smallest number for which it is false, which
has one digit or a quotient for which it is false too; `AtoiIsValue` goes up along the
digits, where `Int32` changes nothing as long as the value fits.  `TextAssumption` asks that the
digits of every int fit in the 60 characters of `resp` (`stdlib.c:81`) with the 0 behind them.

### What is only model-checked, and why

Every invariant, action property and refinement that a passing run checks is stated by a theorem.
What is left:

* Liveness: `EveryWaitEnds`, `EveryReadyRuns`, `EverybodyServed` and `SleepEnds` need fairness
  and ENABLED, which the prover does not have.
* The bounds of section 4 are bounds of the runs only; but `MaxHired`, `MaxStaff`, `MaxTokens`
  and their like stand in guards of the modules, and the theorems hold for any value of
  them.

## 6. Plan

Done: the modules of section 3, and theorems about mutexes, process table, scheduler ring,
semaphores, mailboxes, boot, clock, memory, directories, programs, terminal and shell.  To come:

1. Pipes: `Objects` and `Ipc` composed, with the shell that destroys the mailbox while
   the left side still writes to it.
2. An abstract scheduler, a sequence of processes, that the ring implements while
   no program is `Hasty`.

## 7. Not modelled

* The bitmaps of `font.c` and `font.h`, colours, and everything that only formats output: data
  without a state.
* `bmfs.c` and Pure64: third-party tools that bring the image to its place.
* Exception handlers: they print the registers and put the process on the stack
  of the kernel's start with the shell's entry point.
* The speaker: output to three ports.
* `tests.c`: scenarios of calls that the other modules have.
* `cpuVendor` writes 14 bytes into `char buffer[10]` (`kernel.c:52`), and calls of
  `mutex_destroy` with a name in place of a handle (`philosophers.c:88`): memory is
  modelled by objects, not bytes, so what stands behind them is outside the modules.
