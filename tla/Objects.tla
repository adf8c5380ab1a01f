------------------------------ MODULE Objects ------------------------------
(***************************************************************************)
(* The kernel's objects: mutexes, semaphores and mailboxes are structures  *)
(* taken from malloc and entered in three directories (mutex.c, sem.c,     *)
(* mailbox.c), which are one piece of code written three times.  Programs  *)
(* hold their addresses as handles.  Composed with MemoryManager, whose    *)
(* blocks they are: freed memory keeps what was in it until it is handed   *)
(* out again, and every call that takes a handle reads the name there.     *)
(*                                                                         *)
(* A call runs with interrupts off.  The two that take or give back two    *)
(* blocks are split in two steps, with "busy" set in between.              *)
(***************************************************************************)
EXTENDS MemoryManager, FiniteSets

CONSTANTS
  Name,            \* what programs call their objects
  NoName,          \* the name read through a NULL pointer
  Long,            \* the names longer than NAME_LENGTH (lib.h:10)
  Cut,             \* what is stored of such a name
  MAX_MUTEXES,     \* mutex.h:6, 50 in the code
  MAX_MAILBOXES,   \* mailbox.h:7, 10 in the code
  Size,            \* bytes of a structure of each kind
  DataSize,        \* the requests programs make for memory of their own
  Workload         \* what programs do besides, see Habits

\* Programs use a handle again that they gave to destroy; they use one name
\* for a mutex and a semaphore; they create semaphores when there is room for
\* the semaphore and none for its mutex.
Habits == {"Stale", "Shared", "Exhausted"}

Kind == {"mutex", "sem", "mailbox"}

ASSUME ObjectsAssumption ==
  /\ MAX_MUTEXES \in Nat \ {0, 1}
  /\ MAX_MAILBOXES \in Nat \ {0}
  /\ Size \in [Kind -> Nat \ {0}] /\ DataSize \subseteq Nat
  /\ Long \subseteq Name /\ Workload \subseteq Habits

VARIABLES
  dir,      \* mutex_directory, sem_directory, post_office: slots, free_index
  object,   \* what is written at the start of every block of memory
  busy,     \* the call that is half done
  live      \* history: the handles programs may use

allVars == <<pages, held, reply, dir, object, busy, live>>

Address == {k * BLOCK_SIZE : k \in 0 .. amount_of_blocks - 1}

Capacity == [mutex |-> MAX_MUTEXES, sem |-> MAX_MUTEXES \div 2, mailbox |-> MAX_MAILBOXES]

Idle == [call |-> "none", at |-> NULL, name |-> NoName]

Stored(n) == IF n \in Long THEN Cut ELSE n

-----------------------------------------------------------------------------
(* The directories *)

NameAt(a) == IF a = NULL THEN NoName ELSE object[a].name

\* The name of a semaphore is the name of its mutex.
NameOf(k, a) == IF k = "sem" /\ a # NULL THEN NameAt(object[a].inner) ELSE NameAt(a)

\* get_mutex_index, get_sem_index, get_mailbox_index: the slot, or -1.
IndexOf(k, n) ==
  LET found == {i \in DOMAIN dir[k].slot :
                  dir[k].slot[i] # NULL /\ NameOf(k, dir[k].slot[i]) = n}
  IN  IF found = {} THEN -1 ELSE CHOOSE i \in found : \A j \in found : i <= j

\* Mutated form of Entered: free_index moves on to the next slot, whatever
\* is in it.
EnteredNext(d, a) ==
  [slot |-> [d.slot EXCEPT ![d.free] = a],
   free |-> (d.free + 1) % Cardinality(DOMAIN d.slot)]

\* The address goes in slot free_index, and free_index round to the next
\* empty slot, or to -1.
Entered(d, a) ==
  LET slot == [d.slot EXCEPT ![d.free] = a]
      n == Cardinality(DOMAIN slot)
      empty == {i \in DOMAIN slot : slot[i] = NULL}
      after(i) == (i + n - d.free) % n
  IN  [slot |-> slot,
       free |-> IF empty = {} THEN -1
                ELSE CHOOSE i \in empty : \A j \in empty : after(i) <= after(j)]

\* Mutated form of Left: the slot keeps the address.
LeftInPlace(d, i) == [slot |-> d.slot, free |-> i]

\* The slot is empty and the next one to be used.
Left(d, i) == [slot |-> [d.slot EXCEPT ![i] = NULL], free |-> i]

\* A new structure, unless the directory is full or there is no memory.
\* "made" says what to do with it.
Allocate(k, n) ==
  IF dir[k].free = -1 THEN UNCHANGED <<pages, held, reply>> ELSE malloc(Size[k])

Made(k) == dir[k].free # -1 /\ reply' # NULL

\* mutex_create and create_mailbox from the lookup on; the result is h.
Create(k, n, h) ==
  LET i == IndexOf(k, n)
  IN  IF i # -1
      THEN h = dir[k].slot[i] /\ UNCHANGED <<pages, held, reply, dir, object>>
      ELSE /\ Allocate(k, n)
           /\ IF Made(k)
              THEN /\ h = reply'
                   /\ dir' = [dir EXCEPT ![k] = Entered(@, h)]
                   /\ object' = [object EXCEPT ![h] =
                        [kind |-> k, name |-> Stored(n), inner |-> NULL]]
              ELSE h = NULL /\ UNCHANGED <<dir, object>>

\* Mutated form of Destroy: the memory is not given back.
DestroyKeepingMemory(k, n) ==
  LET i == IndexOf(k, n)
  IN  /\ dir' = IF i = -1 THEN dir ELSE [dir EXCEPT ![k] = Left(@, i)]
      /\ UNCHANGED <<pages, held, reply, object>>

\* ..._destroy_by_name: whatever object has the name now is freed.
Destroy(k, n) ==
  LET i == IndexOf(k, n)
  IN  IF i = -1 THEN UNCHANGED <<pages, held, reply, dir, object>>
      ELSE /\ free_handler(dir[k].slot[i])
           /\ dir' = [dir EXCEPT ![k] = Left(@, i)]
           /\ UNCHANGED object

-----------------------------------------------------------------------------
(* System calls *)

Known(h) == live' = live \cup ({h} \ {NULL})

\* Programs that do not share names keep those of semaphores and mutexes
\* apart.
MayName(k, n) ==
  \/ "Shared" \in Workload
  \/ k = "mailbox"
  \/ k = "mutex" /\ IndexOf("sem", Stored(n)) = -1
  \/ k = "sem" /\ (IndexOf("mutex", Stored(n)) # -1 => IndexOf("sem", Stored(n)) # -1)

MayUse(k, h) ==
  /\ h \in live \/ "Stale" \in Workload
  /\ object[h].kind = k

mutex_create(n) ==
  /\ busy = Idle /\ MayName("mutex", n)
  /\ \E h \in Address \cup {NULL} : Create("mutex", n, h) /\ Known(h)
  /\ UNCHANGED busy

create_mailbox(n) ==
  /\ busy = Idle
  /\ \E h \in Address \cup {NULL} : Create("mailbox", n, h) /\ Known(h)
  /\ UNCHANGED busy

mutex_destroy(h) ==
  /\ busy = Idle /\ MayUse("mutex", h)
  /\ Destroy("mutex", NameAt(h))
  /\ live' = live \ {h}
  /\ UNCHANGED busy

destroy_mailbox(h) ==
  /\ busy = Idle /\ MayUse("mailbox", h)
  /\ Destroy("mailbox", NameAt(h))
  /\ live' = live \ {h}
  /\ UNCHANGED busy

RoomForMutex(n) ==
  \/ "Exhausted" \in Workload
  \/ IndexOf("mutex", n) # -1
  \/ /\ dir["mutex"].free # -1
     /\ NodeFor(pages', Size["mutex"]) # -1

\* sem_create up to the call of mutex_create.
sem_create(n) ==
  LET i == IndexOf("sem", n)
  IN  /\ busy = Idle /\ MayName("sem", n)
      /\ IF i # -1
         THEN Known(dir["sem"].slot[i]) /\ UNCHANGED <<pages, held, reply, object, busy>>
         ELSE /\ Allocate("sem", n)
              /\ RoomForMutex(n)
              /\ IF Made("sem")
                 THEN /\ busy' = [call |-> "sem_create", at |-> reply', name |-> n]
                      /\ object' = [object EXCEPT ![reply'] =
                           [kind |-> "sem", name |-> NoName, inner |-> NULL]]
                 ELSE UNCHANGED <<object, busy>>
              /\ UNCHANGED live
      /\ UNCHANGED dir

\* The semaphore gets the mutex of its name and is entered, also when there
\* is no mutex.
SemCreateReturns ==
  /\ busy.call = "sem_create"
  /\ LET i == IndexOf("mutex", busy.name)
         new == IF i # -1 THEN dir["mutex"].slot[i] ELSE reply'
     IN  /\ IF i # -1 THEN UNCHANGED <<pages, held, reply>> ELSE Allocate("mutex", busy.name)
         /\ LET h == IF i # -1 \/ Made("mutex") THEN new ELSE NULL
                made == i = -1 /\ h # NULL
            IN  /\ dir' = [dir EXCEPT !["sem"] = Entered(@, busy.at),
                             !["mutex"] = IF made THEN Entered(@, h) ELSE @]
                /\ object' = [a \in Address |->
                     IF a = busy.at THEN [object[a] EXCEPT !.inner = h]
                     ELSE IF made /\ a = h
                     THEN [kind |-> "mutex", name |-> Stored(busy.name), inner |-> NULL]
                     ELSE object[a]]
  /\ Known(busy.at)
  /\ busy' = Idle

\* sem_destroy: the mutex of the semaphore of that name goes first...
sem_destroy(h) ==
  LET n == NameOf("sem", h)
      i == IndexOf("sem", n)
  IN  /\ busy = Idle /\ MayUse("sem", h)
      /\ live' = live \ {h}
      /\ IF i = -1 THEN UNCHANGED <<pages, held, reply, dir, object, busy>>
         ELSE /\ Destroy("mutex", n)
              /\ busy' = [call |-> "sem_destroy", at |-> i, name |-> n]

\* ... then the semaphore.
SemDestroyReturns ==
  /\ busy.call = "sem_destroy"
  /\ free_handler(dir["sem"].slot[busy.at])
  /\ dir' = [dir EXCEPT !["sem"] = Left(@, busy.at)]
  /\ busy' = Idle
  /\ UNCHANGED <<object, live>>

\* A program's own memory: it writes over what was there.
user_malloc(bytes) ==
  /\ busy = Idle
  /\ malloc(bytes)
  /\ object' = IF reply' = NULL THEN object
               ELSE [object EXCEPT ![reply'] = [kind |-> "data", name |-> NoName, inner |-> NULL]]
  /\ Known(reply')
  /\ UNCHANGED <<dir, busy>>

user_free(h) ==
  /\ busy = Idle /\ MayUse("data", h)
  /\ free_handler(h)
  /\ live' = live \ {h}
  /\ UNCHANGED <<dir, object, busy>>

ObjectsInit ==
  /\ MemoryInit
  /\ dir = [k \in Kind |-> [slot |-> [i \in 0 .. Capacity[k] - 1 |-> NULL], free |-> 0]]
  /\ object = [a \in Address |-> [kind |-> "none", name |-> NoName, inner |-> NULL]]
  /\ busy = Idle
  /\ live = {}

ObjectsNext ==
  \/ \E n \in Name : mutex_create(n) \/ sem_create(n) \/ create_mailbox(n)
  \/ \E h \in Address : mutex_destroy(h) \/ sem_destroy(h) \/ destroy_mailbox(h) \/ user_free(h)
  \/ SemCreateReturns \/ SemDestroyReturns
  \/ \E bytes \in DataSize : user_malloc(bytes)

ObjectsSpec == ObjectsInit /\ [][ObjectsNext]_allVars

-----------------------------------------------------------------------------
(* Properties *)

Entries(k) == {dir[k].slot[i] : i \in DOMAIN dir[k].slot} \ {NULL}

\* A handle that nobody gave to destroy stays good: its memory is its own,
\* and the object is found under its name.  Calls to destroy go by name, not
\* by address, so each of them could hit somebody else's object.
HandlesGood ==
  \A h \in live :
    /\ \E b \in held : b.start = h
    /\ object[h].kind \in Kind =>
         LET k == object[h].kind
         IN  \E i \in DOMAIN dir[k].slot :
               dir[k].slot[i] = h /\ i = IndexOf(k, NameOf(k, h))

\* free_index names an empty slot, and is -1 only when there is none.
FreeIndexRight ==
  \A k \in Kind :
    IF dir[k].free = -1
    THEN \A i \in DOMAIN dir[k].slot : dir[k].slot[i] # NULL
    ELSE dir[k].slot[dir[k].free] = NULL

\* Between two calls every semaphore of the directory has a mutex, which is
\* in the directory of mutexes and in memory of its own.
SemHasMutex ==
  busy = Idle => \A h \in Entries("sem") : object[h].inner \in Entries("mutex")

\* The directories are what the three kinds of create and destroy rely on.
DirectoriesSound == FreeIndexRight /\ SemHasMutex

\* Every block that is handed out is in exactly one slot of one directory, or
\* a program knows it: destroy gives back what create took.
NoBlockForgotten ==
  busy = Idle => \A b \in held :
    LET slots == {e \in Kind \X (0 .. MAX_MUTEXES + MAX_MAILBOXES) :
                    /\ e[2] \in DOMAIN dir[e[1]].slot
                    /\ dir[e[1]].slot[e[2]] = b.start}
    IN  Cardinality(slots) = 1 \/ (slots = {} /\ object[b.start].kind = "data"
                                     /\ b.start \in live)

=============================================================================
