--------------------------- MODULE MemoryManager ---------------------------
(***************************************************************************)
(* The buddy allocator (memoryManager.c): a binary tree over the memory,   *)
(* kept in an array, in which a node is EMPTY, USED (handed out, or both   *)
(* halves USED) or SPLIT.  malloc and free are system calls or kernel code *)
(* with interrupts off: one step each.  Addresses are offsets from         *)
(* memoryBaseAddress.                                                      *)
(***************************************************************************)
EXTENDS Integers

CONSTANTS
  maxOrder,     \* the depth of the tree, 10 in the code
  BLOCK_SIZE    \* memoryManager.h:6, 4096 in the code

ASSUME MemoryAssumption == maxOrder \in Nat /\ BLOCK_SIZE \in Nat \ {0}

VARIABLES
  pages,    \* memoryManager.pages
  held,     \* history: the blocks programs were given and have not freed
  reply     \* what the last malloc returned

mvars == <<pages, held, reply>>

NULL == -1

\* 2^k, for the orders of the tree and the next power.
pow[k \in 0 .. maxOrder + 1] == IF k = 0 THEN 1 ELSE 2 * pow[k - 1]

amount_of_blocks == pow[maxOrder]

memoryAvailable == amount_of_blocks * BLOCK_SIZE

Node == 0 .. 2 * amount_of_blocks - 2

TypeOK ==
  /\ pages \in [Node -> {"EMPTY", "USED", "SPLIT"}]
  /\ \A b \in held : b.start \in 0 .. memoryAvailable - 1 /\ b.size \in Nat
  /\ reply \in {NULL} \cup {k * BLOCK_SIZE : k \in 0 .. amount_of_blocks - 1}

-----------------------------------------------------------------------------
(* The tree *)

PARENT_INDEX(n) == (n + 1) \div 2 - 1
LEFT_CHILD_INDEX(n) == 2 * n + 1
RIGHT_CHILD_INDEX(n) == 2 * n + 2
IS_LEFT_CHILD(n) == n % 2 = 1

getBuddyIndex(n) == IF IS_LEFT_CHILD(n) THEN n + 1 ELSE n - 1

Leaf(n) == LEFT_CHILD_INDEX(n) \notin Node

\* The nodes above n, which have smaller indices.
Above[n \in Node] ==
  IF n = 0 THEN {} ELSE {PARENT_INDEX(n)} \cup Above[PARENT_INDEX(n)]

\* The level of n in the tree.
Order[n \in Node] == IF n = 0 THEN 0 ELSE Order[PARENT_INDEX(n)] + 1

BlockSize(n) == pow[maxOrder - Order[n]] * BLOCK_SIZE

calculateOffset(n) == (n + 1 - pow[Order[n]]) * BlockSize(n)

\* Mutated form of Settle: only the parent of n is looked at.
SettleParent(t, n, s) ==
  [a \in Node |-> IF n # 0 /\ a = PARENT_INDEX(n)
                  THEN IF t[getBuddyIndex(n)] = s THEN s ELSE "SPLIT"
                  ELSE t[a]]

\* updateUsedNodesStatus and updateEmptyNodesStatus after node n of the tree
\* t became s: the nodes above it become s too as far up as every buddy on
\* the way is s, the rest of them SPLIT.
Settle(t, n, s) ==
  LET uniform(a) ==
        \A m \in {n} \cup Above[n] : m > a => t[getBuddyIndex(m)] = s
  IN  [a \in Node |-> IF a \notin Above[n] THEN t[a]
                      ELSE IF uniform(a) THEN s ELSE "SPLIT"]

-----------------------------------------------------------------------------
(* malloc *)

amount_of_blocks_needed(bytes) ==
  LET doubled[k \in 0 .. maxOrder + 1] ==
        LET size == pow[k] * BLOCK_SIZE
        IN  IF size <= memoryAvailable /\ bytes > size THEN doubled[k + 1] ELSE size
  IN  doubled[0]

\* The next node in depth-first order that is not below n.
next_possible_index[n \in Node] ==
  IF n = 0 THEN -1
  ELSE IF IS_LEFT_CHILD(n) THEN n + 1
  ELSE next_possible_index[PARENT_INDEX(n)]

\* Mutated form of Search: a node with free memory is good enough.
SearchNotUsed(t, size) ==
  LET from[n \in {-1} \cup {m \in Node : BlockSize(m) >= size}] ==
        IF n = -1 THEN -1
        ELSE IF t[n] = "USED" THEN from[next_possible_index[n]]
        ELSE IF BlockSize(n) = size THEN n
        ELSE from[LEFT_CHILD_INDEX(n)]
  IN  from[0]

\* The walk of first_suitable_offset through the tree t: the node to hand
\* out, or -1.
Search(t, size) ==
  LET from[n \in {-1} \cup {m \in Node : BlockSize(m) >= size}] ==
        IF n = -1 THEN -1
        ELSE IF t[n] = "USED" THEN from[next_possible_index[n]]
        ELSE IF BlockSize(n) = size
             THEN IF t[n] = "EMPTY" THEN n ELSE from[next_possible_index[n]]
        ELSE IF t[LEFT_CHILD_INDEX(n)] # "USED" THEN from[LEFT_CHILD_INDEX(n)]
        ELSE from[RIGHT_CHILD_INDEX(n)]
  IN  from[0]

\* The node that malloc hands out for a request, or -1.
NodeFor(t, bytes) ==
  IF bytes \in 1 .. memoryAvailable
  THEN Search(t, amount_of_blocks_needed(bytes)) ELSE -1

Taken(t, n) == Settle([t EXCEPT ![n] = "USED"], n, "USED")

BlockOf(n) == [start |-> calculateOffset(n), size |-> BlockSize(n)]

malloc(bytes) ==
  LET n == NodeFor(pages, bytes)
  IN  IF n # -1
      THEN /\ pages' = Taken(pages, n)
           /\ reply' = calculateOffset(n)
           /\ held' = held \cup {BlockOf(n)}
      ELSE reply' = NULL /\ UNCHANGED <<pages, held>>

-----------------------------------------------------------------------------
(* free *)

\* Node n was handed out as a whole, as far as the tree t tells.
HandedOut(t, n) ==
  /\ t[n] = "USED"
  /\ Leaf(n) \/ \A c \in {LEFT_CHILD_INDEX(n), RIGHT_CHILD_INDEX(n)} : t[c] = "EMPTY"

\* free_handler goes down from the root to the leaf of block number k; the
\* USED nodes it comes through become EMPTY, and it stops at the first that
\* was handed out as a whole.
Emptied(t, k) ==
  LET leaf == amount_of_blocks - 1 + k
      path == {leaf} \cup Above[leaf]
      stops == {n \in path : HandedOut(t, n) /\ \A m \in path : HandedOut(t, m) => n <= m}
      visited == {n \in path : \A s \in stops : n <= s}
      wiped == [n \in Node |-> IF n \in visited /\ t[n] = "USED" THEN "EMPTY" ELSE t[n]]
  IN  IF stops = {} THEN wiped
      ELSE Settle(wiped, CHOOSE s \in stops : TRUE, "EMPTY")

Freed(t, p) ==
  IF p % BLOCK_SIZE = 0 /\ p \div BLOCK_SIZE < amount_of_blocks
  THEN Emptied(t, p \div BLOCK_SIZE) ELSE t

free_handler(p) ==
  /\ pages' = Freed(pages, p)
  /\ held' = {b \in held : b.start # p}
  /\ UNCHANGED reply

-----------------------------------------------------------------------------

\* Programs ask for any size.  They free what they were given, once or again
\* and at wrong addresses, but not at a block in the middle of what they or
\* others hold.
Inside(p) == \E b \in held : b.start < p /\ p < b.start + b.size

MemoryInit ==
  /\ pages = [n \in Node |-> "EMPTY"]
  /\ held = {}
  /\ reply = NULL

MemoryNext ==
  \/ \E bytes \in 0 .. memoryAvailable + 1 : malloc(bytes)
  \/ \E p \in 0 .. memoryAvailable :
       /\ p % BLOCK_SIZE = 0 => ~ Inside(p)
       /\ free_handler(p)

MemorySpec == MemoryInit /\ [][MemoryNext]_mvars

-----------------------------------------------------------------------------
(* Properties *)

\* What the tree says of a node agrees with its halves: EMPTY means that all
\* below is EMPTY, SPLIT that something below is used and something is not,
\* USED that the node was handed out as a whole or both halves are USED.  The
\* two walks up the tree, from malloc and from free, repair each other's
\* marks.
TreeSound ==
  \A n \in Node : ~ Leaf(n) =>
    LET halves == {pages[LEFT_CHILD_INDEX(n)], pages[RIGHT_CHILD_INDEX(n)]}
    IN  CASE pages[n] = "EMPTY" -> halves = {"EMPTY"}
          [] pages[n] = "USED"  -> halves \in {{"EMPTY"}, {"USED"}}
          [] pages[n] = "SPLIT" -> halves \notin {{"EMPTY"}, {"USED"}}

\* The blocks that free will find are those programs hold, no more (memory
\* leaked) and no fewer (a block free cannot give back).
NothingLeaks ==
  held = {BlockOf(n) : n \in {m \in Node :
            HandedOut(pages, m) /\ \A a \in Above[m] : ~ HandedOut(pages, a)}}

\* What the tree tells is right, in itself and about what programs hold.
MemorySound == TypeOK /\ TreeSound /\ NothingLeaks

\* The sizes of blocks.
Sizes == {pow[k] * BLOCK_SIZE : k \in 0 .. maxOrder}

Alloc == INSTANCE Allocator WITH Available <- memoryAvailable

\* malloc and free keep the promises of Allocator: blocks do not overlap, and
\* malloc returns NULL only when no block of the size is free.  The comment
\* before free_handler doubts it ("No estoy seguro de que funcione 100%
\* bien").
KeepsPromises == Alloc!Spec

=============================================================================
