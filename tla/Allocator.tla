----------------------------- MODULE Allocator -----------------------------
(***************************************************************************)
(* What malloc and free promise: a program gets a block that overlaps no   *)
(* block another one has, or NULL, and NULL only if no block of that size  *)
(* is free.  Blocks have one of the given sizes, the smallest that is      *)
(* enough, and are aligned to it; the first that is free is taken.         *)
(***************************************************************************)
EXTENDS Integers

CONSTANTS
  Available,    \* bytes of memory
  Sizes         \* the sizes of blocks, Available the largest

VARIABLES
  held,    \* the blocks programs have
  reply    \* what the last malloc returned, an offset or NULL

Null == -1

SizeFor(bytes) ==
  CHOOSE s \in Sizes : bytes <= s /\ \A t \in Sizes : bytes <= t => s <= t

Overlap(b, c) == b.start < c.start + c.size /\ c.start < b.start + b.size

FreeBlocks(size) ==
  {b \in [start : {k * size : k \in 0 .. Available}, size : {size}] :
     b.start + size <= Available /\ \A c \in held : ~ Overlap(b, c)}

Malloc(bytes) ==
  IF bytes \in 1 .. Available /\ FreeBlocks(SizeFor(bytes)) # {}
  THEN \E b \in FreeBlocks(SizeFor(bytes)) :
         /\ \A c \in FreeBlocks(SizeFor(bytes)) : b.start <= c.start
         /\ held' = held \cup {b}
         /\ reply' = b.start
  ELSE reply' = Null /\ UNCHANGED held

Free(p) ==
  /\ held' = {b \in held : b.start # p}
  /\ UNCHANGED reply

Init == held = {} /\ reply = Null

\* All sizes above Available are alike.
Next ==
  \/ \E bytes \in 0 .. Available + 1 : Malloc(bytes)
  \/ \E p \in 0 .. Available : Free(p)

Spec == Init /\ [][Next]_<<held, reply>>

=============================================================================
