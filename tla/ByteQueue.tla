----------------------------- MODULE ByteQueue -----------------------------
(***************************************************************************)
(* What a mailbox promises: bytes come out in the order in which they went *)
(* in; a message goes in whole or not at all, and a reader gets the bytes  *)
(* it asked for in one piece.                                              *)
(***************************************************************************)
EXTENDS Naturals, Sequences

CONSTANTS Pid, Nobody, Message, Capacity

VARIABLES
  content,   \* the bytes in the mailbox, the oldest first
  got        \* what the last read returned, and to whom

vars == <<content, got>>

Put(msg) ==
  /\ Len(content) + Len(msg) <= Capacity
  /\ content' = content \o msg
  /\ UNCHANGED got

Get(p, n) ==
  /\ got' = [by |-> p, bytes |-> SubSeq(content, 1, n)]
  /\ content' = SubSeq(content, n + 1, Len(content))

Init == content = <<>> /\ got = [by |-> Nobody, bytes |-> <<>>]

Next ==
  \/ \E msg \in Message : Put(msg)
  \/ \E p \in Pid : \E n \in 0 .. Len(content) : Get(p, n)

Spec == Init /\ [][Next]_vars

=============================================================================
