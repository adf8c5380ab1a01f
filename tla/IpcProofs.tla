----------------------------- MODULE IpcProofs -----------------------------
(***************************************************************************)
(* Mailboxes keep every byte, and semaphores every token, for any number   *)
(* of processes and any sizes; and while no waiting list overflows nobody  *)
(* sleeps who could go on, and the tokens go out in the order of arrival.  *)
(***************************************************************************)
EXTENDS Ipc, WaitQueueProofs

-----------------------------------------------------------------------------
(* Two indices going round *)

(* The write index w runs r places ahead of the read index i round a ring  *)
(* of b places, and goes on by l.                                           *)
LEMMA RingWrite ==
  ASSUME NEW b \in Nat \ {0}, NEW i \in 0 .. b - 1, NEW r \in 0 .. b,
         NEW l \in 0 .. b - r, NEW w, w = (i + r) % b
  PROVE  (w + l) % b = (i + (r + l)) % b
<1>1. w \in 0 .. b - 1 /\ w = IF i + r < b THEN i + r ELSE i + r - b
  BY Ring
<1>2. l \in 0 .. b /\ r + l \in 0 .. b
  OBVIOUS
<1>3. (w + l) % b = IF w + l < b THEN w + l ELSE w + l - b
  BY <1>1, <1>2, Ring
<1>4. (i + (r + l)) % b = IF i + (r + l) < b THEN i + (r + l) ELSE i + (r + l) - b
  BY <1>2, Ring
<1> DEFINE x == (w + l) % b  y == (i + (r + l)) % b
<1>5. x = y
  <2> HIDE DEF x, y
  <2>1. x = IF w + l < b THEN w + l ELSE w + l - b
    BY <1>3 DEF x
  <2>2. y = IF i + (r + l) < b THEN i + (r + l) ELSE i + (r + l) - b
    BY <1>4 DEF y
  <2>3. CASE i + r < b
    BY <1>1, <2>1, <2>2, <2>3
  <2>4. CASE ~ (i + r < b)
    BY <1>1, <2>1, <2>2, <2>4
  <2> QED BY <2>3, <2>4
<1> QED BY <1>5 DEF x, y

(* The place of the k-th byte, seen from the write index, is past the l new *)
(* bytes when the byte is one of the r old ones, and k - r if it is not.    *)
LEMMA RingOffset ==
  ASSUME NEW b \in Nat \ {0}, NEW i \in 0 .. b - 1, NEW r \in 0 .. b,
         NEW l \in 0 .. b - r, NEW w, w = (i + r) % b,
         NEW k \in 0 .. b - 1, NEW c, c = (i + k) % b,
         NEW d, d = (c + b - w) % b
  PROVE  /\ c \in 0 .. b - 1
         /\ k < r => ~ (d < l)
         /\ k >= r => d = k - r
<1>1. w \in 0 .. b - 1 /\ w = IF i + r < b THEN i + r ELSE i + r - b
  BY Ring
<1>2. c \in 0 .. b - 1 /\ c = IF i + k < b THEN i + k ELSE i + k - b
  <2>1. k \in 0 .. b
    OBVIOUS
  <2> QED BY <2>1, Ring
<1> DEFINE a == c + b - w
<1>3. a \in 0 .. 2 * b - 1 /\ a = c + b - w /\ d = a % b
  BY <1>1, <1>2
<1> HIDE DEF a
<1>4. d = IF a < b THEN a ELSE a - b
  BY <1>3, Wrap
<1>5. (k < r => ~ (d < l)) /\ (k >= r => d = k - r)
  <2>1. CASE i + r < b /\ i + k < b
    BY <1>1, <1>2, <1>3, <1>4, <2>1
  <2>2. CASE i + r < b /\ ~ (i + k < b)
    BY <1>1, <1>2, <1>3, <1>4, <2>2
  <2>3. CASE ~ (i + r < b) /\ i + k < b
    BY <1>1, <1>2, <1>3, <1>4, <2>3
  <2>4. CASE ~ (i + r < b) /\ ~ (i + k < b)
    BY <1>1, <1>2, <1>3, <1>4, <2>4
  <2> QED BY <2>1, <2>2, <2>3, <2>4
<1> QED BY <1>2, <1>5

-----------------------------------------------------------------------------
(* The bytes of a mailbox *)

\* The bytes of mailbox b that were written and not read.
Readable(b) == MAILBOX_BUFFER_SIZE - b.empty

\* The place k places after the read index.
Cell(b, k) == (b.read + k) % MAILBOX_BUFFER_SIZE

Content(b) ==
  [k \in 1 .. Readable(b) |-> b.buffer[(b.read + k - 1) % MAILBOX_BUFFER_SIZE]]

\* The indices stay in the buffer, and the write index is where the bytes
\* that were not read end.
RingSound(b) ==
  /\ b.buffer \in [Cells -> Nat]
  /\ b.read \in Cells
  /\ b.empty \in 0 .. MAILBOX_BUFFER_SIZE
  /\ b.write = Cell(b, Readable(b))
  /\ b = [read |-> b.read, write |-> b.write, empty |-> b.empty,
          index |-> b.index, buffer |-> b.buffer, list |-> b.list]

(* The content is the bytes from the read index on. *)
LEMMA ContentIs ==
  ASSUME NEW b, RingSound(b)
  PROVE  /\ Readable(b) \in 0 .. MAILBOX_BUFFER_SIZE
         /\ Content(b) \in Seq(Nat)
         /\ Len(Content(b)) = Readable(b)
         /\ \A k \in 1 .. Readable(b) : Content(b)[k] = b.buffer[Cell(b, k - 1)]
<1> DEFINE M == MAILBOX_BUFFER_SIZE
<1>1. M \in Nat \ {0} /\ Readable(b) \in 0 .. M /\ b.read \in 0 .. M - 1
  BY IpcAssumption DEF RingSound, Cells, Readable
<1>2. ASSUME NEW k \in 1 .. Readable(b)
      PROVE  b.read + k - 1 = b.read + (k - 1) /\ Cell(b, k - 1) \in Cells
  <2>1. k - 1 \in 0 .. M /\ b.read + k - 1 = b.read + (k - 1)
    BY <1>1
  <2>2. Cell(b, k - 1) \in 0 .. M - 1
    BY <1>1, <2>1, Ring DEF Cell
  <2> QED BY <2>1, <2>2 DEF Cells
<1>3. Content(b) = [k \in 1 .. Readable(b) |-> b.buffer[Cell(b, k - 1)]]
  BY <1>2 DEF Content, Cell
<1>4. \A k \in 1 .. Readable(b) : b.buffer[Cell(b, k - 1)] \in Nat
  BY <1>2 DEF RingSound
<1>5. Content(b) \in [1 .. Readable(b) -> Nat] /\ Readable(b) \in Nat
  BY <1>1, <1>3, <1>4
<1> QED BY <1>1, <1>3, <1>5

(* A message goes in whole behind the bytes that are there. *)
LEMMA WriteKeeps ==
  ASSUME RingSound(box), NEW p \in Pid, NEW msg \in Message, write_message(p, msg)
  PROVE  RingSound(box') /\ Bytes!Put(msg)
<1> DEFINE r == Readable(box)
           l == Len(msg)
           w == box.write
           off(c) == (c + MAILBOX_BUFFER_SIZE - w) % MAILBOX_BUFFER_SIZE
<1>1. /\ MAILBOX_BUFFER_SIZE \in Nat \ {0} /\ r \in 0 .. MAILBOX_BUFFER_SIZE
      /\ box.read \in 0 .. MAILBOX_BUFFER_SIZE - 1
      /\ box.empty = MAILBOX_BUFFER_SIZE - r /\ msg \in Seq(Nat \ {0}) /\ l \in Nat
      /\ l \in 0 .. MAILBOX_BUFFER_SIZE - r
      /\ Cells = 0 .. MAILBOX_BUFFER_SIZE - 1
  BY IpcAssumption DEF RingSound, Cells, Readable, write_message
<1>2. w = (box.read + r) % MAILBOX_BUFFER_SIZE
  BY DEF RingSound, Cell
<1>3. /\ box'.buffer = [c \in Cells |->
            IF off(c) < l THEN msg[off(c) + 1] ELSE box.buffer[c]]
      /\ box'.write = (w + l) % MAILBOX_BUFFER_SIZE
      /\ box'.empty = box.empty - l
      /\ box'.read = box.read
      /\ box' = [read |-> box'.read, write |-> box'.write, empty |-> box'.empty,
                 index |-> box'.index, buffer |-> box'.buffer, list |-> box'.list]
      /\ got' = got
  BY DEF write_message, RingSound
<1>4. Readable(box') = MAILBOX_BUFFER_SIZE - (box.empty - l)
  BY <1>3 DEF Readable
<1>5. /\ (w + l) % MAILBOX_BUFFER_SIZE = Cell(box, r + l)
      /\ \A k \in Cells :
           /\ Cell(box, k) \in Cells
           /\ k < r => ~ (off(Cell(box, k)) < l)
           /\ k >= r => off(Cell(box, k)) = k - r
  <2> DEFINE b == MAILBOX_BUFFER_SIZE  i == box.read
  <2>1. /\ b \in Nat \ {0} /\ i \in 0 .. b - 1 /\ r \in 0 .. b
        /\ l \in 0 .. b - r /\ w = (i + r) % b
    BY <1>1, <1>2
  <2>2. (w + l) % MAILBOX_BUFFER_SIZE = Cell(box, r + l)
    <3> HIDE DEF r, l, w, b, i, off
    <3>1. (w + l) % b = (i + (r + l)) % b
      BY <2>1, RingWrite
    <3> QED BY <3>1 DEF b, i, Cell
  <2>3. ASSUME NEW k \in Cells
        PROVE  /\ Cell(box, k) \in Cells
               /\ k < r => ~ (off(Cell(box, k)) < l)
               /\ k >= r => off(Cell(box, k)) = k - r
    <3> DEFINE c == Cell(box, k)  d == off(c)
    <3>1. k \in 0 .. b - 1 /\ c = (i + k) % b /\ d = (c + b - w) % b
      BY <1>1 DEF Cell
    <3> HIDE DEF r, l, w, b, i, off, c, d
    <3>2. /\ c \in 0 .. b - 1
          /\ k < r => ~ (d < l)
          /\ k >= r => d = k - r
      BY <2>1, <3>1, RingOffset
    <3> QED BY <3>2, <1>1 DEF b, c, d
  <2> QED BY <2>2, <2>3
<1>c. \A c \in Cells : off(c) \in Nat
  <2>1. w \in 0 .. MAILBOX_BUFFER_SIZE - 1
    BY <1>1, <1>2, Ring
  <2> QED BY <1>1, <2>1
<1>6. /\ Content(box) \in Seq(Nat) /\ Len(Content(box)) = r
      /\ \A k \in 1 .. r : Content(box)[k] = box.buffer[Cell(box, k - 1)]
  BY ContentIs
<1>7. Len(msg) <= box.empty
  BY DEF write_message
<1> HIDE DEF r, l, w, off
<1>8. Readable(box') = r + l /\ Readable(box') \in 0 .. MAILBOX_BUFFER_SIZE
  BY <1>1, <1>4
<1>9. \A k : Cell(box', k) = Cell(box, k)
  BY <1>3 DEF Cell
<1>10. box'.buffer \in [Cells -> Nat]
  <2>1. ASSUME NEW c \in Cells PROVE box'.buffer[c] \in Nat
    <3>1. CASE off(c) < l
      <4>1. off(c) + 1 \in 1 .. l
        BY <1>1, <1>c, <3>1
      <4> QED BY <1>1, <1>3, <3>1, <4>1 DEF l
    <3>2. CASE ~ (off(c) < l)
      BY <1>3, <3>2 DEF RingSound
    <3> QED BY <3>1, <3>2
  <2> QED BY <2>1, <1>3
<1>11. RingSound(box')
  <2>1. box'.empty \in 0 .. MAILBOX_BUFFER_SIZE
    BY <1>1, <1>3
  <2>2. box'.read \in Cells
    BY <1>3 DEF RingSound
  <2>3. box'.write = Cell(box', Readable(box'))
    BY <1>3, <1>5, <1>8 DEF Cell
  <2> QED BY <1>3, <1>10, <2>1, <2>2, <2>3 DEF RingSound
<1>12. /\ Content(box') \in Seq(Nat) /\ Len(Content(box')) = r + l
       /\ \A k \in 1 .. r + l : Content(box')[k] = box'.buffer[Cell(box, k - 1)]
  <2>1. /\ Content(box') \in Seq(Nat) /\ Len(Content(box')) = Readable(box')
        /\ \A k \in 1 .. Readable(box') : Content(box')[k] = box'.buffer[Cell(box', k - 1)]
    BY <1>11, ContentIs
  <2> QED BY <2>1, <1>8, <1>9
<1>13. /\ Content(box) \o msg \in Seq(Nat) /\ Len(Content(box) \o msg) = r + l
       /\ \A k \in 1 .. r + l :
            (Content(box) \o msg)[k] = IF k <= r THEN Content(box)[k] ELSE msg[k - r]
  <2>1. msg \in Seq(Nat)
    BY <1>1
  <2> QED BY <1>6, <2>1, ConcatProperties DEF l
<1>14. ASSUME NEW k \in 1 .. r + l PROVE Content(box')[k] = (Content(box) \o msg)[k]
  <2> DEFINE i == k - 1
  <2>1. i \in Cells /\ r \in Nat /\ k \in Int /\ i \in Int
    BY <1>1
  <2>2. Content(box')[k] = box'.buffer[Cell(box, i)]
    BY <1>12
  <2>3. Cell(box, i) \in Cells
    BY <1>5, <2>1
  <2>4. CASE k <= r
    <3>1. i < r /\ k \in 1 .. r
      BY <2>1, <2>4
    <3>2. ~ (off(Cell(box, i)) < l)
      BY <2>1, <3>1, <1>5
    <3>3. box'.buffer[Cell(box, i)] = box.buffer[Cell(box, i)]
      BY <3>2, <2>3, <1>3
    <3> QED BY <2>2, <2>4, <3>1, <3>3, <1>6, <1>13
  <2>5. CASE k > r
    <3>1. i >= r /\ i - r < l /\ i - r + 1 = k - r
      BY <1>1, <2>1, <2>5
    <3>2. off(Cell(box, i)) = i - r
      BY <2>1, <3>1, <1>5
    <3>3. box'.buffer[Cell(box, i)] = msg[k - r]
      BY <2>3, <3>1, <3>2, <1>3
    <3>4. ~ (k <= r)
      BY <1>1, <2>1, <2>5
    <3> QED BY <2>2, <3>3, <3>4, <1>13
  <2>6. k <= r \/ k > r
    BY <2>1
  <2> QED BY <2>4, <2>5, <2>6
<1>15. Content(box') = Content(box) \o msg
  <2> DEFINE s == Content(box')  t == Content(box) \o msg
  <2>1. s \in Seq(Nat) /\ t \in Seq(Nat) /\ Len(s) = r + l /\ Len(t) = r + l
    BY <1>12, <1>13
  <2>2. \A k \in 1 .. r + l : s[k] = t[k]
    BY <1>14
  <2> HIDE DEF s, t
  <2>3. s = t
    BY <2>1, <2>2, SeqEqual
  <2> QED BY <2>3 DEF s, t
<1>16. Len(Content(box)) + Len(msg) <= MAILBOX_BUFFER_SIZE
  BY <1>1, <1>6 DEF l
<1>17. Bytes!Put(msg)
  BY <1>3, <1>15, <1>16, Zenon DEF Bytes!Put, Content, Readable, readable_bytes
<1> QED BY <1>11, <1>17

(* The bytes of a mailbox that only took a reader into its list. *)
LEMMA ListedKeeps ==
  ASSUME RingSound(box), NEW k, NEW p, Listed(k, p)
  PROVE  RingSound(box') /\ Content(box') = Content(box)
<1>1. /\ box'.read = box.read /\ box'.write = box.write /\ box'.empty = box.empty
      /\ box'.buffer = box.buffer
      /\ box' = [read |-> box'.read, write |-> box'.write, empty |-> box'.empty,
                 index |-> box'.index, buffer |-> box'.buffer, list |-> box'.list]
  <2>1. CASE box.index < PROCESS_QUEUE_SIZE
    BY <2>1 DEF Listed, RingSound
  <2>2. CASE ~ (box.index < PROCESS_QUEUE_SIZE)
    BY <2>2 DEF Listed, RingSound
  <2> QED BY <2>1, <2>2
<1>2. Readable(box') = Readable(box) /\ \A i : Cell(box', i) = Cell(box, i)
  BY <1>1 DEF Readable, Cell
<1>3. RingSound(box')
  BY <1>1, <1>2 DEF RingSound
<1>4. Content(box') = Content(box)
  BY <1>1, <1>2 DEF Content
<1> QED BY <1>3, <1>4

(* A reader gets the oldest bytes, in their order, or none and leaves all. *)
LEMMA ReadKeeps ==
  ASSUME RingSound(box), NEW p \in Pid, NEW n \in Nat, ReadGoesOn(p, n)
  PROVE  /\ RingSound(box')
         /\ \/ n \in 0 .. Len(Content(box)) /\ Bytes!Get(p, n)
            \/ Content(box') = Content(box) /\ got' = got
<1>1. CASE readable_bytes < n
  BY <1>1, ListedKeeps DEF ReadGoesOn
<1>2. CASE ~ (readable_bytes < n)
  <2> DEFINE r == Readable(box)
  <2>1. /\ MAILBOX_BUFFER_SIZE \in Nat \ {0} /\ r \in 0 .. MAILBOX_BUFFER_SIZE
        /\ box.read \in 0 .. MAILBOX_BUFFER_SIZE - 1
        /\ box.empty = MAILBOX_BUFFER_SIZE - r
        /\ n \in 0 .. r
        /\ Cells = 0 .. MAILBOX_BUFFER_SIZE - 1
    BY <1>2, IpcAssumption DEF RingSound, Cells, Readable, readable_bytes
  <2>2. /\ box'.read = (box.read + n) % MAILBOX_BUFFER_SIZE
        /\ box'.empty = box.empty + n
        /\ box'.buffer = box.buffer
        /\ box'.write = box.write
        /\ box' = [read |-> box'.read, write |-> box'.write, empty |-> box'.empty,
                   index |-> box'.index, buffer |-> box'.buffer, list |-> box'.list]
        /\ got' = [by |-> p, bytes |->
             [k \in 1 .. n |-> box.buffer[(box.read + k - 1) % MAILBOX_BUFFER_SIZE]]]
    BY <1>2 DEF ReadGoesOn, RingSound
  <2>3. Readable(box') = r - n
    BY <2>1, <2>2 DEF Readable
  <2>c. ASSUME NEW k \in 0 .. MAILBOX_BUFFER_SIZE - n
        PROVE  Cell(box', k) = Cell(box, n + k)
    <3> DEFINE b == MAILBOX_BUFFER_SIZE  i == box.read  w == box'.read
    <3>1. /\ b \in Nat \ {0} /\ i \in 0 .. b - 1 /\ n \in 0 .. b /\ k \in 0 .. b - n
          /\ w = (i + n) % b
      BY <2>1, <2>2
    <3> HIDE DEF b, i, w, r
    <3>2. (w + k) % b = (i + (n + k)) % b
      BY <3>1, RingWrite
    <3> QED BY <3>2 DEF b, i, w, Cell
  <2>4. RingSound(box')
    <3>1. box'.read \in Cells
      <4>1. n \in 0 .. MAILBOX_BUFFER_SIZE
        BY <2>1
      <4> QED BY <4>1, <2>1, <2>2, Ring
    <3>2. box'.empty \in 0 .. MAILBOX_BUFFER_SIZE
      BY <2>1, <2>2
    <3>3. box'.write = Cell(box', Readable(box'))
      <4>1. r - n \in 0 .. MAILBOX_BUFFER_SIZE - n /\ n + (r - n) = r
        BY <2>1
      <4>2. Cell(box', r - n) = Cell(box, r)
        BY <2>c, <4>1
      <4> QED BY <2>2, <2>3, <4>2 DEF RingSound
    <3> QED BY <2>2, <3>1, <3>2, <3>3 DEF RingSound
  <2>5. /\ Content(box) \in Seq(Nat) /\ Len(Content(box)) = r
        /\ \A k \in 1 .. r : Content(box)[k] = box.buffer[Cell(box, k - 1)]
    BY ContentIs
  <2>6. /\ Content(box') \in Seq(Nat) /\ Len(Content(box')) = r - n
        /\ \A k \in 1 .. r - n : Content(box')[k] = box.buffer[Cell(box', k - 1)]
    BY <2>2, <2>3, <2>4, ContentIs
  <2> DEFINE s == Content(box)  t == Content(box')  u == got'.bytes
  <2>7. \A k \in 1 .. r : s[k] \in Nat
    BY <2>5
  <2>8. ASSUME NEW k \in 1 .. r - n PROVE t[k] = s[n + k]
    <3>1. k - 1 \in 0 .. MAILBOX_BUFFER_SIZE - n /\ n + (k - 1) = n + k - 1
          /\ n + k \in 1 .. r
      BY <2>1
    <3>2. t[k] = box.buffer[Cell(box, n + k - 1)]
      BY <2>6, <2>c, <3>1
    <3> QED BY <3>1, <3>2, <2>5
  <2>9. ASSUME NEW k \in 1 .. n
        PROVE  box.buffer[(box.read + k - 1) % MAILBOX_BUFFER_SIZE] = s[k]
    <3>1. box.read + k - 1 = box.read + (k - 1) /\ k \in 1 .. r
      BY <2>1
    <3> QED BY <3>1, <2>5 DEF Cell
  <2>10. u = [k \in 1 .. n |-> s[k]] /\ got' = [by |-> p, bytes |-> u]
    BY <2>2, <2>9
  <2>11. /\ s \in Seq(Nat) /\ Len(s) = r /\ t \in Seq(Nat) /\ Len(t) = r - n
         /\ r \in Nat /\ n \in 0 .. r
    BY <2>1, <2>5, <2>6
  <2> HIDE DEF s, t, u, r
  <2>12. t = SubSeq(s, n + 1, r)
    <3> DEFINE v == SubSeq(s, n + 1, r)
    <3>1. /\ v \in Seq(Nat)
          /\ Len(v) = IF n + 1 <= r THEN r - (n + 1) + 1 ELSE 0
          /\ \A i \in 1 .. r - (n + 1) + 1 : v[i] = s[n + 1 + i - 1]
      <4>1. n + 1 \in Int /\ r \in Int /\ \A i \in n + 1 .. r : i \in 1 .. r
        BY <2>11
      <4> QED BY <2>7, <4>1, SubSeqProperties
    <3>2. Len(v) = r - n
      BY <2>11, <3>1
    <3>3. ASSUME NEW i \in 1 .. r - n PROVE v[i] = t[i]
      <4>1. i \in 1 .. r - (n + 1) + 1 /\ n + 1 + i - 1 = n + i
        BY <2>11
      <4> QED BY <2>8, <3>1, <4>1
    <3> HIDE DEF v
    <3>4. v = t
      BY <2>11, <3>1, <3>2, <3>3, SeqEqual
    <3> QED BY <3>4 DEF v
  <2>13. u = SubSeq(s, 1, n)
    <3> DEFINE v == SubSeq(s, 1, n)
    <3>1. /\ v \in Seq(Nat)
          /\ Len(v) = IF 1 <= n THEN n - 1 + 1 ELSE 0
          /\ \A i \in 1 .. n - 1 + 1 : v[i] = s[1 + i - 1]
      <4>1. n \in Int /\ 1 \in Int /\ \A i \in 1 .. n : i \in 1 .. r
        BY <2>11
      <4> QED BY <2>7, <4>1, SubSeqProperties
    <3>2. u \in [1 .. n -> Nat] /\ n \in Nat
      <4>1. \A i \in 1 .. n : i \in 1 .. r
        BY <2>11
      <4> QED BY <2>7, <2>10, <2>11, <4>1
    <3>3. u \in Seq(Nat) /\ Len(u) = n
      BY <3>2
    <3>4. Len(v) = n
      BY <3>1, <3>2
    <3>5. ASSUME NEW i \in 1 .. n PROVE v[i] = u[i]
      <4>1. i \in 1 .. n - 1 + 1 /\ 1 + i - 1 = i
        BY <3>2
      <4> QED BY <2>10, <3>1, <4>1
    <3> HIDE DEF v
    <3>6. v = u
      BY <3>1, <3>3, <3>4, <3>5, SeqEqual
    <3> QED BY <3>6 DEF v
  <2>14. /\ got' = [by |-> p, bytes |-> SubSeq(s, 1, n)]
         /\ t = SubSeq(s, n + 1, Len(s))
    BY <2>10, <2>11, <2>12, <2>13
  <2>15. Bytes!Get(p, n)
    BY <2>14, Zenon DEF Bytes!Get, s, t, Content, Readable, readable_bytes
  <2>16. n \in 0 .. Len(Content(box))
    BY <2>11 DEF s
  <2> QED BY <2>4, <2>15, <2>16
<1> QED BY <1>1, <1>2

\* Whoever is in read_message has asked for a number of bytes.
Asked == call = [p \in Pid |-> call[p]] /\ \A p \in Pid : call[p].bytes \in Nat

MailboxInv == RingSound(box) /\ Asked

(* A call that goes on, or returns, asks for a number of bytes. *)
LEMMA AskedStep ==
  ASSUME Asked, [Next]_vars
  PROVE  Asked'
<1>1. ASSUME NEW p \in Pid, NEW at, NEW of, NEW n \in Nat, GoesTo(p, at, of, n)
      PROVE  Asked'
  BY <1>1 DEF Asked, GoesTo
<1>2. ASSUME NEW p \in Pid, Returns(p) PROVE Asked'
  BY <1>2 DEF Asked, Returns, User
<1>3. ASSUME UNCHANGED call PROVE Asked'
  BY <1>3 DEF Asked
<1>4. ASSUME NEW p \in Pid, NEW x, SemWaitGoesOn(p, x) PROVE Asked'
  BY <1>1, <1>2, <1>4 DEF SemWaitGoesOn
<1>5. ASSUME NEW p \in Pid, NEW x, SemSignalGoesOn(p, x) PROVE Asked'
  BY <1>2, <1>5 DEF SemSignalGoesOn
<1>6. ASSUME NEW p \in Pid, NEW of, WaitsForMutex(p, of) PROVE Asked'
  BY <1>1, <1>6 DEF WaitsForMutex
<1>7. ASSUME NEW p \in Pid, NEW n \in Nat, ReadGoesOn(p, n) PROVE Asked'
  BY <1>1, <1>2, <1>7 DEF ReadGoesOn
<1>8. ASSUME NEW p \in Pid, UsesSemaphore(p) PROVE Asked'
  <2>1. CASE sem_wait(p)
    BY <1>4, <1>6, <2>1 DEF sem_wait
  <2>2. CASE sem_signal(p)
    BY <1>5, <1>6, <2>2 DEF sem_signal
  <2>3. CASE mutex_lock(p)
    BY <1>3, <1>6, <2>3 DEF mutex_lock
  <2>4. CASE mutex_unlock(p)
    BY <1>3, <2>4 DEF mutex_unlock
  <2>5. CASE MutexLockReturns(p)
    <3>1. SemWaitGoesOn(p, sem) \/ SemSignalGoesOn(p, sem) \/ Returns(p)
      BY <2>5 DEF MutexLockReturns
    <3> QED BY <1>2, <1>4, <1>5, <3>1
  <2>6. CASE SemWaitReturns(p)
    BY <1>2, <2>6 DEF SemWaitReturns
  <2> QED BY <1>8, <2>1, <2>2, <2>3, <2>4, <2>5, <2>6 DEF UsesSemaphore
<1>9. ASSUME NEW p \in Pid, UsesMailbox(p) PROVE Asked'
  <2>1. CASE Reread(p)
    BY <1>7, <2>1 DEF Reread, Asked
  <2>2. CASE \E msg \in Message : write_message(p, msg)
    BY <1>3, <2>2 DEF write_message
  <2>3. CASE \E n \in 0 .. MAILBOX_BUFFER_SIZE : read_message(p, n)
    BY <1>7, <2>3, IpcAssumption DEF read_message
  <2> QED BY <1>9, <2>1, <2>2, <2>3 DEF UsesMailbox
<1>10. ASSUME NEW p \in Pid, ChildReturns(p) \/ Killed(p) \/ Created(p)
       PROVE  Asked'
  BY <1>2, <1>3, <1>10 DEF ChildReturns, Killed, Created
<1> QED BY <1>3, <1>8, <1>9, <1>10 DEF Next, vars

(* What each step does to the bytes. *)
LEMMA BytesStep ==
  ASSUME MailboxInv, [Next]_vars
  PROVE  /\ RingSound(box')
         /\ Bytes!Next \/ (Content(box') = Content(box) /\ got' = got)
<1>1. ASSUME UNCHANGED <<box, got>>
      PROVE  RingSound(box') /\ Content(box') = Content(box) /\ got' = got
  BY <1>1 DEF MailboxInv
<1>2. ASSUME NEW p \in Pid, NEW n \in Nat, ReadGoesOn(p, n)
      PROVE  /\ RingSound(box')
             /\ Bytes!Next \/ (Content(box') = Content(box) /\ got' = got)
  <2>1. /\ RingSound(box')
        /\ \/ n \in 0 .. Len(Content(box)) /\ Bytes!Get(p, n)
           \/ Content(box') = Content(box) /\ got' = got
    BY <1>2, ReadKeeps DEF MailboxInv
  <2>2. ASSUME n \in 0 .. Len(Content(box)), Bytes!Get(p, n) PROVE Bytes!Next
    BY <2>2 DEF Bytes!Next, Content, Readable, readable_bytes
  <2> QED BY <2>1, <2>2
<1>3. ASSUME NEW p \in Pid, NEW msg \in Message, write_message(p, msg)
      PROVE  RingSound(box') /\ Bytes!Next
  <2>1. RingSound(box') /\ Bytes!Put(msg)
    BY <1>3, WriteKeeps DEF MailboxInv
  <2> QED BY <2>1 DEF Bytes!Next
<1>4. ASSUME NEW p \in Pid, UsesMailbox(p)
      PROVE  /\ RingSound(box')
             /\ Bytes!Next \/ (Content(box') = Content(box) /\ got' = got)
  <2>1. CASE Reread(p)
    BY <1>2, <2>1 DEF Reread, MailboxInv, Asked
  <2>2. CASE \E msg \in Message : write_message(p, msg)
    BY <1>3, <2>2
  <2>3. CASE \E n \in 0 .. MAILBOX_BUFFER_SIZE : read_message(p, n)
    BY <1>2, <2>3, IpcAssumption DEF read_message
  <2> QED BY <1>4, <2>1, <2>2, <2>3 DEF UsesMailbox
<1>5. ASSUME NEW p \in Pid, UsesSemaphore(p) PROVE UNCHANGED <<box, got>>
  BY <1>5 DEF UsesSemaphore, sem_wait, sem_signal, mutex_lock, mutex_unlock,
              MutexLockReturns, SemWaitReturns, WaitsForMutex, SemWaitGoesOn,
              SemSignalGoesOn
<1>6. ASSUME NEW p \in Pid, ChildReturns(p) \/ Killed(p) \/ Created(p)
      PROVE  UNCHANGED <<box, got>>
  BY <1>6 DEF ChildReturns, Killed, Created
<1> QED BY <1>1, <1>4, <1>5, <1>6 DEF Next, vars

(* The empty mailbox. *)
LEMMA MailboxBegins ==
  ASSUME Init
  PROVE  MailboxInv /\ Bytes!Init
<1>1. MAILBOX_BUFFER_SIZE \in Nat \ {0} /\ 0 \in Cells
  BY IpcAssumption DEF Cells
<1>2. /\ box.read = 0 /\ box.write = 0 /\ box.empty = MAILBOX_BUFFER_SIZE
      /\ box.buffer = [c \in Cells |-> 0]
      /\ box = [read |-> box.read, write |-> box.write, empty |-> box.empty,
                index |-> box.index, buffer |-> box.buffer, list |-> box.list]
      /\ got = [by |-> NoPid, bytes |-> <<>>]
  BY DEF Init
<1>3. Readable(box) = 0
  BY <1>1, <1>2 DEF Readable
<1>4. Cell(box, 0) = 0
  <2>1. (0 + 0) % MAILBOX_BUFFER_SIZE = 0
    <3>1. 0 \in 0 .. MAILBOX_BUFFER_SIZE - 1 /\ 0 \in 0 .. MAILBOX_BUFFER_SIZE
      BY <1>1
    <3> QED BY <1>1, <3>1, Ring
  <2> QED BY <1>2, <2>1 DEF Cell
<1>5. RingSound(box)
  BY <1>1, <1>2, <1>3, <1>4 DEF RingSound
<1>6. Asked
  BY DEF Init, Asked, User
<1>7. Content(box) = <<>>
  BY <1>3, <1>5, ContentIs
<1> QED BY <1>2, <1>5, <1>6, <1>7
        DEF MailboxInv, Bytes!Init, Content, Readable, readable_bytes

(* The mailbox implements ByteQueue, for any number of readers, writers and *)
(* bytes and whatever wakes a reader or kills a process: no byte is lost,   *)
(* doubled or out of order, and a reader gets all it asked for at once.     *)
THEOREM KeepsBytesHolds == Spec => KeepsBytes
<1>1. Init => MailboxInv /\ Bytes!Init
  BY MailboxBegins
<1>2. MailboxInv /\ [Next]_vars => MailboxInv' /\ [Bytes!Next]_(Bytes!vars)
  <2> SUFFICES ASSUME MailboxInv, [Next]_vars
               PROVE  MailboxInv' /\ [Bytes!Next]_(Bytes!vars)
    OBVIOUS
  <2>1. /\ RingSound(box') /\ Asked'
        /\ Bytes!Next \/ (Content(box') = Content(box) /\ got' = got)
    BY BytesStep, AskedStep DEF MailboxInv
  <2>2. MailboxInv'
    BY <2>1 DEF MailboxInv, RingSound, Cell, Readable
  <2>3. [Bytes!Next]_(Bytes!vars)
    <3>1. CASE Bytes!Next
      BY <3>1
    <3>2. CASE Content(box') = Content(box) /\ got' = got
      BY <3>2 DEF Bytes!vars, Content, Readable, readable_bytes
    <3> QED BY <2>1, <3>1, <3>2
  <2> QED BY <2>2, <2>3
<1> QED BY <1>1, <1>2, PTL DEF Spec, KeepsBytes, Bytes!Spec

-----------------------------------------------------------------------------
(* The tokens of a semaphore *)

\* The workload of the theorems below: nobody but a signal wakes or ends a
\* process that waits in a semaphore or for its mutex.
Gentle == Workload \subseteq {"Shared", "ReaderWoken"}

\* The processes asleep in a call, those on their way out of sem_wait with a
\* token, and those that are going to give one.
Asleep(at) == {p \in Pid : state[p] = "BLOCKED" /\ call[p].at = at}

Going == {p \in Pid : Runs(p, "sem")}

Pending == {p \in Pid : call[p].of = "signal"}

Semaphore(x) ==
  /\ x = [value |-> x.value, queue |-> x.queue, mutex |-> x.mutex]
  /\ x.value \in Nat
  /\ x.queue \in Queue
  /\ x.mutex \in MutexStruct

SemTypes ==
  /\ state \in [Pid -> {"READY", "BLOCKED", "FINISHED"}]
  /\ call = [p \in Pid |-> call[p]]
  /\ Semaphore(sem)
  /\ credit \in Int
  /\ use \in {"sem", "box"}

\* Where processes are, by what the programs use.
Whereabouts ==
  \A p \in Pid :
    /\ call[p].at \in (IF use = "sem" THEN {"user", "mutex", "sem"} ELSE {"user", "box"})
    /\ call[p].of = "signal" => call[p].at = "mutex"
    /\ state[p] = "FINISHED" => call[p].at = "user"

\* The two lists hold processes that are asleep there, each once.
InLists ==
  /\ NoneTwice(sem.queue) /\ Members(sem.queue) \subseteq Asleep("sem")
  /\ NoneTwice(sem.mutex.queue) /\ Members(sem.mutex.queue) \subseteq Asleep("mutex")

Counted == IsFiniteSet(Going) /\ sem.value + Cardinality(Going) = credit

Bounded == IsFiniteSet(Pending) /\ credit + Cardinality(Pending) <= MaxTokens

SemInv == SemTypes /\ Whereabouts /\ InLists

(* mutex_unlock touches the mutex only, and wakes at most its first waiter. *)
LEMMA UnlockedFacts ==
  ASSUME NEW x, Semaphore(x), NoneTwice(x.mutex.queue), NEW p \in Pid
  PROVE  /\ Semaphore(Unlocked(x, p))
         /\ Unlocked(x, p).value = x.value /\ Unlocked(x, p).queue = x.queue
         /\ NoneTwice(Unlocked(x, p).mutex.queue)
         /\ WokenByUnlock(x, p) \ {NoPid} \subseteq Members(x.mutex.queue)
         /\ Members(Unlocked(x, p).mutex.queue)
              \subseteq Members(x.mutex.queue) \ WokenByUnlock(x, p)
<1> DEFINE m == x.mutex
<1>1. m \in MutexStruct /\ m.queue \in Queue
  BY DEF Semaphore, MutexStruct
<1>2. CASE x.mutex.owner = p
  <2>1. /\ Unlocked(x, p) = [value |-> x.value, queue |-> x.queue, mutex |-> HandOff(m)]
        /\ WokenByUnlock(x, p) = {Front(m.queue)}
    BY <1>2 DEF Unlocked, WokenByUnlock, Semaphore
  <2>2. HandOff(m) \in MutexStruct
        /\ HandOff(m).queue = IF Front(m.queue) # NoPid THEN Drop(m.queue) ELSE m.queue
    <3>1. /\ m.owner \in PidOrNone /\ m.value \in {0, 1} /\ Drop(m.queue) \in Queue
          /\ m = [value |-> m.value, owner |-> m.owner, queue |-> m.queue]
          /\ Front(m.queue) \in PidOrNone /\ NoPid \in PidOrNone
      BY <1>1, DropSlots, DropMembers DEF MutexStruct, PidOrNone
    <3> HIDE DEF m
    <3>2. CASE Front(m.queue) # NoPid
      <4>1. HandOff(m) = [value |-> m.value, owner |-> Front(m.queue),
                          queue |-> Drop(m.queue)]
        BY <3>1, <3>2 DEF HandOff, HasWaiter
      <4> QED BY <3>1, <3>2, <4>1 DEF MutexStruct
    <3>3. CASE Front(m.queue) = NoPid
      <4>1. HandOff(m) = [value |-> 0, owner |-> NoPid, queue |-> m.queue]
        BY <3>1, <3>3 DEF HandOff, HasWaiter
      <4> QED BY <1>1, <3>1, <3>3, <4>1 DEF MutexStruct
    <3> QED BY <3>2, <3>3
  <2>3. Semaphore(Unlocked(x, p))
    BY <2>1, <2>2 DEF Semaphore
  <2>4. Front(m.queue) = NoPid => Front(m.queue) \notin Members(m.queue)
    BY DEF Members
  <2> QED BY <1>1, <2>1, <2>2, <2>3, <2>4, DropMembers
<1>3. CASE x.mutex.owner # p
  BY <1>3 DEF Unlocked, WokenByUnlock
<1> QED BY <1>2, <1>3

(* mutex_lock that gets the mutex touches nothing else. *)
LEMMA LockedFacts ==
  ASSUME Semaphore(sem), NEW p \in Pid
  PROVE  /\ Semaphore(Locked(p))
         /\ Locked(p).value = sem.value /\ Locked(p).queue = sem.queue
         /\ Locked(p).mutex.queue = sem.mutex.queue
<1>1. CASE sem.mutex.value = 0
  <2> DEFINE m == [value |-> 1, owner |-> p, queue |-> sem.mutex.queue]
  <2>1. Locked(p) = [value |-> sem.value, queue |-> sem.queue, mutex |-> m]
    BY <1>1 DEF Locked, Semaphore, MutexStruct
  <2>2. m \in MutexStruct
    BY DEF Semaphore, MutexStruct, PidOrNone
  <2> QED BY <2>1, <2>2 DEF Semaphore
<1>2. CASE sem.mutex.value # 0
  BY <1>2 DEF Locked
<1> QED BY <1>1, <1>2

\* What every step of the semaphore does to the processes: one, p, which is
\* not asleep, goes to c with state s; of those asleep V and W are woken.
Moves(p, V, W, s, c) ==
  /\ state[p] # "BLOCKED"
  /\ V \subseteq Asleep("sem") /\ W \subseteq Asleep("mutex")
  /\ s \in {"READY", "BLOCKED", "FINISHED"}
  /\ state' = [Resume(state, V \cup W) EXCEPT ![p] = s]
  /\ call' = [call EXCEPT ![p] = c]
  /\ c.at \in (IF use = "sem" THEN {"user", "mutex", "sem"} ELSE {"user", "box"})
  /\ c.at = "sem" => s = "BLOCKED"
  /\ s = "FINISHED" => c.at = "user"
  /\ c.of = "signal" => c.at = "mutex"
  /\ Semaphore(sem') /\ credit' \in Int /\ UNCHANGED use
  /\ NoneTwice(sem'.queue) /\ NoneTwice(sem'.mutex.queue)
  /\ Members(sem'.queue) \subseteq
       (Members(sem.queue) \ V) \cup (IF s = "BLOCKED" /\ c.at = "sem" THEN {p} ELSE {})
  /\ Members(sem'.mutex.queue) \subseteq
       (Members(sem.mutex.queue) \ W) \cup (IF s = "BLOCKED" /\ c.at = "mutex" THEN {p} ELSE {})

(* The invariant survives such a step, and who is where after it. *)
LEMMA Effect ==
  ASSUME SemInv, NEW p \in Pid, NEW V, NEW W, NEW s, NEW c, Moves(p, V, W, s, c)
  PROVE  /\ SemInv'
         /\ Going' = (Going \ {p}) \cup V
         /\ Pending' = (Pending \ {p}) \cup (IF c.of = "signal" THEN {p} ELSE {})
         /\ Asleep("sem")' = (Asleep("sem") \ V)
              \cup (IF s = "BLOCKED" /\ c.at = "sem" THEN {p} ELSE {})
<1>0. SemTypes /\ Whereabouts /\ InLists
  BY DEF SemInv
<1> USE DEF Moves
<1>1. \A q \in Pid : state[q] \in {"READY", "BLOCKED", "FINISHED"}
  BY <1>0 DEF SemTypes
<1>2. Resume(state, V \cup W) \in [Pid -> {"READY", "BLOCKED", "FINISHED"}]
  BY <1>1 DEF Resume
<1>3. /\ state'[p] = s /\ call'[p] = c
      /\ \A q \in Pid \ {p} : /\ call'[q] = call[q]
                              /\ state'[q] = IF q \in V \cup W THEN "READY" ELSE state[q]
  <2>1. \A q \in V \cup W : state[q] # "FINISHED"
    BY DEF Asleep
  <2>2. DOMAIN call = Pid
    BY <1>0 DEF SemTypes
  <2> QED BY <1>2, <2>1, <2>2 DEF Resume
<1>4. \A q \in V : q \in Pid /\ q # p /\ state[q] = "BLOCKED" /\ call[q].at = "sem"
  BY DEF Asleep
<1>5. \A q \in W : q \in Pid /\ q # p /\ state[q] = "BLOCKED" /\ call[q].at = "mutex"
  BY DEF Asleep
<1>6. SemTypes'
  <2>1. state' \in [Pid -> {"READY", "BLOCKED", "FINISHED"}]
    BY <1>2
  <2>2. DOMAIN call = Pid
    BY <1>0 DEF SemTypes
  <2>3. call' = [q \in Pid |-> call'[q]]
    BY <2>2
  <2> QED BY <1>0, <2>1, <2>3 DEF SemTypes, Semaphore
<1>c. \A q \in Pid : q = p \/ q \in V \/ q \in W \/ (q # p /\ q \notin V \cup W)
  OBVIOUS
<1>v. \A q \in V : state'[q] = "READY" /\ call'[q] = call[q]
  BY <1>3, <1>4
<1>w. \A q \in W : state'[q] = "READY" /\ call'[q] = call[q]
  BY <1>3, <1>5
<1>o. \A q \in Pid : q # p /\ q \notin V \cup W =>
        state'[q] = state[q] /\ call'[q] = call[q]
  BY <1>3
<1>7. Whereabouts'
  <2> SUFFICES ASSUME NEW q \in Pid
               PROVE  /\ call'[q].at \in (IF use = "sem" THEN {"user", "mutex", "sem"}
                                          ELSE {"user", "box"})
                      /\ call'[q].of = "signal" => call'[q].at = "mutex"
                      /\ state'[q] = "FINISHED" => call'[q].at = "user"
    BY DEF Whereabouts
  <2>1. CASE q = p
    BY <1>3, <2>1
  <2>2. CASE q # p
    <3>1. call'[q] = call[q] /\ (state'[q] = "FINISHED" => state[q] = "FINISHED")
      BY <1>c, <1>v, <1>w, <1>o, <2>2
    <3> QED BY <1>0, <3>1 DEF Whereabouts
  <2> QED BY <2>1, <2>2
<1>8. Asleep("sem")' = (Asleep("sem") \ V)
         \cup (IF s = "BLOCKED" /\ c.at = "sem" THEN {p} ELSE {})
  <2>1. ASSUME NEW q \in Pid
        PROVE  (state'[q] = "BLOCKED" /\ call'[q].at = "sem") <=>
                 \/ state[q] = "BLOCKED" /\ call[q].at = "sem" /\ q \notin V
                 \/ q = p /\ s = "BLOCKED" /\ c.at = "sem"
    <3>1. CASE q = p
      BY <1>3, <3>1
    <3>2. CASE q # p
      BY <1>c, <1>v, <1>w, <1>o, <1>5, <3>2
    <3> QED BY <3>1, <3>2
  <2> QED BY <2>1 DEF Asleep
<1>9. Asleep("mutex")' = (Asleep("mutex") \ W)
         \cup (IF s = "BLOCKED" /\ c.at = "mutex" THEN {p} ELSE {})
  <2>1. ASSUME NEW q \in Pid
        PROVE  (state'[q] = "BLOCKED" /\ call'[q].at = "mutex") <=>
                 \/ state[q] = "BLOCKED" /\ call[q].at = "mutex" /\ q \notin W
                 \/ q = p /\ s = "BLOCKED" /\ c.at = "mutex"
    <3>1. CASE q = p
      BY <1>3, <3>1
    <3>2. CASE q # p
      BY <1>c, <1>v, <1>w, <1>o, <1>4, <3>2
    <3> QED BY <3>1, <3>2
  <2> QED BY <2>1 DEF Asleep
<1>10. InLists'
  <2>1. Members(sem'.queue) \subseteq Asleep("sem")'
    BY <1>0, <1>8 DEF InLists
  <2>2. Members(sem'.mutex.queue) \subseteq Asleep("mutex")'
    BY <1>0, <1>9 DEF InLists
  <2> QED BY <2>1, <2>2 DEF InLists, NoneTwice, Members
<1>11. Going' = (Going \ {p}) \cup V
  <2>1. ASSUME NEW q \in Pid
        PROVE  (state'[q] = "READY" /\ call'[q].at = "sem") <=>
                 \/ state[q] = "READY" /\ call[q].at = "sem" /\ q # p
                 \/ q \in V
    <3>1. CASE q = p
      BY <1>3, <1>4, <3>1
    <3>2. CASE q \in V
      BY <1>v, <1>4, <3>2
    <3>3. CASE q \in W
      BY <1>w, <1>4, <1>5, <3>3
    <3>4. CASE q # p /\ q \notin V \cup W
      BY <1>o, <3>4
    <3> QED BY <1>c, <3>1, <3>2, <3>3, <3>4
  <2>2. V \subseteq Pid
    BY <1>4
  <2> QED BY <2>1, <2>2 DEF Going, Runs
<1>12. Pending' = (Pending \ {p}) \cup (IF c.of = "signal" THEN {p} ELSE {})
  BY <1>3 DEF Pending
<1> QED BY <1>6, <1>7, <1>8, <1>10, <1>11, <1>12 DEF SemInv

\* What a step does to the tokens and to the line of the semaphore.
Joins(p) ==
  /\ p \notin Members(sem.queue) /\ state[p] = "READY" /\ state'[p] = "BLOCKED"
  /\ sem.value = 0 /\ sem'.value = 0
  /\ sem'.queue = Push(sem.queue, p)
  /\ Asleep("sem")' = Asleep("sem") \cup {p}

Gives ==
  /\ HasWaiter(sem.queue)
  /\ sem'.queue = Drop(sem.queue) /\ sem'.value = sem.value
  /\ Asleep("sem")' = Asleep("sem") \ {Front(sem.queue)}

Counts ==
  /\ ~ HasWaiter(sem.queue)
  /\ sem'.queue = sem.queue /\ sem'.value = sem.value + 1
  /\ Asleep("sem")' = Asleep("sem")

Takes ==
  /\ sem.value > 0
  /\ sem'.queue = sem.queue /\ sem'.value = sem.value - 1
  /\ Asleep("sem")' = Asleep("sem")

Keeps ==
  /\ sem'.queue = sem.queue /\ sem'.value = sem.value
  /\ Asleep("sem")' = Asleep("sem")

SemStep == (\E p \in Pid : Joins(p)) \/ Gives \/ Counts \/ Takes \/ Keeps

TokenInv == SemInv /\ Counted /\ Bounded

(* A step that wakes nobody in the semaphore and neither gives nor takes.  *)
LEMMA SemUntouched ==
  ASSUME TokenInv, UNCHANGED use, NEW p \in Pid, state[p] # "BLOCKED",
         p \notin Going, call[p].of # "signal",
         NEW W \in SUBSET Asleep("mutex"),
         NEW s \in {"READY", "BLOCKED", "FINISHED"}, NEW c,
         state' = [Resume(state, W) EXCEPT ![p] = s],
         call' = [call EXCEPT ![p] = c],
         c.at \in (IF use = "sem" THEN {"user", "mutex"} ELSE {"user"}),
         s = "FINISHED" => c.at = "user",
         c.of # "signal",
         Semaphore(sem'), sem'.value = sem.value, sem'.queue = sem.queue,
         UNCHANGED credit, NoneTwice(sem'.mutex.queue),
         Members(sem'.mutex.queue) \subseteq
           (Members(sem.mutex.queue) \ W)
             \cup (IF s = "BLOCKED" /\ c.at = "mutex" THEN {p} ELSE {})
  PROVE  TokenInv' /\ Keeps
<1> DEFINE V == {}
<1>1. /\ SemInv /\ V \in SUBSET Asleep("sem") /\ V \cup W = W
      /\ NoneTwice(sem'.queue)
      /\ Members(sem'.queue) \subseteq
           (Members(sem.queue) \ V) \cup (IF s = "BLOCKED" /\ c.at = "sem" THEN {p} ELSE {})
      /\ credit' \in Int
  BY DEF TokenInv, SemInv, InLists, SemTypes
<1>2. /\ c.at \in (IF use = "sem" THEN {"user", "mutex", "sem"} ELSE {"user", "box"})
      /\ c.at # "sem"
  OBVIOUS
<1>3. /\ SemInv'
      /\ Going' = (Going \ {p}) \cup V
      /\ Pending' = (Pending \ {p}) \cup (IF c.of = "signal" THEN {p} ELSE {})
      /\ Asleep("sem")' = (Asleep("sem") \ V)
           \cup (IF s = "BLOCKED" /\ c.at = "sem" THEN {p} ELSE {})
  <2> HIDE DEF V
  <2>1. Moves(p, V, W, s, c)
    BY <1>1, <1>2 DEF Moves
  <2> QED BY <1>1, <2>1, Effect
<1>4. Going' = Going /\ Pending' = Pending /\ Asleep("sem")' = Asleep("sem")
  BY <1>2, <1>3 DEF Pending
<1> QED BY <1>3, <1>4 DEF TokenInv, Counted, Bounded, Keeps

(* mutex_lock has to wait. *)
LEMMA WaitsForMutexStep ==
  ASSUME TokenInv, UNCHANGED use, use = "sem", NEW p \in Pid,
         state[p] = "READY", call[p].at = "user",
         NEW of \in {"wait", "signal", "lock"}, WaitsForMutex(p, of)
  PROVE  /\ SemInv' /\ Counted' /\ Keeps
         /\ of # "signal" => Bounded'
         /\ Pending' = Pending \cup (IF of = "signal" THEN {p} ELSE {})
<1> DEFINE V == {}  W == {}  s == "BLOCKED"  c == [at |-> "mutex", of |-> of, bytes |-> 0]
           m == sem.mutex
<1>0. SemInv /\ SemTypes /\ InLists /\ Whereabouts
  BY DEF TokenInv, SemInv
<1>1. /\ m \in MutexStruct /\ m.queue \in Queue /\ NoneTwice(m.queue)
      /\ p \notin Members(m.queue)
  BY <1>0 DEF SemTypes, Semaphore, MutexStruct, InLists, Asleep
<1>2. /\ Push(m.queue, p) \in Queue /\ NoneTwice(Push(m.queue, p))
      /\ Members(Push(m.queue, p)) \subseteq Members(m.queue) \cup {p}
  BY <1>1, PushSlots, PushMembers
<1>3. sem' = [value |-> sem.value, queue |-> sem.queue,
              mutex |-> [value |-> m.value, owner |-> m.owner, queue |-> Push(m.queue, p)]]
  BY <1>0, <1>1 DEF WaitsForMutex, SemTypes, Semaphore, MutexStruct
<1>4. /\ Semaphore(sem') /\ sem'.value = sem.value /\ sem'.queue = sem.queue
      /\ NoneTwice(sem'.queue)
      /\ sem'.mutex.queue = Push(m.queue, p)
  BY <1>0, <1>1, <1>2, <1>3 DEF SemTypes, Semaphore, MutexStruct, InLists
<1>5. /\ state' = [Resume(state, V \cup W) EXCEPT ![p] = s]
      /\ call' = [call EXCEPT ![p] = c]
      /\ credit' = credit
  <2>1. Resume(state, V \cup W) = state
    BY <1>0 DEF Resume, SemTypes
  <2> QED BY <2>1 DEF WaitsForMutex, Block, GoesTo
<1>6. /\ V \in SUBSET Asleep("sem") /\ W \in SUBSET Asleep("mutex")
      /\ s \in {"READY", "BLOCKED", "FINISHED"} /\ state[p] # "BLOCKED"
      /\ c.at = "mutex" /\ c.of = of
      /\ credit' \in Int
      /\ Members(sem'.queue) \subseteq
           (Members(sem.queue) \ V) \cup (IF s = "BLOCKED" /\ c.at = "sem" THEN {p} ELSE {})
      /\ Members(sem'.mutex.queue) \subseteq
           (Members(sem.mutex.queue) \ W)
             \cup (IF s = "BLOCKED" /\ c.at = "mutex" THEN {p} ELSE {})
  BY <1>0, <1>2, <1>4, <1>5 DEF SemTypes
<1>7. /\ c.at \in (IF use = "sem" THEN {"user", "mutex", "sem"} ELSE {"user", "box"})
      /\ (c.at = "sem" => s = "BLOCKED") /\ (s = "FINISHED" => c.at = "user")
      /\ (c.of = "signal" => c.at = "mutex")
  BY <1>6
<1>8. /\ SemInv'
      /\ Going' = (Going \ {p}) \cup V
      /\ Pending' = (Pending \ {p}) \cup (IF c.of = "signal" THEN {p} ELSE {})
      /\ Asleep("sem")' = (Asleep("sem") \ V)
           \cup (IF s = "BLOCKED" /\ c.at = "sem" THEN {p} ELSE {})
  <2> HIDE DEF V, W, s, c
  <2>1. Moves(p, V, W, s, c)
    BY <1>2, <1>4, <1>5, <1>6, <1>7 DEF Moves
  <2> QED BY <1>0, <2>1, Effect
<1>9. p \notin Going /\ p \notin Pending
  BY <1>0 DEF Going, Runs, Pending, Whereabouts
<1>10. /\ Going' = Going /\ Asleep("sem")' = Asleep("sem")
       /\ Pending' = Pending \cup (IF of = "signal" THEN {p} ELSE {})
  BY <1>6, <1>8, <1>9
<1>11. Counted' /\ Keeps
  BY <1>4, <1>5, <1>10 DEF TokenInv, Counted, Keeps
<1>12. of # "signal" => Bounded'
  BY <1>5, <1>10 DEF TokenInv, Bounded
<1> QED BY <1>8, <1>10, <1>11, <1>12

\* Whom mutex_unlock wakes.
UnlockWakes(x, p) == WokenByUnlock(x, p) \ {NoPid}

\* A step of p that ends with mutex_unlock of semaphore x, wakes V in the
\* semaphore and takes p to c with state s.
Passes(p, V, x, s, c) ==
  /\ state[p] = "READY"
  /\ V \subseteq Asleep("sem")
  /\ s \in {"READY", "BLOCKED", "FINISHED"}
  /\ state' = [Resume(state, V \cup UnlockWakes(x, p)) EXCEPT ![p] = s]
  /\ call' = [call EXCEPT ![p] = c]
  /\ c.at \in (IF use = "sem" THEN {"user", "sem"} ELSE {"user"})
  /\ c.at = "sem" => s = "BLOCKED"
  /\ s = "FINISHED" => c.at = "user"
  /\ c.of # "signal"
  /\ Semaphore(x) /\ sem' = Unlocked(x, p)
  /\ credit' \in Int /\ UNCHANGED use
  /\ x.mutex.queue = sem.mutex.queue /\ NoneTwice(x.queue)
  /\ Members(x.queue) \subseteq
       (Members(sem.queue) \ V) \cup (IF s = "BLOCKED" /\ c.at = "sem" THEN {p} ELSE {})

(* Such a step is one of those above.                                      *)
LEMMA PassesMoves ==
  ASSUME SemInv, NEW p \in Pid, NEW V, NEW x, NEW s, NEW c, Passes(p, V, x, s, c)
  PROVE  /\ Moves(p, V, UnlockWakes(x, p), s, c)
         /\ sem'.value = x.value /\ sem'.queue = x.queue
<1>1. NoneTwice(x.mutex.queue) /\ Members(sem.mutex.queue) \subseteq Asleep("mutex")
  BY DEF SemInv, InLists, Passes
<1>2. /\ Semaphore(sem')
      /\ sem'.value = x.value /\ sem'.queue = x.queue
      /\ NoneTwice(sem'.mutex.queue)
      /\ UnlockWakes(x, p) \subseteq Members(x.mutex.queue)
      /\ Members(sem'.mutex.queue) \subseteq Members(x.mutex.queue) \ WokenByUnlock(x, p)
  BY <1>1, UnlockedFacts DEF Passes, UnlockWakes
<1>3. UnlockWakes(x, p) \subseteq WokenByUnlock(x, p)
  BY DEF UnlockWakes
<1>4. /\ c.at # "mutex" /\ x.mutex.queue = sem.mutex.queue /\ state[p] # "BLOCKED"
      /\ c.at \in (IF use = "sem" THEN {"user", "mutex", "sem"} ELSE {"user", "box"})
  BY DEF Passes
<1>5. /\ UnlockWakes(x, p) \subseteq Asleep("mutex")
      /\ Members(sem'.mutex.queue) \subseteq Members(sem.mutex.queue) \ UnlockWakes(x, p)
      /\ NoneTwice(sem'.queue)
      /\ Members(sem'.queue) \subseteq
           (Members(sem.queue) \ V) \cup (IF s = "BLOCKED" /\ c.at = "sem" THEN {p} ELSE {})
  <2>1. x.mutex.queue = sem.mutex.queue /\ NoneTwice(x.queue)
        /\ Members(x.queue) \subseteq
             (Members(sem.queue) \ V) \cup (IF s = "BLOCKED" /\ c.at = "sem" THEN {p} ELSE {})
    BY DEF Passes
  <2> QED BY <1>1, <1>2, <1>3, <2>1
<1>6. Moves(p, V, UnlockWakes(x, p), s, c)
  BY <1>2, <1>4, <1>5 DEF Passes, Moves
<1> QED BY <1>2, <1>6

(* Process id -1 is nobody to resume, and who runs need not be.            *)
LEMMA ResumeFacts ==
  ASSUME SemTypes, NEW p \in Pid, NEW S, state[p] = "READY"
  PROVE  /\ Resume(state, S) = Resume(state, S \ {NoPid})
         /\ Resume(state, S) = [Resume(state, S) EXCEPT ![p] = "READY"]
BY QueueAssumption DEF Resume, SemTypes

\* p is in a call on the semaphore and has its mutex; x is the semaphore.
InCall(p, x) ==
  /\ use = "sem" /\ UNCHANGED use
  /\ state[p] = "READY" /\ call[p].at \in {"user", "mutex"}
  /\ Semaphore(x)
  /\ x.value = sem.value /\ x.queue = sem.queue /\ x.mutex.queue = sem.mutex.queue

(* sem_wait with the mutex joins the line, or takes a token.               *)
LEMMA SemWaitGoesOnStep ==
  ASSUME TokenInv, NEW p \in Pid, NEW x, InCall(p, x), call[p].of # "signal",
         SemWaitGoesOn(p, x)
  PROVE  TokenInv' /\ (Joins(p) \/ Takes)
<1>0. SemInv /\ SemTypes /\ InLists /\ Whereabouts
  BY DEF TokenInv, SemInv
<1>1. /\ p \notin Going /\ p \notin Pending /\ p \notin Asleep("sem")
      /\ p \notin Members(sem.queue)
  BY <1>0 DEF InCall, Going, Runs, Pending, Asleep, InLists
<1>2. CASE x.value = 0
  <2> DEFINE V == {}  s == "BLOCKED"  c == [at |-> "sem", of |-> "wait", bytes |-> 0]
             y == [value |-> x.value, queue |-> Push(x.queue, p), mutex |-> x.mutex]
  <2>1. /\ Push(x.queue, p) \in Queue /\ NoneTwice(Push(x.queue, p))
        /\ Members(Push(x.queue, p)) \subseteq Members(sem.queue) \cup {p}
    BY <1>0, <1>1, PushSlots, PushMembers DEF InCall, Semaphore, InLists
  <2>2. /\ Semaphore(y) /\ y.value = 0 /\ y.mutex = x.mutex
        /\ y.queue = Push(sem.queue, p) /\ y.mutex.queue = sem.mutex.queue
        /\ [x EXCEPT !.queue = Push(@, p)] = y
    BY <1>2, <2>1 DEF InCall, Semaphore
  <2>3. /\ sem' = Unlocked(y, p)
        /\ state' = Block(Resume(state, WokenByUnlock(x, p)), p)
        /\ call' = [call EXCEPT ![p] = c]
        /\ credit' = credit
    BY <1>2, <2>2 DEF SemWaitGoesOn, GoesTo
  <2>4. state' = [Resume(state, V \cup UnlockWakes(y, p)) EXCEPT ![p] = s]
    <3>1. WokenByUnlock(x, p) = WokenByUnlock(y, p)
      BY <2>2 DEF WokenByUnlock
    <3>2. V \cup UnlockWakes(y, p) = UnlockWakes(y, p)
      OBVIOUS
    <3>3. Resume(state, WokenByUnlock(y, p)) = Resume(state, UnlockWakes(y, p))
      BY <1>0, ResumeFacts DEF InCall, UnlockWakes
    <3> QED BY <2>3, <3>1, <3>2, <3>3 DEF Block
  <2>5. /\ V \subseteq Asleep("sem") /\ s = "BLOCKED" /\ c.at = "sem" /\ c.of = "wait"
        /\ Members(y.queue) \subseteq
             (Members(sem.queue) \ V) \cup (IF s = "BLOCKED" /\ c.at = "sem" THEN {p} ELSE {})
        /\ NoneTwice(y.queue) /\ credit' \in Int /\ V = {}
    BY <1>0, <2>1, <2>2, <2>3 DEF InCall, SemTypes
  <2> HIDE DEF V, s, c, y
  <2>6. Passes(p, V, y, s, c)
    BY <2>2, <2>3, <2>4, <2>5 DEF Passes, InCall
  <2>7. /\ Moves(p, V, UnlockWakes(y, p), s, c)
        /\ sem'.value = y.value /\ sem'.queue = y.queue
    BY <1>0, <2>6, PassesMoves
  <2>8. /\ SemInv'
        /\ Going' = (Going \ {p}) \cup V
        /\ Pending' = (Pending \ {p}) \cup (IF c.of = "signal" THEN {p} ELSE {})
        /\ Asleep("sem")' = (Asleep("sem") \ V)
              \cup (IF s = "BLOCKED" /\ c.at = "sem" THEN {p} ELSE {})
    BY <1>0, <2>7, Effect
  <2>9. Going' = Going /\ Pending' = Pending /\ Asleep("sem")' = Asleep("sem") \cup {p}
    BY <1>1, <2>5, <2>8
  <2>10. Counted' /\ Bounded'
    BY <1>2, <2>2, <2>3, <2>7, <2>9 DEF TokenInv, Counted, Bounded, InCall
  <2>11. Joins(p)
    <3>1. state'[p] = "BLOCKED"
      BY <2>8, <2>9 DEF Asleep
    <3> QED BY <1>1, <1>2, <2>2, <2>7, <2>9, <3>1 DEF Joins, InCall
  <2> QED BY <2>8, <2>10, <2>11 DEF TokenInv
<1>3. CASE x.value # 0
  <2> DEFINE V == {}  s == "READY"  c == User
             y == [value |-> x.value - 1, queue |-> x.queue, mutex |-> x.mutex]
  <2>2. /\ Semaphore(y) /\ y.value = x.value - 1 /\ y.mutex = x.mutex
        /\ y.queue = sem.queue /\ y.mutex.queue = sem.mutex.queue
        /\ [x EXCEPT !.value = @ - 1] = y
    BY <1>3 DEF InCall, Semaphore
  <2>3. /\ sem' = Unlocked(y, p)
        /\ state' = Resume(state, WokenByUnlock(x, p))
        /\ call' = [call EXCEPT ![p] = c]
        /\ credit' = credit - 1
    BY <1>3, <2>2 DEF SemWaitGoesOn, Returns
  <2>4. state' = [Resume(state, V \cup UnlockWakes(y, p)) EXCEPT ![p] = s]
    <3>1. WokenByUnlock(x, p) = WokenByUnlock(y, p)
      BY <2>2 DEF WokenByUnlock
    <3>2. V \cup UnlockWakes(y, p) = UnlockWakes(y, p)
      OBVIOUS
    <3>3. Resume(state, WokenByUnlock(y, p)) = Resume(state, UnlockWakes(y, p))
      BY <1>0, ResumeFacts DEF InCall, UnlockWakes
    <3>4. Resume(state, UnlockWakes(y, p)) = [Resume(state, UnlockWakes(y, p)) EXCEPT ![p] = s]
      BY <1>0, ResumeFacts DEF InCall
    <3> QED BY <2>3, <3>1, <3>2, <3>3, <3>4
  <2>5. /\ V \subseteq Asleep("sem") /\ s = "READY" /\ c.at = "user" /\ c.of = "none"
        /\ Members(y.queue) \subseteq
             (Members(sem.queue) \ V) \cup (IF s = "BLOCKED" /\ c.at = "sem" THEN {p} ELSE {})
        /\ NoneTwice(y.queue) /\ credit' \in Int /\ V = {}
    BY <1>0, <2>2, <2>3 DEF InCall, SemTypes, InLists, User
  <2> HIDE DEF V, s, c, y
  <2>6. Passes(p, V, y, s, c)
    BY <2>2, <2>3, <2>4, <2>5 DEF Passes, InCall
  <2>7. /\ Moves(p, V, UnlockWakes(y, p), s, c)
        /\ sem'.value = y.value /\ sem'.queue = y.queue
    BY <1>0, <2>6, PassesMoves
  <2>8. /\ SemInv'
        /\ Going' = (Going \ {p}) \cup V
        /\ Pending' = (Pending \ {p}) \cup (IF c.of = "signal" THEN {p} ELSE {})
        /\ Asleep("sem")' = (Asleep("sem") \ V)
              \cup (IF s = "BLOCKED" /\ c.at = "sem" THEN {p} ELSE {})
    BY <1>0, <2>7, Effect
  <2>9. Going' = Going /\ Pending' = Pending /\ Asleep("sem")' = Asleep("sem")
    BY <1>1, <2>5, <2>8
  <2>10. sem.value \in Nat /\ credit \in Int /\ sem.value = x.value
    BY <1>0 DEF SemTypes, Semaphore, InCall
  <2>11. Counted' /\ Bounded'
    <3>1. /\ IsFiniteSet(Going) /\ IsFiniteSet(Pending)
          /\ sem.value + Cardinality(Going) = credit
          /\ credit + Cardinality(Pending) <= MaxTokens
      BY DEF TokenInv, Counted, Bounded
    <3>2. Cardinality(Going) \in Nat /\ Cardinality(Pending) \in Nat /\ MaxTokens \in Nat
      BY <3>1, FS_CardinalityType, IpcAssumption
    <3>3. sem'.value = sem.value - 1
      BY <2>2, <2>7, <2>10
    <3> QED BY <2>3, <2>9, <2>10, <3>1, <3>2, <3>3 DEF Counted, Bounded
  <2>12. Takes
    BY <1>3, <2>2, <2>7, <2>9, <2>10 DEF Takes
  <2> QED BY <2>8, <2>11, <2>12 DEF TokenInv
<1> QED BY <1>2, <1>3

(* sem_signal with the mutex gives its token to the first of the line, or  *)
(* counts it.                                                              *)
LEMMA SemSignalGoesOnStep ==
  ASSUME SemInv, Counted, Bounded, NEW p \in Pid, NEW x, InCall(p, x),
         call[p].of = "signal" \/ credit + Cardinality(Pending) < MaxTokens,
         SemSignalGoesOn(p, x)
  PROVE  TokenInv' /\ (Gives \/ Counts)
<1> DEFINE q == sem.queue
           V == {Front(q)} \ {NoPid}
           s == "READY"
           c == User
           y == [value |-> IF HasWaiter(q) THEN x.value ELSE x.value + 1,
                 queue |-> IF HasWaiter(q) THEN Drop(q) ELSE q,
                 mutex |-> x.mutex]
<1>0. SemInv /\ SemTypes /\ InLists /\ Whereabouts
  BY DEF SemInv
<1>1. p \notin Going
  BY <1>0 DEF InCall, Going, Runs
<1>2. /\ q \in Queue /\ NoneTwice(q) /\ Front(q) \in PidOrNone
      /\ Front(q) # NoPid => Front(q) \in Members(q)
      /\ Members(q) \subseteq Asleep("sem")
      /\ Drop(q) \in Queue /\ NoneTwice(Drop(q))
      /\ Members(Drop(q)) \subseteq Members(q) \ {Front(q)}
  <2>1. q \in Queue /\ NoneTwice(q) /\ Members(q) \subseteq Asleep("sem")
    BY <1>0 DEF SemTypes, Semaphore, InLists
  <2> HIDE DEF q
  <2> QED BY <2>1, DropSlots, DropMembers
<1>3. /\ Semaphore(y) /\ y.mutex = x.mutex /\ y.mutex.queue = sem.mutex.queue
      /\ (IF HasWaiter(x.queue) THEN [x EXCEPT !.queue = Drop(@)]
          ELSE [x EXCEPT !.value = @ + 1]) = y
  BY <1>2 DEF InCall, Semaphore
<1>4. /\ sem' = Unlocked(y, p)
      /\ state' = Resume(state, {Front(q)} \cup WokenByUnlock(x, p))
      /\ call' = [call EXCEPT ![p] = c]
      /\ credit' = credit + 1
  BY <1>3 DEF SemSignalGoesOn, Returns, InCall
<1>5. state' = [Resume(state, V \cup UnlockWakes(y, p)) EXCEPT ![p] = s]
  <2>1. WokenByUnlock(x, p) = WokenByUnlock(y, p)
    BY <1>3 DEF WokenByUnlock
  <2> DEFINE S == {Front(q)} \cup WokenByUnlock(y, p)
  <2>2. S \ {NoPid} = V \cup UnlockWakes(y, p)
    BY DEF UnlockWakes
  <2> HIDE DEF S
  <2>3. Resume(state, S) = Resume(state, S \ {NoPid})
    BY <1>0, ResumeFacts DEF InCall
  <2>4. Resume(state, S \ {NoPid}) = [Resume(state, S \ {NoPid}) EXCEPT ![p] = s]
    BY <1>0, ResumeFacts DEF InCall
  <2>5. state' = Resume(state, S)
    BY <1>4, <2>1 DEF S
  <2> HIDE DEF V, y
  <2> QED BY <2>2, <2>3, <2>4, <2>5
<1>6. /\ V \subseteq Asleep("sem") /\ s = "READY" /\ c.at = "user" /\ c.of = "none"
      /\ credit' \in Int
  BY <1>0, <1>2, <1>4 DEF SemTypes, User
<1>7. /\ NoneTwice(y.queue) /\ Members(y.queue) \subseteq Members(q) \ V
  <2>1. CASE HasWaiter(q)
    BY <1>2, <2>1
  <2>2. CASE ~ HasWaiter(q)
    BY <1>2, <2>2 DEF HasWaiter
  <2> QED BY <2>1, <2>2
<1>8. Members(y.queue) \subseteq
        (Members(sem.queue) \ V) \cup (IF s = "BLOCKED" /\ c.at = "sem" THEN {p} ELSE {})
  BY <1>7
<1>9. /\ HasWaiter(q) => /\ V = {Front(q)} /\ Front(q) \in Asleep("sem")
                         /\ y.value = sem.value /\ y.queue = Drop(q)
      /\ ~ HasWaiter(q) => V = {} /\ y.value = sem.value + 1 /\ y.queue = q
  BY <1>2 DEF HasWaiter, InCall
<1> HIDE DEF V, s, c, y, q
<1>10. Passes(p, V, y, s, c)
  BY <1>3, <1>4, <1>5, <1>6, <1>7, <1>8 DEF Passes, InCall
<1>11. /\ Moves(p, V, UnlockWakes(y, p), s, c)
       /\ sem'.value = y.value /\ sem'.queue = y.queue
  BY <1>0, <1>10, PassesMoves
<1>12. /\ SemInv'
       /\ Going' = (Going \ {p}) \cup V
       /\ Pending' = (Pending \ {p}) \cup (IF c.of = "signal" THEN {p} ELSE {})
       /\ Asleep("sem")' = (Asleep("sem") \ V)
             \cup (IF s = "BLOCKED" /\ c.at = "sem" THEN {p} ELSE {})
  BY <1>0, <1>11, Effect
<1>13. /\ Going' = Going \cup V /\ Pending' = Pending \ {p}
       /\ Asleep("sem")' = Asleep("sem") \ V
  BY <1>1, <1>6, <1>12
<1>14. /\ IsFiniteSet(Going) /\ IsFiniteSet(Pending)
       /\ sem.value + Cardinality(Going) = credit
       /\ credit + Cardinality(Pending) <= MaxTokens
       /\ Cardinality(Going) \in Nat /\ Cardinality(Pending) \in Nat
       /\ MaxTokens \in Nat /\ sem.value \in Nat /\ credit \in Int
  BY <1>0, FS_CardinalityType, IpcAssumption DEF Counted, Bounded, SemTypes, Semaphore
<1>c. credit' = credit + 1
  BY <1>4
<1>15. Bounded'
  <2>1. CASE call[p].of = "signal"
    <3>1. p \in Pending
      BY <2>1 DEF Pending
    <3>2. IsFiniteSet(Pending \ {p}) /\ Cardinality(Pending \ {p}) = Cardinality(Pending) - 1
      BY <1>14, <3>1, FS_RemoveElement
    <3> QED BY <1>c, <1>13, <1>14, <3>2 DEF Bounded
  <2>2. CASE call[p].of # "signal"
    <3>1. Pending \ {p} = Pending
      BY <2>2 DEF Pending
    <3>2. Pending' = Pending
      BY <1>13, <3>1
    <3>3. credit + 1 + Cardinality(Pending) <= MaxTokens
      BY <1>14, <2>2
    <3> QED BY <1>c, <1>14, <3>2, <3>3 DEF Bounded
  <2> QED BY <2>1, <2>2
<1>16. CASE HasWaiter(q)
  <2>1. Front(q) \notin Going
    BY <1>9, <1>16 DEF Asleep, Going, Runs
  <2>2. /\ IsFiniteSet(Going \cup {Front(q)})
        /\ Cardinality(Going \cup {Front(q)}) = Cardinality(Going) + 1
    BY <1>14, <2>1, FS_AddElement
  <2>3. Counted'
    <3>1. Going' = Going \cup {Front(q)} /\ sem'.value = sem.value
      BY <1>9, <1>11, <1>13, <1>16
    <3> QED BY <1>c, <1>14, <2>2, <3>1 DEF Counted
  <2>4. Gives
    BY <1>9, <1>11, <1>13, <1>16 DEF Gives, q
  <2> QED BY <1>12, <1>15, <2>3, <2>4 DEF TokenInv
<1>17. CASE ~ HasWaiter(q)
  <2>1. Counted'
    <3>1. Going' = Going /\ sem'.value = sem.value + 1
      BY <1>9, <1>11, <1>13, <1>17
    <3> QED BY <1>c, <1>14, <3>1 DEF Counted
  <2>2. Counts
    BY <1>9, <1>11, <1>13, <1>17 DEF Counts, q
  <2> QED BY <1>12, <1>15, <2>1, <2>2 DEF TokenInv
<1> QED BY <1>16, <1>17

(* A process blocked in sem_wait and resumed goes on with its token.       *)
LEMMA SemWaitReturnsStep ==
  ASSUME TokenInv, UNCHANGED use, use = "sem", NEW p \in Pid, SemWaitReturns(p)
  PROVE  TokenInv' /\ Keeps
<1> DEFINE V == {}  W == {}  s == "READY"  c == User
<1>0. SemInv /\ SemTypes /\ InLists /\ Whereabouts
  BY DEF TokenInv, SemInv
<1>1. /\ state[p] = "READY" /\ call[p].at = "sem" /\ p \in Going
      /\ sem' = sem /\ credit' = credit - 1 /\ state' = state
      /\ call' = [call EXCEPT ![p] = c]
  BY DEF SemWaitReturns, Runs, Returns, Going
<1>2. state' = [Resume(state, V \cup W) EXCEPT ![p] = s]
  <2>1. Resume(state, V \cup W) = state
    BY <1>0 DEF Resume, SemTypes
  <2> QED BY <1>0, <1>1, <2>1 DEF SemTypes
<1>3. /\ V = {} /\ W = {} /\ s = "READY" /\ c.at = "user" /\ c.of = "none"
  BY DEF User
<1> HIDE DEF V, W, s, c
<1>4. Moves(p, V, W, s, c)
  BY <1>0, <1>1, <1>2, <1>3 DEF Moves, SemTypes, InLists
<1>5. /\ SemInv'
      /\ Going' = (Going \ {p}) \cup V
      /\ Pending' = (Pending \ {p}) \cup (IF c.of = "signal" THEN {p} ELSE {})
      /\ Asleep("sem")' = (Asleep("sem") \ V)
            \cup (IF s = "BLOCKED" /\ c.at = "sem" THEN {p} ELSE {})
  BY <1>0, <1>4, Effect
<1>6. p \notin Pending
  BY <1>0, <1>1 DEF Whereabouts, Pending
<1>7. Going' = Going \ {p} /\ Pending' = Pending /\ Asleep("sem")' = Asleep("sem")
  BY <1>3, <1>5, <1>6
<1>8. /\ IsFiniteSet(Going) /\ IsFiniteSet(Pending)
      /\ sem.value + Cardinality(Going) = credit
      /\ credit + Cardinality(Pending) <= MaxTokens
      /\ Cardinality(Going) \in Nat /\ Cardinality(Pending) \in Nat
      /\ MaxTokens \in Nat /\ sem.value \in Nat /\ credit \in Int
  BY <1>0, FS_CardinalityType, IpcAssumption DEF TokenInv, Counted, Bounded, SemTypes, Semaphore
<1>9. IsFiniteSet(Going \ {p}) /\ Cardinality(Going \ {p}) = Cardinality(Going) - 1
  BY <1>1, <1>8, FS_RemoveElement
<1>10. Counted' /\ Bounded'
  BY <1>1, <1>7, <1>8, <1>9 DEF Counted, Bounded
<1> QED BY <1>1, <1>5, <1>7, <1>10 DEF TokenInv, Keeps

(* A process that runs is in a call of its own, or in none.                *)
LEMMA RunningFacts ==
  ASSUME TokenInv, NEW p \in Pid
  PROVE  /\ Runs(p, "user") => p \notin Going /\ call[p].of # "signal"
         /\ use = "box" => Going = {} /\ Pending = {} /\ Asleep("sem") = {}
BY DEF TokenInv, SemInv, Whereabouts, Runs, Going, Pending, Asleep

(* sem_wait from the beginning of the call. *)
LEMMA sem_waitStep ==
  ASSUME TokenInv, UNCHANGED use, use = "sem", NEW p \in Pid, sem_wait(p)
  PROVE  TokenInv' /\ SemStep
<1>0. SemTypes /\ Runs(p, "user") /\ call[p].of # "signal"
  BY RunningFacts DEF TokenInv, SemInv, sem_wait
<1>1. CASE WaitsForMutex(p, "wait")
  <2> DEFINE of == "wait"
  <2> HIDE DEF of
  <2>1. of \in {"wait", "signal", "lock"} /\ of # "signal" /\ WaitsForMutex(p, of)
    BY <1>1 DEF of
  <2>2. SemInv' /\ Counted' /\ Keeps /\ Bounded'
    BY <1>0, <2>1, WaitsForMutexStep DEF Runs
  <2> QED BY <2>2 DEF TokenInv, SemStep
<1>2. CASE SemWaitGoesOn(p, Locked(p))
  <2>1. InCall(p, Locked(p))
    BY <1>0, LockedFacts DEF InCall, Runs, SemTypes
  <2>2. TokenInv' /\ (Joins(p) \/ Takes)
    BY <1>0, <1>2, <2>1, SemWaitGoesOnStep
  <2> QED BY <2>2 DEF SemStep
<1> QED BY <1>1, <1>2 DEF sem_wait

(* sem_signal from the beginning of the call. *)
LEMMA sem_signalStep ==
  ASSUME TokenInv, UNCHANGED use, use = "sem", NEW p \in Pid, sem_signal(p)
  PROVE  TokenInv' /\ SemStep
<1>0. /\ SemTypes /\ Runs(p, "user") /\ p \notin Pending
      /\ credit + Cardinality(Pending) < MaxTokens
  BY RunningFacts DEF TokenInv, SemInv, sem_signal, Pending
<1>1. CASE WaitsForMutex(p, "signal")
  <2> DEFINE of == "signal"
  <2> HIDE DEF of
  <2>1. of \in {"wait", "signal", "lock"} /\ of = "signal" /\ WaitsForMutex(p, of)
    BY <1>1 DEF of
  <2>2. SemInv' /\ Counted' /\ Keeps /\ Pending' = Pending \cup {p}
    BY <1>0, <2>1, WaitsForMutexStep DEF Runs
  <2>3. /\ IsFiniteSet(Pending) /\ Cardinality(Pending) \in Nat
        /\ credit \in Int /\ MaxTokens \in Nat
    BY <1>0, FS_CardinalityType, IpcAssumption DEF TokenInv, Bounded, SemTypes
  <2>4. /\ IsFiniteSet(Pending \cup {p})
        /\ Cardinality(Pending \cup {p}) = Cardinality(Pending) + 1
    BY <1>0, <2>3, FS_AddElement
  <2>5. credit' = credit
    BY <1>1 DEF WaitsForMutex
  <2>6. Bounded'
    BY <1>0, <2>2, <2>3, <2>4, <2>5 DEF Bounded
  <2> QED BY <2>2, <2>6 DEF TokenInv, SemStep
<1>2. CASE SemSignalGoesOn(p, Locked(p))
  <2>1. InCall(p, Locked(p))
    BY <1>0, LockedFacts DEF InCall, Runs, SemTypes
  <2>2. TokenInv' /\ (Gives \/ Counts)
    BY <1>0, <1>2, <2>1, SemSignalGoesOnStep DEF TokenInv
  <2> QED BY <2>2 DEF SemStep
<1> QED BY <1>1, <1>2 DEF sem_signal

(* A step of a process that is not asleep, touches nothing but the mutex   *)
(* and ends outside all calls.                                             *)
LEMMA MutexOnly ==
  ASSUME TokenInv, UNCHANGED <<use, credit>>, NEW p \in Pid,
         state[p] # "BLOCKED", p \notin Going, call[p].of # "signal",
         NEW W, W \subseteq Asleep("mutex"),
         NEW s \in {"READY", "FINISHED"},
         state' = [Resume(state, W) EXCEPT ![p] = s],
         call' = [call EXCEPT ![p] = User],
         Semaphore(sem'), sem'.value = sem.value, sem'.queue = sem.queue,
         NoneTwice(sem'.mutex.queue),
         Members(sem'.mutex.queue) \subseteq Members(sem.mutex.queue) \ W
  PROVE  TokenInv' /\ SemStep
<1> DEFINE c == User
<1>1. c.at = "user" /\ c.of # "signal"
  BY DEF User
<1> HIDE DEF c
<1>2. call' = [call EXCEPT ![p] = c] /\ UNCHANGED use /\ UNCHANGED credit
  BY DEF c
<1>3. s \in {"READY", "BLOCKED", "FINISHED"}
  OBVIOUS
<1>4. /\ c.at \in (IF use = "sem" THEN {"user", "mutex"} ELSE {"user"})
      /\ s = "FINISHED" => c.at = "user"
      /\ Members(sem'.mutex.queue) \subseteq
           (Members(sem.mutex.queue) \ W)
             \cup (IF s = "BLOCKED" /\ c.at = "mutex" THEN {p} ELSE {})
  BY <1>1
<1>5. W \in SUBSET Asleep("mutex")
  OBVIOUS
<1> QED BY <1>1, <1>2, <1>3, <1>4, <1>5, SemUntouched DEF SemStep

(* A program locks the mutex of the semaphore. *)
LEMMA mutex_lockStep ==
  ASSUME TokenInv, UNCHANGED use, use = "sem", NEW p \in Pid, mutex_lock(p)
  PROVE  TokenInv' /\ SemStep
<1>0. SemInv /\ SemTypes /\ InLists /\ Whereabouts /\ Runs(p, "user")
  BY DEF TokenInv, SemInv, mutex_lock
<1>1. CASE WaitsForMutex(p, "lock")
  <2> DEFINE of == "lock"
  <2> HIDE DEF of
  <2>1. of \in {"wait", "signal", "lock"} /\ of # "signal" /\ WaitsForMutex(p, of)
    BY <1>1 DEF of
  <2>2. SemInv' /\ Counted' /\ Keeps /\ Bounded'
    BY <1>0, <2>1, WaitsForMutexStep DEF Runs
  <2> QED BY <2>2 DEF TokenInv, SemStep
<1>2. CASE sem' = Locked(p) /\ UNCHANGED <<state, box, call, got, credit, wakes>>
  <2>1. /\ Semaphore(sem') /\ sem'.value = sem.value /\ sem'.queue = sem.queue
        /\ sem'.mutex.queue = sem.mutex.queue
    BY <1>0, <1>2, LockedFacts DEF SemTypes
  <2>2. SemTypes' /\ Whereabouts' /\ InLists' /\ Asleep("sem")' = Asleep("sem")
    BY <1>0, <1>2, <2>1 DEF SemTypes, Whereabouts, InLists, Asleep
  <2>3. Counted' /\ Bounded'
    BY <1>2, <2>1 DEF TokenInv, Counted, Bounded, Going, Pending, Runs
  <2> QED BY <2>1, <2>2, <2>3 DEF TokenInv, SemInv, SemStep, Keeps
<1> QED BY <1>1, <1>2 DEF mutex_lock

(* mutex_unlock on its own, by a program or by the death of its owner.     *)
LEMMA GivesUp ==
  ASSUME TokenInv, NEW p \in Pid
  PROVE  /\ Semaphore(Unlocked(sem, p))
         /\ Unlocked(sem, p).value = sem.value /\ Unlocked(sem, p).queue = sem.queue
         /\ NoneTwice(Unlocked(sem, p).mutex.queue)
         /\ UnlockWakes(sem, p) \subseteq Asleep("mutex")
         /\ Members(Unlocked(sem, p).mutex.queue)
              \subseteq Members(sem.mutex.queue) \ UnlockWakes(sem, p)
<1>1. Semaphore(sem) /\ InLists /\ NoneTwice(sem.mutex.queue)
  BY DEF TokenInv, SemInv, SemTypes, InLists
<1>2. /\ Semaphore(Unlocked(sem, p))
      /\ Unlocked(sem, p).value = sem.value /\ Unlocked(sem, p).queue = sem.queue
      /\ NoneTwice(Unlocked(sem, p).mutex.queue)
      /\ WokenByUnlock(sem, p) \ {NoPid} \subseteq Members(sem.mutex.queue)
      /\ Members(Unlocked(sem, p).mutex.queue)
           \subseteq Members(sem.mutex.queue) \ WokenByUnlock(sem, p)
  BY <1>1, UnlockedFacts
<1> QED BY <1>1, <1>2 DEF UnlockWakes, InLists

(* A program unlocks the mutex of the semaphore. *)
LEMMA mutex_unlockStep ==
  ASSUME TokenInv, UNCHANGED use, use = "sem", NEW p \in Pid, mutex_unlock(p)
  PROVE  TokenInv' /\ SemStep
<1> DEFINE s == "READY"  W == UnlockWakes(sem, p)
<1>0. SemTypes /\ Whereabouts /\ Runs(p, "user")
  BY DEF TokenInv, SemInv, mutex_unlock
<1>1. /\ sem' = Unlocked(sem, p) /\ credit' = credit /\ call' = call
      /\ state' = Resume(state, WokenByUnlock(sem, p))
  BY DEF mutex_unlock
<1>2. state' = [Resume(state, W) EXCEPT ![p] = s]
  <2>1. Resume(state, WokenByUnlock(sem, p)) = Resume(state, W)
    BY <1>0, ResumeFacts DEF UnlockWakes, Runs
  <2>2. Resume(state, W) = [Resume(state, W) EXCEPT ![p] = s]
    BY <1>0, ResumeFacts DEF Runs
  <2> QED BY <1>1, <2>1, <2>2
<1>3. p \notin Going /\ call[p].of # "signal" /\ state[p] # "BLOCKED"
  BY <1>0, RunningFacts DEF Runs
<1>4. /\ Semaphore(sem') /\ sem'.value = sem.value /\ sem'.queue = sem.queue
      /\ NoneTwice(sem'.mutex.queue) /\ W \subseteq Asleep("mutex")
      /\ Members(sem'.mutex.queue) \subseteq Members(sem.mutex.queue) \ W
  BY <1>1, GivesUp
<1> DEFINE c == call[p]
<1>5. /\ call' = [call EXCEPT ![p] = c] /\ UNCHANGED credit
      /\ c.at = "user" /\ c.of # "signal" /\ s \in {"READY", "BLOCKED", "FINISHED"}
  BY <1>0, <1>1, <1>3 DEF Runs, SemTypes
<1>6. /\ c.at \in (IF use = "sem" THEN {"user", "mutex"} ELSE {"user"})
      /\ s = "FINISHED" => c.at = "user"
      /\ Members(sem'.mutex.queue) \subseteq
           (Members(sem.mutex.queue) \ W)
             \cup (IF s = "BLOCKED" /\ c.at = "mutex" THEN {p} ELSE {})
      /\ W \in SUBSET Asleep("mutex")
  BY <1>4, <1>5
<1> HIDE DEF c, s, W
<1> QED BY <1>2, <1>3, <1>4, <1>5, <1>6, SemUntouched DEF SemStep

(* A call goes on that was blocked in mutex_lock. *)
LEMMA MutexLockReturnsStep ==
  ASSUME TokenInv, UNCHANGED use, use = "sem", NEW p \in Pid, MutexLockReturns(p)
  PROVE  TokenInv' /\ SemStep
<1>0. SemInv /\ SemTypes /\ InLists /\ Whereabouts /\ Counted /\ Bounded
  BY DEF TokenInv, SemInv
<1>1. /\ state[p] = "READY" /\ call[p].at = "mutex" /\ InCall(p, sem)
  BY <1>0 DEF MutexLockReturns, Runs, InCall, SemTypes
<1>2. CASE call[p].of = "wait"
  <2>1. SemWaitGoesOn(p, sem)
    BY <1>2 DEF MutexLockReturns
  <2> QED BY <1>1, <1>2, <2>1, SemWaitGoesOnStep DEF SemStep
<1>3. CASE call[p].of = "signal"
  <2>1. SemSignalGoesOn(p, sem)
    BY <1>3 DEF MutexLockReturns
  <2>2. TokenInv' /\ (Gives \/ Counts)
    BY <1>0, <1>1, <1>3, <2>1, SemSignalGoesOnStep
  <2> QED BY <2>2 DEF SemStep
<1>4. CASE call[p].of # "wait" /\ call[p].of # "signal"
  <2> DEFINE W == {}  s == "READY"
  <2>1. Returns(p) /\ UNCHANGED <<state, sem, box, got, credit, wakes>>
    BY <1>4 DEF MutexLockReturns
  <2>2. state' = [Resume(state, W) EXCEPT ![p] = s]
    BY <1>0, <1>1, <2>1 DEF Resume, SemTypes
  <2>3. /\ p \notin Going /\ state[p] # "BLOCKED"
        /\ W \subseteq Asleep("mutex") /\ s \in {"READY", "FINISHED"}
        /\ NoneTwice(sem'.mutex.queue) /\ Semaphore(sem')
        /\ Members(sem'.mutex.queue) \subseteq Members(sem.mutex.queue) \ W
    BY <1>0, <1>1, <2>1 DEF Going, Runs, InLists, SemTypes
  <2> HIDE DEF W, s
  <2> QED BY <1>4, <2>1, <2>2, <2>3, MutexOnly DEF Returns
<1> QED BY <1>2, <1>3, <1>4

(* A process that runs is killed, with the mutex or without it. *)
LEMMA KilledStep ==
  ASSUME Gentle, TokenInv, UNCHANGED use, NEW p \in Pid, Killed(p)
  PROVE  TokenInv' /\ SemStep
<1> DEFINE W == UnlockWakes(sem, p)  s == "FINISHED"
<1>0. SemTypes
  BY DEF TokenInv, SemInv
<1>1. /\ state[p] = "READY" /\ Runs(p, "user")
      /\ sem' = Unlocked(sem, p) /\ credit' = credit
      /\ call' = [call EXCEPT ![p] = User]
      /\ state' = [Resume(state, WokenByUnlock(sem, p)) EXCEPT ![p] = s]
  BY DEF Killed, Gentle, Runs, Returns
<1>2. state' = [Resume(state, W) EXCEPT ![p] = s]
  <2>1. Resume(state, WokenByUnlock(sem, p)) = Resume(state, W)
    BY <1>0, <1>1, ResumeFacts DEF UnlockWakes
  <2> QED BY <1>1, <2>1
<1>3. p \notin Going /\ call[p].of # "signal" /\ state[p] # "BLOCKED" /\ s \in {"READY", "FINISHED"}
  BY <1>1, RunningFacts
<1>4. /\ Semaphore(sem') /\ sem'.value = sem.value /\ sem'.queue = sem.queue
      /\ NoneTwice(sem'.mutex.queue) /\ W \subseteq Asleep("mutex")
      /\ Members(sem'.mutex.queue) \subseteq Members(sem.mutex.queue) \ W
  BY <1>1, GivesUp
<1> HIDE DEF W, s
<1> QED BY <1>1, <1>2, <1>3, <1>4, MutexOnly

(* A slot of the process table is used again. *)
LEMMA CreatedStep ==
  ASSUME TokenInv, UNCHANGED use, NEW p \in Pid, Created(p)
  PROVE  TokenInv' /\ SemStep
<1> DEFINE W == {}  s == "READY"  c == call[p]
<1>0. SemInv /\ SemTypes /\ InLists /\ Whereabouts
  BY DEF TokenInv, SemInv
<1>1. /\ state[p] = "FINISHED" /\ call[p].at = "user" /\ call[p].of # "signal"
      /\ state' = [state EXCEPT ![p] = "READY"]
      /\ sem' = sem /\ credit' = credit /\ call' = call
  BY <1>0 DEF Created, Whereabouts
<1>2. state' = [Resume(state, W) EXCEPT ![p] = s] /\ call' = [call EXCEPT ![p] = c]
  <2>1. Resume(state, W) = state
    BY <1>0 DEF Resume, SemTypes
  <2> QED BY <1>0, <1>1, <2>1 DEF SemTypes
<1>3. /\ p \notin Going /\ state[p] # "BLOCKED" /\ c.at = "user" /\ c.of # "signal"
      /\ W \in SUBSET Asleep("mutex") /\ s \in {"READY", "BLOCKED", "FINISHED"}
      /\ c.at \in (IF use = "sem" THEN {"user", "mutex"} ELSE {"user"})
      /\ s = "FINISHED" => c.at = "user"
      /\ NoneTwice(sem'.mutex.queue) /\ Semaphore(sem')
      /\ Members(sem'.mutex.queue) \subseteq
           (Members(sem.mutex.queue) \ W)
             \cup (IF s = "BLOCKED" /\ c.at = "mutex" THEN {p} ELSE {})
  BY <1>0, <1>1 DEF Going, Runs, InLists, SemTypes
<1>4. call[p].of # "signal" /\ sem'.value = sem.value /\ sem'.queue = sem.queue /\ UNCHANGED credit
  BY <1>1
<1> HIDE DEF W, s, c
<1> QED BY <1>2, <1>3, <1>4, SemUntouched DEF SemStep

(* The steps of those who use the mailbox do not concern the semaphore.    *)
LEMMA MailboxOnly ==
  ASSUME TokenInv, UNCHANGED <<use, sem, credit>>, use = "box",
         state' \in [Pid -> {"READY", "BLOCKED", "FINISHED"}],
         \A p \in Pid : state'[p] = "FINISHED" => state[p] = "FINISHED",
         \/ call' = call
         \/ \E p \in Pid : /\ state[p] # "FINISHED" /\ state'[p] # "FINISHED"
                           /\ \E c \in {"user", "box"} : \E n :
                                call' = [call EXCEPT ![p] =
                                  [at |-> c, of |-> IF c = "box" THEN "read" ELSE "none",
                                   bytes |-> n]]
  PROVE  TokenInv' /\ SemStep
<1>0. SemInv /\ SemTypes /\ InLists /\ Whereabouts
  BY DEF TokenInv, SemInv
<1>1. /\ call' = [q \in Pid |-> call'[q]]
      /\ \A q \in Pid : /\ call'[q].at \in {"user", "box"} /\ call'[q].of # "signal"
                        /\ state'[q] = "FINISHED" => call'[q].at = "user"
  <2>1. CASE call' = call
    BY <1>0, <2>1 DEF SemTypes, Whereabouts
  <2>2. CASE call' # call
    <3>0. PICK p \in Pid, c \in {"user", "box"} :
             /\ state[p] # "FINISHED" /\ state'[p] # "FINISHED"
             /\ \E n : call' = [call EXCEPT ![p] =
                  [at |-> c, of |-> IF c = "box" THEN "read" ELSE "none", bytes |-> n]]
      BY <2>2
    <3>1. PICK n : call' = [call EXCEPT ![p] =
                  [at |-> c, of |-> IF c = "box" THEN "read" ELSE "none", bytes |-> n]]
      BY <3>0
    <3>2. DOMAIN call = Pid /\ call' = [q \in Pid |-> call'[q]]
      BY <1>0, <3>1 DEF SemTypes
    <3>3. ASSUME NEW q \in Pid
          PROVE  /\ call'[q].at \in {"user", "box"} /\ call'[q].of # "signal"
                 /\ state'[q] = "FINISHED" => call'[q].at = "user"
      <4>1. CASE q = p
        <5>1. call'[q] =
                [at |-> c, of |-> IF c = "box" THEN "read" ELSE "none", bytes |-> n]
          BY <3>1, <3>2, <4>1
        <5> QED BY <3>0, <4>1, <5>1
      <4>2. CASE q # p
        BY <1>0, <3>1, <3>2, <4>2 DEF Whereabouts
      <4> QED BY <4>1, <4>2
    <3> QED BY <3>2, <3>3
  <2> QED BY <2>1, <2>2
<1>2. Asleep("sem") = {} /\ Asleep("mutex") = {} /\ Going = {} /\ Pending = {}
  BY <1>0 DEF Whereabouts, Asleep, Going, Runs, Pending
<1>3. Asleep("sem")' = {} /\ Asleep("mutex")' = {} /\ Going' = {} /\ Pending' = {}
  BY <1>1 DEF Asleep, Going, Runs, Pending
<1>4. SemTypes'
  BY <1>0, <1>1 DEF SemTypes
<1>5. Whereabouts'
  BY <1>0, <1>1 DEF Whereabouts
<1>6. InLists'
  BY <1>0, <1>2, <1>3 DEF InLists
<1>7. Counted' /\ Bounded' /\ Keeps
  BY <1>2, <1>3 DEF TokenInv, Counted, Bounded, Keeps
<1> QED BY <1>4, <1>5, <1>6, <1>7 DEF TokenInv, SemInv, SemStep

(* The steps of read_message and write_message. *)
LEMMA UsesMailboxStep ==
  ASSUME TokenInv, UNCHANGED use, use = "box", NEW p \in Pid, UsesMailbox(p)
  PROVE  TokenInv' /\ SemStep
<1>0. SemTypes
  BY DEF TokenInv, SemInv
<1>1. ASSUME NEW n, ReadGoesOn(p, n), state[p] = "READY"
      PROVE  TokenInv' /\ SemStep
  <2>1. CASE readable_bytes < n
    <3> DEFINE c == "box"
    <3>1. /\ state' = [state EXCEPT ![p] = "BLOCKED"]
          /\ call' = [call EXCEPT ![p] = [at |-> c, of |-> "read", bytes |-> n]]
          /\ UNCHANGED <<use, sem, credit>>
      BY <1>1, <2>1 DEF ReadGoesOn, Block, GoesTo
    <3>2. /\ c \in {"user", "box"}
          /\ call' = [call EXCEPT ![p] =
               [at |-> c, of |-> IF c = "box" THEN "read" ELSE "none", bytes |-> n]]
      BY <3>1
    <3>3. /\ state' \in [Pid -> {"READY", "BLOCKED", "FINISHED"}]
          /\ \A q \in Pid : state'[q] = "FINISHED" => state[q] = "FINISHED"
          /\ state[p] # "FINISHED" /\ state'[p] # "FINISHED"
      BY <1>0, <1>1, <3>1 DEF SemTypes
    <3>4. UNCHANGED <<use, sem, credit>>
      BY <3>1
    <3> HIDE DEF c
    <3> QED BY <3>2, <3>3, <3>4, MailboxOnly
  <2>2. CASE ~ (readable_bytes < n)
    <3> DEFINE c == "user"  m == 0
    <3>1. /\ state' = state
          /\ call' = [call EXCEPT ![p] = [at |-> c, of |-> "none", bytes |-> m]]
          /\ UNCHANGED <<use, sem, credit>>
      BY <1>1, <2>2 DEF ReadGoesOn, Returns, User
    <3>2. /\ c \in {"user", "box"}
          /\ call' = [call EXCEPT ![p] =
               [at |-> c, of |-> IF c = "box" THEN "read" ELSE "none", bytes |-> m]]
      BY <3>1
    <3>3. /\ state' \in [Pid -> {"READY", "BLOCKED", "FINISHED"}]
          /\ \A q \in Pid : state'[q] = "FINISHED" => state[q] = "FINISHED"
          /\ state[p] # "FINISHED" /\ state'[p] # "FINISHED"
      BY <1>0, <1>1, <3>1 DEF SemTypes
    <3>4. UNCHANGED <<use, sem, credit>>
      BY <3>1
    <3> HIDE DEF c, m
    <3> QED BY <3>2, <3>3, <3>4, MailboxOnly
  <2> QED BY <2>1, <2>2
<1>2. ASSUME NEW msg \in Message, write_message(p, msg)
      PROVE  TokenInv' /\ SemStep
  <2>1. PICK S \in SUBSET PidOrNone : state' = Resume(state, S)
    BY <1>2 DEF write_message
  <2>2. /\ state' \in [Pid -> {"READY", "BLOCKED", "FINISHED"}]
        /\ \A q \in Pid : state'[q] = "FINISHED" => state[q] = "FINISHED"
    BY <1>0, <2>1 DEF SemTypes, Resume
  <2>3. call' = call /\ UNCHANGED <<use, sem, credit>>
    BY <1>2 DEF write_message
  <2> QED BY <2>2, <2>3, MailboxOnly
<1> QED BY <1>1, <1>2 DEF UsesMailbox, Reread, read_message, Runs

(* In a gentle workload children wake readers only. *)
LEMMA ChildReturnsStep ==
  ASSUME Gentle, TokenInv, UNCHANGED use, NEW p \in Pid, ChildReturns(p)
  PROVE  use = "box" /\ TokenInv' /\ SemStep
<1>0. SemTypes /\ Whereabouts
  BY DEF TokenInv, SemInv
<1>1. call[p].at = "box"
  BY DEF ChildReturns, Gentle
<1>2. use = "box"
  BY <1>0, <1>1 DEF Whereabouts, SemTypes
<1>3. /\ state' \in [Pid -> {"READY", "BLOCKED", "FINISHED"}]
      /\ \A q \in Pid : state'[q] = "FINISHED" => state[q] = "FINISHED"
  BY <1>0 DEF SemTypes, Resume, ChildReturns
<1>4. call' = call /\ UNCHANGED <<use, sem, credit>>
  BY DEF ChildReturns
<1> QED BY <1>2, <1>3, <1>4, MailboxOnly

(* Every step keeps the count of the tokens, and is one of those above.    *)
LEMMA TokenStep ==
  ASSUME Gentle, TokenInv, [Next]_vars
  PROVE  TokenInv' /\ SemStep
<1>1. CASE Next
  <2>1. UNCHANGED use /\ use \in {"sem", "box"}
    BY <1>1 DEF Next, TokenInv, SemInv, SemTypes
  <2>2. PICK p \in Pid :
          \/ use = "sem" /\ UsesSemaphore(p)
          \/ use = "box" /\ UsesMailbox(p)
          \/ ChildReturns(p) \/ Killed(p) \/ Created(p)
    BY <1>1 DEF Next
  <2>3. CASE use = "sem" /\ UsesSemaphore(p)
    <3>1. CASE sem_wait(p)           BY <2>1, <2>3, <3>1, sem_waitStep
    <3>2. CASE sem_signal(p)         BY <2>1, <2>3, <3>2, sem_signalStep
    <3>3. CASE mutex_lock(p)         BY <2>1, <2>3, <3>3, mutex_lockStep
    <3>4. CASE mutex_unlock(p)       BY <2>1, <2>3, <3>4, mutex_unlockStep
    <3>5. CASE MutexLockReturns(p)   BY <2>1, <2>3, <3>5, MutexLockReturnsStep
    <3>6. CASE SemWaitReturns(p)
      BY <2>1, <2>3, <3>6, SemWaitReturnsStep DEF SemStep
    <3> QED BY <2>3, <3>1, <3>2, <3>3, <3>4, <3>5, <3>6 DEF UsesSemaphore
  <2>4. CASE use = "box" /\ UsesMailbox(p)
    BY <2>1, <2>4, UsesMailboxStep
  <2>5. CASE ChildReturns(p)   BY <2>1, <2>5, ChildReturnsStep
  <2>6. CASE Killed(p)         BY <2>1, <2>6, KilledStep
  <2>7. CASE Created(p)        BY <2>1, <2>7, CreatedStep
  <2> QED BY <2>2, <2>3, <2>4, <2>5, <2>6, <2>7
<1>2. CASE UNCHANGED vars
  <2>1. UNCHANGED <<state, sem, call, credit, use>>
    BY <1>2 DEF vars
  <2>2. Going' = Going /\ Pending' = Pending /\ \A at : Asleep(at)' = Asleep(at)
    BY <2>1 DEF Going, Pending, Asleep, Runs
  <2>3. SemTypes' /\ Whereabouts' /\ InLists'
    BY <2>1, <2>2 DEF TokenInv, SemInv, SemTypes, Whereabouts, InLists
  <2>4. Counted' /\ Bounded' /\ Keeps
    BY <2>1, <2>2 DEF TokenInv, Counted, Bounded, Keeps
  <2> QED BY <2>3, <2>4 DEF TokenInv, SemInv, SemStep
<1> QED BY <1>1, <1>2

(* The semaphore when it is created. *)
LEMMA TokensBegin ==
  ASSUME Init
  PROVE  TokenInv
<1>1. /\ state = [p \in Pid |-> "READY"] /\ call = [p \in Pid |-> User]
      /\ sem = [value |-> StartValue, queue |-> EmptyQueue, mutex |-> FreeMutex]
      /\ credit = StartValue /\ use \in {"sem", "box"}
      /\ StartValue \in Nat /\ MaxTokens \in Nat /\ StartValue <= MaxTokens
  BY IpcAssumption DEF Init
<1>2. EmptyQueue \in Queue /\ FreeMutex \in MutexStruct /\ FreeMutex.queue = EmptyQueue
  BY QueueAssumption DEF EmptyQueue, Queue, FreeMutex, MutexStruct, Slots, PidOrNone
<1>3. NoneTwice(EmptyQueue) /\ Members(EmptyQueue) = {}
  BY DEF EmptyQueue, NoneTwice, Members, Slots
<1>4. SemTypes /\ Whereabouts
  BY <1>1, <1>2 DEF SemTypes, Semaphore, Whereabouts, User
<1>5. Going = {} /\ Pending = {}
  BY <1>1 DEF Going, Runs, Pending, User
<1>6. InLists
  BY <1>1, <1>2, <1>3 DEF InLists
<1>7. IsFiniteSet({}) /\ Cardinality({}) = 0
  BY FS_EmptySet
<1> QED BY <1>1, <1>4, <1>5, <1>6, <1>7 DEF TokenInv, SemInv, Counted, Bounded

(* No token appears and none is lost, between the value, the line and the  *)
(* processes on their way out of sem_wait, whoever locks the mutex of the  *)
(* semaphore and however full its lists are (sem.c:71-118).                *)
THEOREM TokensSoundHolds ==
  ASSUME Gentle
  PROVE  Spec => []TokensSound
<1>1. Init => TokenInv
  BY TokensBegin
<1>2. TokenInv /\ [Next]_vars => TokenInv'
  BY TokenStep
<1>3. TokenInv => TokensSound
  BY DEF TokenInv, Counted, TokensSound, Going
<1> QED BY <1>1, <1>2, <1>3, PTL DEF Spec

-----------------------------------------------------------------------------
(* The line of a semaphore, and the readers of a mailbox *)

\* No more processes are alive, and no more readers were woken by a child
\* without their message, than there are places in a list.
Few ==
  LET alive == {p \in Pid : state[p] # "FINISHED"}
  IN  /\ IsFiniteSet(alive)
      /\ Cardinality(alive) + wakes <= PROCESS_QUEUE_SIZE

\* Who sleeps for a token is in the list, and nobody is while one is free.
LineInv ==
  /\ \E n : Holds(sem.queue, n)
  /\ Asleep("sem") \subseteq Members(sem.queue)
  /\ sem.value > 0 => Members(sem.queue) = {}

\* The list of a mailbox holds all its sleeping readers, and no more entries
\* than there are such readers and were others that a child woke.
ReaderInv ==
  /\ wakes \in Nat
  /\ box.list \in [Slots -> PidOrNone] /\ box.index \in Nat
  /\ IsFiniteSet(Asleep("box"))
  /\ box.index <= Cardinality(Asleep("box")) + wakes
  /\ ReadersInList

(* Room in a list for those who sleep there and one more.                  *)
LEMMA Room ==
  ASSUME Few, wakes \in Nat, NEW S, S \subseteq {p \in Pid : state[p] # "FINISHED"}
  PROVE  IsFiniteSet(S) /\ Cardinality(S) \in Nat /\ Cardinality(S) + wakes <= PROCESS_QUEUE_SIZE
<1> DEFINE alive == {p \in Pid : state[p] # "FINISHED"}
<1>1. IsFiniteSet(alive) /\ Cardinality(alive) + wakes <= PROCESS_QUEUE_SIZE
  BY DEF Few
<1> HIDE DEF alive
<1>2. S \subseteq alive
  BY DEF alive
<1>3. IsFiniteSet(S) /\ Cardinality(S) <= Cardinality(alive)
  BY <1>1, <1>2, FS_Subset
<1>4. Cardinality(S) \in Nat /\ Cardinality(alive) \in Nat
  BY <1>1, <1>3, FS_CardinalityType
<1> QED BY <1>1, <1>3, <1>4, QueueAssumption

(* The list grows and shrinks in the order of a line, and holds the       *)
(* sleepers all the time.                                                 *)
LEMMA LineStep ==
  ASSUME TokenInv, LineInv, Few, wakes \in Nat, SemStep
  PROVE  LineInv' /\ [Counting!Next]_(Counting!vars)
<1> DEFINE q == sem.queue
<1>1. PICK n : Holds(q, n)
  BY DEF LineInv
<1>2. /\ q \in Queue /\ NoneTwice(q) /\ Members(q) = Asleep("sem")
      /\ sem.value \in Nat /\ SemTypes /\ InLists
      /\ sem.value > 0 => Members(q) = {}
      /\ n \in 0 .. PROCESS_QUEUE_SIZE
  BY <1>1 DEF TokenInv, LineInv, SemInv, SemTypes, Semaphore, InLists, Holds
<1>3. IsFiniteSet(Members(q)) /\ Cardinality(Members(q)) = n
  BY <1>1, <1>2, MembersHolds
<1>4. CASE \E p \in Pid : Joins(p)
  <2>1. PICK p \in Pid : Joins(p)
    BY <1>4
  <2>2. p \notin Members(q) /\ p \notin Asleep("sem") /\ state[p] = "READY"
    BY <2>1 DEF Joins, Asleep
  <2>3. n < PROCESS_QUEUE_SIZE
    <3>1. Asleep("sem") \cup {p} \subseteq {r \in Pid : state[r] # "FINISHED"}
      BY <2>2 DEF Asleep
    <3>2. Cardinality(Members(q) \cup {p}) = n + 1
      BY <1>3, <2>2, FS_AddElement
    <3>3. Cardinality(Members(q) \cup {p}) + wakes <= PROCESS_QUEUE_SIZE
      BY <1>2, <3>1, Room
    <3> QED BY <1>2, <3>2, <3>3, QueueAssumption
  <2>4. /\ Holds(Push(q, p), n + 1)
        /\ NoneTwice(Push(q, p))
        /\ LineOf(Push(q, p)) = Append(LineOf(q), p)
    BY <1>1, <1>2, <2>2, <2>3, PushHolds, PushLine
  <2>5. sem'.queue = Push(q, p) /\ sem'.value = 0 /\ sem.value = 0
        /\ Asleep("sem")' = Asleep("sem") \cup {p}
    BY <2>1 DEF Joins
  <2>6. Members(q) \cup {p} \subseteq Members(Push(q, p))
    <3>1. /\ q.slot[q.free] = NoPid
          /\ \A i \in Slots : Push(q, p).slot[i] = IF i = q.free THEN p ELSE q.slot[i]
          /\ q.free \in Slots
      BY <1>1, <1>2, <2>3, PushHolds, PushSlots DEF Queue
    <3> QED BY <3>1, QueueAssumption DEF Members
  <2>7. LineInv'
    BY <1>2, <2>4, <2>5, <2>6 DEF LineInv
  <2>8. Counting!Join(p)
    BY <2>4, <2>5 DEF Counting!Join
  <2> QED BY <2>7, <2>8 DEF Counting!Next
<1>5. CASE Gives
  <2>1. /\ Front(q) # NoPid /\ n > 0
        /\ sem'.queue = Drop(q) /\ sem'.value = sem.value
        /\ Asleep("sem")' = Asleep("sem") \ {Front(q)}
    BY <1>1, <1>2, <1>5, FrontHolds DEF Gives, HasWaiter
  <2>2. /\ Holds(Drop(q), n - 1) /\ LineOf(Drop(q)) = Tail(LineOf(q))
        /\ LineOf(q) # <<>> /\ Members(Drop(q)) = Members(q) \ {Front(q)}
    BY <1>1, <1>2, <2>1, DropHolds, DropLine, FrontLine, DropMembers
  <2>3. LineInv'
    BY <1>2, <2>1, <2>2 DEF LineInv
  <2>4. Counting!Give
    BY <2>1, <2>2 DEF Counting!Give
  <2> QED BY <2>3, <2>4 DEF Counting!Next
<1>6. CASE Counts
  <2>1. /\ Front(q) = NoPid /\ n = 0
        /\ sem'.queue = q /\ sem'.value = sem.value + 1
        /\ Asleep("sem")' = Asleep("sem")
    BY <1>1, <1>2, <1>6, FrontHolds DEF Counts, HasWaiter
  <2>2. LineOf(q) = <<>>
    BY <1>1, <1>2, <2>1, FrontLine
  <2>3. Members(q) = {}
    BY <1>3, <2>1, FS_EmptySet
  <2>4. LineInv'
    BY <1>1, <1>2, <2>1, <2>3 DEF LineInv
  <2>5. Counting!Give
    BY <2>1, <2>2 DEF Counting!Give
  <2> QED BY <2>4, <2>5 DEF Counting!Next
<1>7. CASE Takes
  <2>1. /\ sem.value > 0 /\ sem'.queue = q /\ sem'.value = sem.value - 1
        /\ Asleep("sem")' = Asleep("sem")
    BY <1>7 DEF Takes
  <2>2. LineInv'
    BY <1>1, <1>2, <2>1 DEF LineInv
  <2>3. Counting!Take
    BY <2>1 DEF Counting!Take
  <2> QED BY <2>2, <2>3 DEF Counting!Next
<1>8. CASE Keeps
  <2>1. sem'.queue = q /\ sem'.value = sem.value /\ Asleep("sem")' = Asleep("sem")
    BY <1>8 DEF Keeps
  <2>2. LineInv'
    BY <1>1, <1>2, <2>1 DEF LineInv
  <2>3. UNCHANGED Counting!vars
    BY <2>1 DEF Counting!vars
  <2> QED BY <2>2, <2>3
<1> QED BY <1>4, <1>5, <1>6, <1>7, <1>8 DEF SemStep

(* What is asleep in read_message, and the list, after the steps that      *)
(* leave mailbox and calls alone.                                          *)
LEMMA ReadersStay ==
  ASSUME ReaderInv, UNCHANGED <<box, wakes>>, Asleep("box")' = Asleep("box"),
         \A p \in Asleep("box") : call'[p].bytes = call[p].bytes
  PROVE  ReaderInv'
<1>1. \A p \in Pid : (state'[p] = "BLOCKED" /\ call'[p].at = "box") =>
                       (state[p] = "BLOCKED" /\ call[p].at = "box" /\ p \in Asleep("box"))
  BY DEF Asleep
<1>2. ReadersInList'
  BY <1>1 DEF ReaderInv, ReadersInList, readable_bytes
<1> QED BY <1>2 DEF ReaderInv

(* read_message blocked: the reader is the last of the list.               *)
LEMMA ReaderSleeps ==
  ASSUME TokenInv, MailboxInv, ReaderInv, Few, NEW p \in Pid, state[p] = "READY",
         NEW n \in Nat, readable_bytes < n, ReadGoesOn(p, n)
  PROVE  ReaderInv'
<1>1. PICK k : Listed(k, p)
  BY DEF ReadGoesOn
<1>2. /\ state' = [state EXCEPT ![p] = "BLOCKED"] /\ wakes' = wakes
      /\ call' = [call EXCEPT ![p] = [at |-> "box", of |-> "read", bytes |-> n]]
  BY DEF ReadGoesOn, Block, GoesTo
<1>3. DOMAIN state = Pid /\ DOMAIN call = Pid
  BY DEF TokenInv, SemInv, SemTypes
<1>4. p \notin Asleep("box") /\ Asleep("box")' = Asleep("box") \cup {p}
  BY <1>2, <1>3 DEF Asleep
<1>5. /\ IsFiniteSet(Asleep("box")') /\ Cardinality(Asleep("box")) \in Nat
      /\ Cardinality(Asleep("box")') = Cardinality(Asleep("box")) + 1
  BY <1>4, FS_AddElement, FS_CardinalityType DEF ReaderInv
<1>6. /\ box.index < PROCESS_QUEUE_SIZE /\ box.index \in Slots
      /\ box.index \in Nat /\ wakes \in Nat
      /\ box.index <= Cardinality(Asleep("box")) + wakes
  <2>1. Asleep("box") \cup {p} \subseteq {r \in Pid : state[r] # "FINISHED"}
    BY DEF Asleep
  <2>2. wakes \in Nat /\ box.index \in Nat
        /\ box.index <= Cardinality(Asleep("box")) + wakes
    BY DEF ReaderInv
  <2>3. Cardinality(Asleep("box") \cup {p}) + wakes <= PROCESS_QUEUE_SIZE
    BY <2>1, <2>2, Room
  <2> QED BY <1>4, <1>5, <2>2, <2>3, QueueAssumption DEF Slots
<1>7. /\ box'.list = [box.list EXCEPT ![box.index] = p] /\ box'.index = box.index + 1
      /\ box'.empty = box.empty
  BY <1>1, <1>6 DEF Listed, MailboxInv, RingSound
<1>8. box'.list \in [Slots -> PidOrNone] /\ box'.index \in Nat
  BY <1>6, <1>7 DEF ReaderInv, PidOrNone
<1>9. ReadersInList'
  <2> SUFFICES ASSUME NEW r \in Pid, state'[r] = "BLOCKED" /\ call'[r].at = "box"
               PROVE  /\ readable_bytes' < call'[r].bytes
                      /\ \E i \in Slots : i < box'.index /\ box'.list[i] = r
    BY DEF ReadersInList
  <2>1. readable_bytes' = readable_bytes
    BY <1>7 DEF readable_bytes
  <2>2. CASE r = p
    <3>1. call'[r].bytes = n
      BY <1>2, <1>3, <2>2
    <3>2. box'.list[box.index] = p /\ box.index < box'.index
      BY <1>6, <1>7 DEF ReaderInv
    <3> QED BY <1>6, <2>1, <2>2, <3>1, <3>2
  <2>3. CASE r # p
    <3>1. call'[r] = call[r] /\ state'[r] = state[r]
      BY <1>2, <1>3, <2>3
    <3>2. readable_bytes < call[r].bytes
          /\ \E i \in Slots : i < box.index /\ box.list[i] = r
      BY <3>1 DEF ReaderInv, ReadersInList
    <3>3. PICK i \in Slots : i < box.index /\ box.list[i] = r
      BY <3>2
    <3>4. i < box'.index /\ box'.list[i] = r
      BY <1>6, <1>7, <3>3 DEF ReaderInv, Slots
    <3> QED BY <2>1, <3>1, <3>2, <3>4
  <2> QED BY <2>2, <2>3
<1> QED BY <1>2, <1>5, <1>6, <1>7, <1>8, <1>9 DEF ReaderInv

(* write_message leaves nobody asleep, and an empty list.                  *)
LEMMA WriterWakesAll ==
  ASSUME TokenInv, MailboxInv, ReaderInv, NEW p \in Pid, NEW msg \in Message,
         write_message(p, msg), box.index <= PROCESS_QUEUE_SIZE
  PROVE  ReaderInv'
<1>1. PICK S \in SUBSET PidOrNone : Woken(S) /\ state' = Resume(state, S)
  BY DEF write_message
<1>2. /\ call' = call /\ wakes' = wakes
      /\ box'.list = box.list /\ box'.index = 0
  BY DEF write_message, MailboxInv, RingSound
<1>3. Asleep("box")' = {}
  <2> SUFFICES ASSUME NEW r \in Pid, state'[r] = "BLOCKED", call'[r].at = "box"
               PROVE  FALSE
    BY DEF Asleep
  <2>1. state[r] = "BLOCKED" /\ r \notin S
    BY <1>1 DEF Resume
  <2>2. PICK i \in Slots : i < box.index /\ box.list[i] = r
    BY <1>2, <2>1 DEF ReaderInv, ReadersInList
  <2>3. r \in S
    BY <1>1, <2>2 DEF Woken
  <2> QED BY <2>1, <2>3
<1>4. IsFiniteSet({}) /\ Cardinality({}) = 0
  BY FS_EmptySet
<1>5. ReadersInList'
  BY <1>3 DEF ReadersInList, Asleep
<1> QED BY <1>2, <1>3, <1>4, <1>5 DEF ReaderInv

(* A reader that gets its bytes leaves less for those who sleep. *)
LEMMA ReaderGets ==
  ASSUME MailboxInv, ReaderInv, NEW p \in Pid, state[p] = "READY",
         NEW n \in Nat, ~ (readable_bytes < n), ReadGoesOn(p, n)
  PROVE  ReaderInv'
<1>1. /\ state' = state /\ wakes' = wakes /\ call' = [call EXCEPT ![p] = User]
      /\ box'.list = box.list /\ box'.index = box.index /\ box'.empty = box.empty + n
  BY DEF ReadGoesOn, Returns, MailboxInv, RingSound
<1>2. DOMAIN call = Pid /\ \A q \in Pid : call[q].bytes \in Nat
  <2>1. call = [q \in Pid |-> call[q]] /\ \A q \in Pid : call[q].bytes \in Nat
    BY DEF MailboxInv, Asked
  <2> QED BY <2>1
<1>3. \A r \in Pid : /\ r # p => call'[r] = call[r]
                     /\ r = p => state'[r] # "BLOCKED"
  BY <1>1, <1>2
<1>4. Asleep("box")' = Asleep("box")
  BY <1>1, <1>3 DEF Asleep
<1>5. ReadersInList'
  <2> SUFFICES ASSUME NEW r \in Pid, state'[r] = "BLOCKED" /\ call'[r].at = "box"
               PROVE  /\ readable_bytes' < call'[r].bytes
                      /\ \E i \in Slots : i < box'.index /\ box'.list[i] = r
    BY DEF ReadersInList
  <2>1. call'[r] = call[r] /\ state[r] = "BLOCKED"
    BY <1>1, <1>3
  <2>2. readable_bytes < call[r].bytes /\ \E i \in Slots : i < box.index /\ box.list[i] = r
    BY <2>1 DEF ReaderInv, ReadersInList
  <2>3. readable_bytes' = readable_bytes - n /\ readable_bytes \in Nat
    BY <1>1, IpcAssumption DEF readable_bytes, MailboxInv, RingSound
  <2>4. readable_bytes' < call'[r].bytes
    BY <1>2, <2>1, <2>2, <2>3
  <2> QED BY <1>1, <2>2, <2>4
<1> QED BY <1>1, <1>4, <1>5 DEF ReaderInv

(* Every step keeps the readers in the list. *)
LEMMA ReaderStep ==
  ASSUME Gentle, TokenInv, TokenInv', MailboxInv, ReaderInv, Few, [Next]_vars
  PROVE  ReaderInv'
<1>0. SemTypes /\ Whereabouts
  BY DEF TokenInv, SemInv
<1>1. CASE Next
  <2>1. UNCHANGED use /\ use \in {"sem", "box"}
    BY <1>0, <1>1 DEF Next, SemTypes
  <2>2. PICK p \in Pid :
          \/ use = "sem" /\ UsesSemaphore(p)
          \/ use = "box" /\ UsesMailbox(p)
          \/ ChildReturns(p) \/ Killed(p) \/ Created(p)
    BY <1>1 DEF Next
  <2>3. CASE use = "box" /\ UsesMailbox(p)
    <3>1. ASSUME NEW n \in Nat, ReadGoesOn(p, n), state[p] = "READY" PROVE ReaderInv'
      BY <3>1, ReaderSleeps, ReaderGets
    <3>2. CASE Reread(p)
      BY <3>1, <3>2 DEF Reread, Runs, MailboxInv, Asked
    <3>3. CASE \E msg \in Message : write_message(p, msg)
      <4>1. Cardinality(Asleep("box")) + wakes <= PROCESS_QUEUE_SIZE
            /\ Cardinality(Asleep("box")) \in Nat
        <5>1. Asleep("box") \subseteq {r \in Pid : state[r] # "FINISHED"}
          BY DEF Asleep
        <5> QED BY <5>1, Room DEF ReaderInv
      <4>2. box.index <= PROCESS_QUEUE_SIZE
        BY <4>1, QueueAssumption DEF ReaderInv
      <4> QED BY <3>3, <4>2, WriterWakesAll
    <3>4. CASE \E n \in 0 .. MAILBOX_BUFFER_SIZE : read_message(p, n)
      BY <3>1, <3>4, IpcAssumption DEF read_message, Runs
    <3> QED BY <2>3, <3>2, <3>3, <3>4 DEF UsesMailbox
  <2>4. CASE use = "box" /\ ChildReturns(p)
    <3>1. /\ state' = Resume(state, {p}) /\ state[p] = "BLOCKED" /\ call' = call
          /\ box' = box /\ wakes' = wakes + 1 /\ call[p].at = "box"
      BY <2>4 DEF ChildReturns, Gentle
    <3>2. p \in Asleep("box") /\ Asleep("box")' = Asleep("box") \ {p}
      BY <3>1 DEF Asleep, Resume
    <3>3. /\ IsFiniteSet(Asleep("box")') /\ Cardinality(Asleep("box")) \in Nat
          /\ Cardinality(Asleep("box")') = Cardinality(Asleep("box")) - 1
      BY <3>2, FS_RemoveElement, FS_CardinalityType DEF ReaderInv
    <3>4. ReadersInList'
      <4>1. \A r \in Pid : state'[r] = "BLOCKED" => state[r] = "BLOCKED"
        BY <3>1 DEF Resume
      <4> QED BY <3>1, <4>1 DEF ReaderInv, ReadersInList, readable_bytes
    <3> QED BY <3>1, <3>3, <3>4 DEF ReaderInv
  <2>5. CASE use = "box" /\ Killed(p)
    <3>1. /\ state[p] = "READY" /\ UNCHANGED <<box, wakes>>
          /\ call' = [call EXCEPT ![p] = User]
          /\ state' = [Resume(state, WokenByUnlock(sem, p)) EXCEPT ![p] = "FINISHED"]
      BY <2>5 DEF Killed, Gentle, Runs, Returns
    <3>2. Asleep("mutex") = {}
      BY <1>0, <2>5 DEF Whereabouts, Asleep
    <3>3. UnlockWakes(sem, p) = {}
      BY <3>2, GivesUp
    <3>4. Resume(state, WokenByUnlock(sem, p)) = state
      <4>1. Resume(state, WokenByUnlock(sem, p)) = Resume(state, {})
        BY <1>0, <3>1, <3>3, ResumeFacts DEF UnlockWakes
      <4> QED BY <1>0, <4>1 DEF Resume, SemTypes
    <3>5. DOMAIN state = Pid /\ DOMAIN call = Pid
      BY <1>0 DEF SemTypes
    <3>6. /\ Asleep("box")' = Asleep("box")
          /\ \A r \in Asleep("box") : call'[r].bytes = call[r].bytes
      BY <3>1, <3>4, <3>5 DEF Asleep
    <3> QED BY <3>1, <3>6, ReadersStay
  <2>6. CASE use = "box" /\ Created(p)
    <3>1. /\ Asleep("box")' = Asleep("box") /\ UNCHANGED <<box, wakes, call>>
      BY <1>0, <2>6 DEF Created, Asleep, SemTypes
    <3> QED BY <3>1, ReadersStay
  <2>7. CASE use = "sem"
    <3>1. Asleep("box") = {} /\ Asleep("box")' = {}
      BY <1>0, <2>1, <2>7 DEF Whereabouts, Asleep, TokenInv, SemInv
    <3>2. UNCHANGED <<box, wakes>>
      <4>1. CASE UsesSemaphore(p)
        BY <4>1 DEF UsesSemaphore, sem_wait, sem_signal, mutex_lock, mutex_unlock,
              MutexLockReturns, SemWaitReturns, WaitsForMutex, SemWaitGoesOn,
              SemSignalGoesOn
      <4>2. ~ ChildReturns(p)
        BY <2>1, <2>7, ChildReturnsStep
      <4>3. CASE Killed(p) \/ Created(p)
        BY <4>3 DEF Killed, Created
      <4> QED BY <2>2, <2>7, <4>1, <4>2, <4>3
    <3> QED BY <3>1, <3>2, ReadersStay
  <2> QED BY <2>1, <2>2, <2>3, <2>4, <2>5, <2>6, <2>7
<1>2. CASE UNCHANGED vars
  BY <1>2, ReadersStay DEF vars, Asleep
<1> QED BY <1>1, <1>2

\* The whole invariant, which needs lists that do not overflow.
FullInv == TokenInv /\ MailboxInv /\ LineInv /\ ReaderInv

(* The whole invariant at the beginning. *)
LEMMA FullBegins ==
  ASSUME Init
  PROVE  FullInv /\ Counting!Init
<1>1. TokenInv
  BY TokensBegin
<1>2. /\ state = [p \in Pid |-> "READY"] /\ wakes = 0
      /\ sem = [value |-> StartValue, queue |-> EmptyQueue, mutex |-> FreeMutex]
      /\ box.index = 0 /\ box.list = [i \in Slots |-> NoPid]
      /\ StartValue \in Nat
  BY IpcAssumption DEF Init
<1>3. Asleep("sem") = {} /\ Asleep("box") = {}
  BY <1>2 DEF Asleep
<1>4. Members(EmptyQueue) = {} /\ \E n : Holds(EmptyQueue, n)
  BY EmptyHolds DEF EmptyQueue, Members, Slots
<1>5. LineInv
  BY <1>2, <1>3, <1>4 DEF LineInv
<1>6. ReaderInv
  <2>1. IsFiniteSet({}) /\ Cardinality({}) = 0
    BY FS_EmptySet
  <2>2. ReadersInList
    BY <1>2 DEF ReadersInList
  <2>3. box.list \in [Slots -> PidOrNone]
    BY <1>2 DEF PidOrNone
  <2>4. box.index = 0 /\ wakes = 0
    BY <1>2
  <2>5. IsFiniteSet(Asleep("box")) /\ Cardinality(Asleep("box")) = 0
    BY <1>3, <2>1
  <2> QED BY <2>2, <2>3, <2>4, <2>5 DEF ReaderInv
<1>7. Counting!Init
  BY <1>2, EmptyLine DEF Counting!Init
<1> QED BY <1>1, <1>5, <1>6, <1>7, MailboxBegins DEF FullInv

(* The whole invariant from step to step, each a step of the abstract *)
(* semaphore.                                                         *)
LEMMA FullStep ==
  ASSUME Gentle, FullInv, Few, [Next]_vars
  PROVE  FullInv' /\ [Counting!Next]_(Counting!vars)
<1>1. TokenInv' /\ SemStep
  BY TokenStep DEF FullInv
<1>2. MailboxInv'
  BY BytesStep, AskedStep DEF FullInv, MailboxInv
<1>3. LineInv' /\ [Counting!Next]_(Counting!vars)
  BY <1>1, LineStep DEF FullInv, ReaderInv
<1>4. ReaderInv'
  BY <1>1, ReaderStep DEF FullInv
<1> QED BY <1>1, <1>2, <1>3, <1>4 DEF FullInv

(* What the invariant says of the sleepers. *)
LEMMA FullSafe ==
  ASSUME FullInv, Few
  PROVE  NobodyForgotten
<1>1. /\ TokenInv /\ SemTypes /\ InLists /\ LineInv /\ ReaderInv /\ RingSound(box)
      /\ NoneTwice(sem.queue) /\ sem.queue \in Queue
  BY DEF FullInv, TokenInv, SemInv, MailboxInv, SemTypes, Semaphore, InLists
<1>2. TypeOK
  <2>1. sem.value \in 0 .. MaxTokens
    <3>1. /\ IsFiniteSet(Going) /\ IsFiniteSet(Pending)
          /\ sem.value + Cardinality(Going) = credit
          /\ credit + Cardinality(Pending) <= MaxTokens
      BY <1>1 DEF TokenInv, Counted, Bounded
    <3>2. Cardinality(Going) \in Nat /\ Cardinality(Pending) \in Nat
      BY <3>1, FS_CardinalityType
    <3>3. sem.value \in Nat /\ MaxTokens \in Nat /\ credit \in Int
      BY <1>1, IpcAssumption DEF SemTypes, Semaphore
    <3> QED BY <3>1, <3>2, <3>3
  <2>2. box.write \in Cells
    <3> DEFINE r == Readable(box)  B == MAILBOX_BUFFER_SIZE
    <3>1. B \in Nat \ {0} /\ box.read \in 0 .. B - 1 /\ r \in 0 .. B
      BY <1>1, IpcAssumption DEF RingSound, Cells, Readable
    <3>2. box.write = (box.read + r) % B
      BY <1>1 DEF RingSound, Cell
    <3> HIDE DEF r, B
    <3>3. (box.read + r) % B \in 0 .. B - 1
      BY <3>1, Ring
    <3> QED BY <3>2, <3>3 DEF B, Cells
  <2>3. box.index \in 0 .. PROCESS_QUEUE_SIZE
    <3>1. Asleep("box") \subseteq {r \in Pid : state[r] # "FINISHED"}
      BY DEF Asleep
    <3>2. /\ Cardinality(Asleep("box")) + wakes <= PROCESS_QUEUE_SIZE
          /\ Cardinality(Asleep("box")) \in Nat
      BY <1>1, <3>1, Room DEF ReaderInv
    <3> QED BY <1>1, <3>2, QueueAssumption DEF ReaderInv
  <2> QED BY <1>1, <2>1, <2>2, <2>3 DEF TypeOK, SemTypes, Semaphore, RingSound
<1>3. SleepersInLine
  <2> SUFFICES ASSUME NEW p \in Pid, state[p] = "BLOCKED" /\ call[p].at = "sem"
               PROVE  /\ sem.value = 0
                      /\ Cardinality({i \in Slots : sem.queue.slot[i] = p}) = 1
    BY DEF SleepersInLine
  <2>1. p \in Members(sem.queue)
    BY <1>1 DEF LineInv, Asleep
  <2>2. PICK i \in Slots : sem.queue.slot[i] = p
    BY <2>1 DEF Members
  <2>3. {j \in Slots : sem.queue.slot[j] = p} = {i}
    BY <1>1, <2>1, <2>2 DEF NoneTwice, Members
  <2>4. Cardinality({i}) = 1
    BY FS_Singleton
  <2>5. sem.value = 0
    <3>1. ~ (sem.value > 0) /\ sem.value \in Nat
      BY <1>1, <2>1 DEF LineInv, SemTypes, Semaphore
    <3> QED BY <3>1
  <2> QED BY <2>3, <2>4, <2>5
<1> QED BY <1>1, <1>2, <1>3 DEF NobodyForgotten, ReaderInv

(* While the waiting lists have room for everyone, nobody sleeps for a     *)
(* token or for bytes that are there, and whoever sleeps is where the next *)
(* sem_signal or write_message looks for it (sem.c:71-118,                 *)
(* mailbox.c:73-175).                                                      *)
THEOREM NobodyForgottenHolds ==
  ASSUME Gentle
  PROVE  Spec /\ []Few => []NobodyForgotten
<1>1. Init => FullInv
  BY FullBegins
<1>2. FullInv /\ Few /\ [Next]_vars => FullInv'
  BY FullStep
<1>3. FullInv /\ Few => NobodyForgotten
  BY FullSafe
<1> QED BY <1>1, <1>2, <1>3, PTL DEF Spec

(* While its list has room the semaphore implements CountingSemaphore: it  *)
(* gives its tokens to the waiters directly, in the order in which they    *)
(* came to the list, also when they were blocked in its mutex on the way   *)
(* (sem.c:71-118).                                                         *)
THEOREM ServesInOrderHolds ==
  ASSUME Gentle
  PROVE  Spec /\ []Few => ServesInOrder
<1>1. Init => FullInv /\ Counting!Init
  BY FullBegins
<1>2. FullInv /\ Few /\ [Next]_vars => FullInv' /\ [Counting!Next]_(Counting!vars)
  BY FullStep
<1> QED BY <1>1, <1>2, PTL DEF Spec, ServesInOrder, Counting!Spec

=============================================================================
