--------------------------- MODULE TerminalProofs ---------------------------
(***************************************************************************)
(* The key buffer, the console, the line the shell edits and the command   *)
(* it takes it for, for any sizes of buffer, screen and characters, any    *)
(* keys, any table of commands and any width of an int.                    *)
(***************************************************************************)
EXTENDS Terminal, FiniteSetTheorems, FunctionTheorems, SequenceTheorems,
        NaturalsInduction, WellFoundedInduction, TLAPS

-----------------------------------------------------------------------------
(* Natural numbers *)

(* A set of natural numbers has a smallest. *)
LEMMA Smallest ==
  ASSUME NEW S \in SUBSET Nat, S # {}
  PROVE  \E n \in S : \A m \in S : n <= m
<1> DEFINE R == OpToRel(<, Nat)
<1>1. IsWellFoundedOn(R, Nat)
  BY NatLessThanWellFounded
<1>2. \A m, n \in Nat : m < n => <<m, n>> \in R
  BY DEF OpToRel
<1> HIDE DEF R
<1>3. PICK n \in S : \A m \in S : <<m, n>> \notin R
  BY <1>1, WFMin
<1>4. \A m \in S : m \in Nat /\ n \in Nat /\ ~ (m < n)
  BY <1>2, <1>3
<1> QED BY <1>4

(* What holds of 0, and of every number whose predecessor it holds of, is true *)
(* up to n: a set of numbers that has no smallest is empty.                    *)
LEMMA UpTo ==
  ASSUME NEW n \in Nat, NEW S, n \in Nat,
         0 \in S, \A k \in 1 .. n : k - 1 \in S => k \in S
  PROVE  0 .. n \subseteq S
<1> SUFFICES ASSUME ~ (0 .. n \subseteq S) PROVE FALSE
  OBVIOUS
<1> DEFINE T == {k \in 0 .. n : k \notin S}
<1>1. T \in SUBSET Nat /\ T # {}
  OBVIOUS
<1>2. PICK k \in T : \A m \in T : k <= m
  BY <1>1, Smallest
<1>3. k \in 1 .. n /\ k - 1 \in 0 .. n /\ k - 1 \notin T
  BY <1>2
<1> QED BY <1>2, <1>3

\* Step k of a recursive function makes a value of D of one.
IsStep(step, n, D) == step \in [D \X (1 .. n) -> D]

IsRecursive(g, n, D, base, step) ==
  g \in [0 .. n -> D] /\ g[0] = base /\ \A k \in 1 .. n : g[k] = step[<<g[k - 1], k>>]

(* A recursive function on 0 .. n exists: base, then step after step.           *)
LEMMA Recursion ==
  ASSUME NEW n \in Nat, NEW D, NEW base \in D, NEW step, IsStep(step, n, D)
  PROVE  \E g : IsRecursive(g, n, D, base, step)
<1> USE DEF IsStep, IsRecursive
<1> DEFINE Up(m) == \E g \in [0 .. m -> D] :
                      g[0] = base /\ \A k \in 1 .. m : g[k] = step[<<g[k - 1], k>>]
           S == {m \in 0 .. n : Up(m)}
<1>1. 0 \in S
  <2> DEFINE z == [k \in 0 .. 0 |-> base]
  <2>1. z \in [0 .. 0 -> D] /\ z[0] = base
    OBVIOUS
  <2>2. 1 .. 0 = {} /\ 0 \in 0 .. n
    OBVIOUS
  <2> HIDE DEF z
  <2>3. \A k \in 1 .. 0 : z[k] = step[<<z[k - 1], k>>]
    BY <2>2
  <2>4. Up(0)
    BY <2>1, <2>3
  <2> QED BY <2>2, <2>4
<1>2. ASSUME NEW m \in 1 .. n, m - 1 \in S PROVE m \in S
  <2>1. m \in 0 .. n /\ m - 1 \in 0 .. m /\ m \in Nat \ {0}
    OBVIOUS
  <2>2. PICK g \in [0 .. m - 1 -> D] :
          g[0] = base /\ \A k \in 1 .. m - 1 : g[k] = step[<<g[k - 1], k>>]
    BY <1>2
  <2> DEFINE h == [k \in 0 .. m |-> IF k < m THEN g[k] ELSE step[<<g[m - 1], m>>]]
  <2>3. step[<<g[m - 1], m>>] \in D
    BY <2>1, <2>2
  <2>4. h \in [0 .. m -> D] /\ h[0] = base
    BY <2>1, <2>2, <2>3
  <2>5. ASSUME NEW k \in 1 .. m PROVE h[k] = step[<<h[k - 1], k>>]
    <3>1. k - 1 \in 0 .. m - 1 /\ k - 1 < m /\ k \in 0 .. m /\ k - 1 \in 0 .. m
      BY <2>1
    <3>2. h[k - 1] = g[k - 1]
      BY <3>1
    <3>3. CASE k < m
      <4>1. k \in 1 .. m - 1 /\ h[k] = g[k]
        BY <3>1, <3>3
      <4> QED BY <2>2, <3>2, <4>1
    <3>4. CASE ~ (k < m)
      <4>1. k = m /\ h[k] = step[<<g[m - 1], m>>]
        BY <2>1, <3>1, <3>4
      <4> QED BY <3>2, <4>1
    <3> QED BY <3>3, <3>4
  <2> HIDE DEF h
  <2> QED BY <2>1, <2>4, <2>5
<1>3. n \in S
  <2> HIDE DEF S
  <2> QED BY <1>1, <1>2, UpTo
<1> QED BY <1>3

-----------------------------------------------------------------------------
(* Counting, as far as the order does not matter *)

Count(f, D, x) == Cardinality({i \in D : f[i] = x})

(* Places may be renamed.                                                  *)
LEMMA SameCount ==
  ASSUME NEW D, IsFiniteSet(D), NEW E, NEW f, NEW g, NEW h \in [E -> D], NEW x,
         \A j, k \in E : h[j] = h[k] => j = k,
         \A i \in D : \E j \in E : h[j] = i,
         \A j \in E : g[j] = f[h[j]]
  PROVE  Count(g, E, x) = Count(f, D, x)
<1> DEFINE S == {j \in E : g[j] = x}
           T == {i \in D : f[i] = x}
           b == [i \in S |-> h[i]]
<1>1. IsFiniteSet(T)
  BY FS_Subset
<1>2. b \in Bijection(S, T)
  <2>1. b \in [S -> T]
    OBVIOUS
  <2>2. \A j, k \in S : b[j] = b[k] => j = k
    OBVIOUS
  <2>3. \A i \in T : \E j \in S : b[j] = i
    <3> SUFFICES ASSUME NEW i \in T PROVE \E j \in S : b[j] = i
      OBVIOUS
    <3>1. PICK j \in E : h[j] = i
      OBVIOUS
    <3> QED BY <3>1
  <2> HIDE DEF b, S, T
  <2> QED BY <2>1, <2>2, <2>3 DEF Bijection, Injection, Surjection, IsInjective
<1> HIDE DEF b
<1>3. ExistsBijection(S, T)
  BY <1>2 DEF ExistsBijection
<1>4. ExistsBijection(T, S)
  BY <1>3, Fun_ExistsBijSymmetric
<1> HIDE DEF S, T
<1>5. Cardinality(S) = Cardinality(T)
  BY <1>1, <1>4, FS_Bijection
<1> QED BY <1>5 DEF S, T, Count

(* One place more or less.                                                 *)
LEMMA CountWithout ==
  ASSUME NEW D, IsFiniteSet(D), NEW i \in D, NEW E, E = D \ {i}, NEW f, NEW x
  PROVE  /\ Count(f, D, x) \in Nat /\ Count(f, E, x) \in Nat
         /\ Count(f, D, x) = Count(f, E, x) + (IF f[i] = x THEN 1 ELSE 0)
<1> DEFINE T == {k \in D : f[k] = x}
           U == {k \in E : f[k] = x}
<1>1. IsFiniteSet(T) /\ IsFiniteSet(U)
  <2>1. T \subseteq D /\ U \subseteq D
    OBVIOUS
  <2> HIDE DEF T, U
  <2> QED BY <2>1, FS_Subset
<1>2. Cardinality(T) \in Nat /\ Cardinality(U) \in Nat
  BY <1>1, FS_CardinalityType
<1>3. CASE f[i] = x
  <2>1. U = T \ {i} /\ i \in T
    BY <1>3
  <2> HIDE DEF T, U
  <2>2. Cardinality(U) = Cardinality(T) - 1
    BY <1>1, <2>1, FS_RemoveElement
  <2> QED BY <1>2, <1>3, <2>2 DEF T, U, Count
<1>4. CASE f[i] # x
  <2>1. U = T
    BY <1>4
  <2>2. Count(f, D, x) = Cardinality(T) /\ Count(f, E, x) = Cardinality(U)
    BY DEF Count
  <2> HIDE DEF T, U
  <2> QED BY <1>2, <1>4, <2>1, <2>2
<1> QED BY <1>3, <1>4

(* Something is there when it counts.                                      *)
LEMMA Counts ==
  ASSUME NEW D, IsFiniteSet(D), NEW f, NEW x
  PROVE  Count(f, D, x) # 0 <=> \E i \in D : f[i] = x
<1> DEFINE T == {i \in D : f[i] = x}
<1>1. IsFiniteSet(T)
  BY FS_Subset
<1> HIDE DEF T
<1>2. Cardinality(T) = 0 <=> T = {}
  BY <1>1, FS_EmptySet
<1> QED BY <1>2 DEF T, Count

(* The numbers from a to b.                                                *)
LEMMA FiniteInterval ==
  ASSUME NEW a \in Int, NEW b \in Int
  PROVE  IsFiniteSet(a .. b) /\ Cardinality(a .. b) = IF a > b THEN 0 ELSE b - a + 1
BY FS_Interval

\* What the buffer holds.
Char == {"nul"} \cup Characters

LEMMA NulIsChar == "nul" \in Char
BY DEF Char

(* What is not there does not go.                                          *)
LEMMA NotThere ==
  ASSUME NEW s \in Seq(Char), NEW e, \A i \in 1 .. Len(s) : s[i] # e
  PROVE  RemoveFirst(s, e) = s
BY DEF RemoveFirst

(* The first occurrence goes, the rest moves up.                           *)
LEMMA Removed ==
  ASSUME NEW s \in Seq(Char), NEW e
  PROVE  /\ RemoveFirst(s, e) \in Seq(Char)
         /\ (\E i \in 1 .. Len(s) : s[i] = e) =>
              \E i \in 1 .. Len(s) :
                /\ s[i] = e /\ \A j \in 1 .. i - 1 : s[j] # e
                /\ Len(RemoveFirst(s, e)) = Len(s) - 1
                /\ \A j \in 1 .. Len(s) - 1 :
                     RemoveFirst(s, e)[j] = IF j < i THEN s[j] ELSE s[j + 1]
<1> DEFINE I == {i \in 1 .. Len(s) : s[i] = e}
<1>1. Len(s) \in Nat
  OBVIOUS
<1>2. CASE I = {}
  <2>1. ~ \E i \in 1 .. Len(s) : s[i] = e
    BY <1>2
  <2>2. RemoveFirst(s, e) = s
    BY <2>1, NotThere
  <2> QED BY <2>1, <2>2
<1>3. CASE I # {}
  <2>1. I \in SUBSET Nat
    BY <1>1
  <2>2. \E i \in I : \A j \in I : i <= j
    BY <1>3, <2>1, Smallest
  <2>3. SelectInSeq(s, LAMBDA v : v = e) = Min(I)
    BY <1>3 DEF SelectInSeq
  <2>4. PICK i \in I : i = Min(I) /\ \A j \in I : i <= j
    BY <2>2 DEF Min
  <2>5. RemoveFirst(s, e) = SubSeq(s, 1, i - 1) \o SubSeq(s, i + 1, Len(s))
    BY <1>3, <2>3, <2>4 DEF RemoveFirst, RemoveAt
  <2> DEFINE a == SubSeq(s, 1, i - 1)
             b == SubSeq(s, i + 1, Len(s))
  <2>6. i \in 1 .. Len(s) /\ s[i] = e /\ \A j \in 1 .. i - 1 : s[j] # e
    <3>1. i \in 1 .. Len(s) /\ s[i] = e
      BY <2>4
    <3>2. ASSUME NEW j \in 1 .. i - 1, s[j] = e PROVE FALSE
      <4>1. j \in 1 .. Len(s) /\ j < i /\ ~ (i <= j)
        BY <1>1, <3>1
      <4>2. j \in I
        BY <3>2, <4>1
      <4> HIDE DEF I
      <4> QED BY <2>4, <4>1, <4>2
    <3> QED BY <3>1, <3>2
  <2>7. /\ a \in Seq(Char) /\ Len(a) = i - 1
        /\ \A j \in 1 .. i - 1 : a[j] = s[j]
    <3>1. \A j \in 1 .. i - 1 : s[j] \in Char
      BY <1>1, <2>6
    <3>2. 1 \in Int /\ i - 1 \in Int /\ i - 1 - 1 + 1 = i - 1
      BY <2>6
    <3>3. /\ a \in Seq(Char)
          /\ Len(a) = IF 1 <= i - 1 THEN i - 1 - 1 + 1 ELSE 0
          /\ \A j \in 1 .. i - 1 - 1 + 1 : a[j] = s[1 + j - 1]
      BY <3>1, <3>2, SubSeqProperties
    <3> HIDE DEF a
    <3> QED BY <2>6, <3>3
  <2>8. /\ b \in Seq(Char) /\ Len(b) = Len(s) - i
        /\ \A j \in 1 .. Len(s) - i : b[j] = s[i + j]
    <3>1. \A j \in i + 1 .. Len(s) : s[j] \in Char
      BY <1>1, <2>6
    <3>2. i + 1 \in Int /\ Len(s) \in Int
      BY <1>1, <2>6
    <3>3. /\ b \in Seq(Char)
          /\ Len(b) = IF i + 1 <= Len(s) THEN Len(s) - (i + 1) + 1 ELSE 0
          /\ \A j \in 1 .. Len(s) - (i + 1) + 1 : b[j] = s[i + 1 + j - 1]
      BY <3>1, <3>2, SubSeqProperties
    <3> HIDE DEF b
    <3> QED BY <1>1, <2>6, <3>3
  <2> HIDE DEF a, b, I
  <2>9. a \o b \in Seq(Char) /\ Len(a \o b) = Len(s) - 1
    <3>1. a \o b \in Seq(Char) /\ Len(a \o b) = Len(a) + Len(b)
      BY <2>7, <2>8, ConcatProperties
    <3> QED BY <1>1, <2>6, <2>7, <2>8, <3>1
  <2>10. \A j \in 1 .. Len(s) - 1 : (a \o b)[j] = IF j < i THEN s[j] ELSE s[j + 1]
    <3> SUFFICES ASSUME NEW j \in 1 .. Len(s) - 1
                 PROVE  (a \o b)[j] = IF j < i THEN s[j] ELSE s[j + 1]
      OBVIOUS
    <3>1. (a \o b)[j] = IF j <= Len(a) THEN a[j] ELSE b[j - Len(a)]
      BY <1>1, <2>6, <2>7, <2>8
    <3>2. CASE j < i
      BY <1>1, <2>6, <2>7, <3>1, <3>2
    <3>3. CASE ~ (j < i)
      <4>1. ~ (j <= Len(a)) /\ j - Len(a) \in 1 .. Len(s) - i /\ i + (j - Len(a)) = j + 1
        BY <1>1, <2>6, <2>7, <3>3
      <4> QED BY <2>8, <3>1, <3>3, <4>1
    <3> QED BY <3>2, <3>3
  <2>11. RemoveFirst(s, e) = a \o b
    BY <2>5 DEF a, b
  <2> QED BY <2>6, <2>9, <2>10, <2>11
<1> QED BY <1>2, <1>3

-----------------------------------------------------------------------------
(* The key buffer *)

\* The buffer b holds n characters, in its first places.
Filled(b, n) ==
  /\ n \in 0 .. KEYBOARD_SIZE - 1
  /\ b \in [Places -> Char]
  /\ \A i \in Places : b[i] = "nul" <=> n <= i

\* They are the keys s, each as often.
SameKeys(b, n, s) ==
  /\ s \in Seq(Char) /\ Len(s) = n
  /\ \A x \in Char : Count(b, 0 .. n - 1, x) = Count(s, 1 .. n, x)

InOrder(b, n, s) == \A k \in 1 .. n : s[k] = b[k - 1]

LEMMA FilledCount ==
  ASSUME NEW n, Filled(buffer, n)
  PROVE  Pending = n /\ (Full <=> n = KEYBOARD_SIZE - 1)
<1>1. KEYBOARD_SIZE \in Nat \ {0, 1, 2} /\ n \in 0 .. KEYBOARD_SIZE - 1
  BY TerminalAssumption DEF Filled
<1>2. {i \in Places : buffer[i] # "nul"} = 0 .. n - 1
  BY <1>1 DEF Filled, Places
<1>3. Cardinality(0 .. n - 1) = n
  <2>1. 0 \in Int /\ n - 1 \in Int
    BY <1>1
  <2>2. Cardinality(0 .. n - 1) = IF 0 > n - 1 THEN 0 ELSE n - 1 - 0 + 1
    BY <2>1, FiniteInterval
  <2> QED BY <1>1, <2>2
<1>4. KEYBOARD_SIZE - 2 \in Places
  BY <1>1 DEF Places
<1>5. Full <=> ~ (n <= KEYBOARD_SIZE - 2)
  BY <1>4 DEF Full, Filled
<1>6. Full <=> n = KEYBOARD_SIZE - 1
  BY <1>1, <1>5
<1> QED BY <1>2, <1>3, <1>6 DEF Pending

(* shiftBufferRight and the new character in place k.                      *)
LEMMA InsertKeys ==
  ASSUME NEW b, NEW n, NEW s, Filled(b, n), SameKeys(b, n, s), n < KEYBOARD_SIZE - 1,
         NEW k \in 0 .. n, NEW c \in Char \ {"nul"}
  PROVE  LET d == Inserted(b, k, c) IN
         /\ Filled(d, n + 1) /\ SameKeys(d, n + 1, Append(s, c))
         /\ k = n /\ InOrder(b, n, s) => InOrder(d, n + 1, Append(s, c))
<1> DEFINE d == Inserted(b, k, c)
           t == Append(s, c)
<1>1. /\ KEYBOARD_SIZE \in Nat \ {0, 1, 2} /\ n \in 0 .. KEYBOARD_SIZE - 2
      /\ n + 1 - 1 = n /\ n \in Nat
  BY TerminalAssumption DEF Filled
<1>2. /\ d = [i \in Places |-> IF i < k THEN b[i] ELSE IF i = k THEN c ELSE b[i - 1]]
      /\ \A i \in Places : d[i] = IF i < k THEN b[i] ELSE IF i = k THEN c ELSE b[i - 1]
  BY DEF Inserted
<1>3. \A i \in Places : i # 0 => i - 1 \in Places
  BY <1>1 DEF Places
<1>4. Filled(d, n + 1)
  <2>1. d \in [Places -> Char]
    BY <1>1, <1>2, <1>3 DEF Filled, Places
  <2>2. ASSUME NEW i \in Places PROVE d[i] = "nul" <=> n + 1 <= i
    <3>1. i \in Int
      BY <1>1 DEF Places
    <3>2. CASE i < k
      BY <1>1, <1>2, <3>1, <3>2 DEF Filled
    <3>3. CASE i = k
      BY <1>1, <1>2, <3>1, <3>3
    <3>4. CASE i > k
      <4>1. i - 1 \in Places /\ d[i] = b[i - 1]
        BY <1>1, <1>2, <1>3, <3>1, <3>4
      <4> QED BY <1>1, <3>1, <4>1 DEF Filled
    <3> QED BY <1>1, <3>1, <3>2, <3>3, <3>4
  <2> HIDE DEF d
  <2> QED BY <1>1, <2>1, <2>2 DEF Filled
<1>5. /\ t \in Seq(Char) /\ Len(t) = n + 1
      /\ \A j \in 1 .. n : t[j] = s[j]
      /\ t[n + 1] = c
  BY <1>1 DEF SameKeys
<1>6. ASSUME NEW x \in Char
      PROVE  Count(d, 0 .. n, x) = Count(b, 0 .. n - 1, x) + (IF c = x THEN 1 ELSE 0)
  <2> DEFINE D == 0 .. n
             E == D \ {k}
             B == 0 .. n - 1
             h == [j \in E |-> IF j < k THEN j ELSE j - 1]
  <2>1. IsFiniteSet(D) /\ IsFiniteSet(B)
    <3>1. 0 \in Int /\ n \in Int /\ n - 1 \in Int
      BY <1>1
    <3> QED BY <3>1, FiniteInterval
  <2>2. h \in [E -> B]
    BY <1>1
  <2>3. \A i, j \in E : h[i] = h[j] => i = j
    BY <1>1
  <2>4. \A i \in B : \E j \in E : h[j] = i
    <3> SUFFICES ASSUME NEW i \in B PROVE \E j \in E : h[j] = i
      OBVIOUS
    <3>1. CASE i < k
      <4>1. i \in E /\ h[i] = i
        BY <1>1, <3>1
      <4> QED BY <4>1
    <3>2. CASE ~ (i < k)
      <4>1. i + 1 \in E /\ h[i + 1] = i
        BY <1>1, <3>2
      <4> QED BY <4>1
    <3> QED BY <3>1, <3>2
  <2>5. \A j \in E : d[j] = b[h[j]]
    <3> SUFFICES ASSUME NEW j \in E PROVE d[j] = b[h[j]]
      OBVIOUS
    <3>1. j \in Places /\ h[j] = IF j < k THEN j ELSE j - 1
      BY <1>1 DEF Places
    <3> QED BY <1>1, <1>2, <3>1
  <2>6. k \in D /\ E = D \ {k} /\ d[k] = c
    <3>1. k \in Places /\ k \in D
      BY <1>1 DEF Places
    <3> QED BY <1>2, <3>1
  <2> HIDE DEF h, d, D, E, B
  <2>7. Count(d, E, x) = Count(b, B, x)
    BY <2>1, <2>2, <2>3, <2>4, <2>5, SameCount
  <2>8. Count(d, D, x) = Count(d, E, x) + (IF d[k] = x THEN 1 ELSE 0)
    BY <2>1, <2>6, CountWithout
  <2> QED BY <2>6, <2>7, <2>8 DEF B, D
<1>7. ASSUME NEW x \in Char
      PROVE  Count(t, 1 .. n + 1, x) = Count(s, 1 .. n, x) + (IF c = x THEN 1 ELSE 0)
  <2> DEFINE D == 1 .. n + 1
             E == 1 .. n
             m == n + 1
  <2>1. IsFiniteSet(D)
    <3>1. 1 \in Int /\ n + 1 \in Int
      BY <1>1
    <3> QED BY <3>1, FiniteInterval
  <2>2. E = D \ {m} /\ m \in D /\ t[m] = c
    BY <1>1, <1>5
  <2>3. Count(t, E, x) = Count(s, E, x)
    <3>1. {j \in E : t[j] = x} = {j \in E : s[j] = x}
      BY <1>5
    <3> QED BY <3>1 DEF Count
  <2> HIDE DEF D, E, m, t
  <2>4. Count(t, D, x) = Count(t, E, x) + (IF t[m] = x THEN 1 ELSE 0)
    BY <2>1, <2>2, CountWithout
  <2> QED BY <2>2, <2>3, <2>4 DEF D, E
<1>8. SameKeys(d, n + 1, t)
  <2> HIDE DEF d, t
  <2>1. \A x \in Char : Count(d, 0 .. n, x) = Count(t, 1 .. n + 1, x)
    BY <1>6, <1>7 DEF SameKeys
  <2> QED BY <1>1, <1>5, <2>1 DEF SameKeys
<1>9. k = n /\ InOrder(b, n, s) => InOrder(d, n + 1, t)
  <2> SUFFICES ASSUME k = n, InOrder(b, n, s), NEW j \in 1 .. n + 1 PROVE t[j] = d[j - 1]
    BY DEF InOrder
  <2>1. CASE j \in 1 .. n
    <3>1. j - 1 \in Places /\ j - 1 < k
      BY <1>1, <2>1 DEF Places
    <3>2. d[j - 1] = b[j - 1]
      BY <1>2, <3>1
    <3> QED BY <1>5, <2>1, <3>2 DEF InOrder
  <2>2. CASE j = n + 1
    <3>1. j - 1 = n /\ n \in Places
      BY <1>1, <2>2 DEF Places
    <3>2. d[n] = c
      BY <1>1, <1>2, <3>1
    <3> QED BY <1>5, <2>2, <3>1, <3>2
  <2>3. j \in 1 .. n \/ j = n + 1
    BY <1>1
  <2> QED BY <2>1, <2>2, <2>3
<1> QED BY <1>4, <1>8, <1>9

(* shiftBufferLeft: the first character goes.                              *)
LEMMA ShiftKeys ==
  ASSUME NEW b, NEW n, NEW s, Filled(b, n), SameKeys(b, n, s), n > 0
  PROVE  LET d == ShiftedLeft(b)
             t == RemoveFirst(s, b[0])
         IN  /\ Filled(d, n - 1) /\ SameKeys(d, n - 1, t)
             /\ InOrder(b, n, s) => InOrder(d, n - 1, t)
<1> DEFINE d == ShiftedLeft(b)
           e == b[0]
           t == RemoveFirst(s, e)
<1>1. /\ KEYBOARD_SIZE \in Nat \ {0, 1, 2} /\ n \in 1 .. KEYBOARD_SIZE - 1
      /\ n \in Nat /\ n - 1 \in Nat /\ 0 \in Places
  BY TerminalAssumption DEF Filled, Places
<1>2. \A i \in Places : d[i] = IF i = KEYBOARD_SIZE - 1 THEN "nul" ELSE b[i + 1]
  BY DEF ShiftedLeft
<1>3. \A i \in Places : i # KEYBOARD_SIZE - 1 => i + 1 \in Places
  BY <1>1 DEF Places
<1>4. Filled(d, n - 1)
  <2>1. d \in [Places -> Char]
    BY <1>3 DEF ShiftedLeft, Filled
  <2>2. ASSUME NEW i \in Places PROVE d[i] = "nul" <=> n - 1 <= i
    <3>1. i \in 0 .. KEYBOARD_SIZE - 1
      BY DEF Places
    <3>2. CASE i = KEYBOARD_SIZE - 1
      BY <1>1, <1>2, <3>2
    <3>3. CASE i # KEYBOARD_SIZE - 1
      <4>1. i + 1 \in Places /\ d[i] = b[i + 1]
        BY <1>2, <1>3, <3>3
      <4> QED BY <1>1, <3>1, <4>1 DEF Filled
    <3> QED BY <3>2, <3>3
  <2> HIDE DEF d
  <2> QED BY <1>1, <2>1, <2>2 DEF Filled
<1>5. e \in Char /\ s \in Seq(Char) /\ Len(s) = n
  BY <1>1 DEF Filled, SameKeys
<1>6. IsFiniteSet(0 .. n - 1) /\ IsFiniteSet(1 .. n)
  <2>1. 0 \in Int /\ 1 \in Int /\ n \in Int /\ n - 1 \in Int
    BY <1>1
  <2> QED BY <2>1, FiniteInterval
<1>7. ASSUME NEW x \in Char
      PROVE  /\ Count(d, 0 .. n - 2, x) \in Nat
             /\ Count(b, 0 .. n - 1, x) = Count(d, 0 .. n - 2, x) + (IF e = x THEN 1 ELSE 0)
  <2> DEFINE D == 0 .. n - 1
             B == 1 .. n - 1
             E == 0 .. n - 2
             z == 0
             h == [j \in E |-> j + 1]
  <2>1. h \in [E -> B]
    BY <1>1
  <2>2. \A i, j \in E : h[i] = h[j] => i = j
    BY <1>1
  <2>3. \A i \in B : \E j \in E : h[j] = i
    <3> SUFFICES ASSUME NEW i \in B PROVE \E j \in E : h[j] = i
      OBVIOUS
    <3>1. i - 1 \in E /\ h[i - 1] = i
      BY <1>1
    <3> QED BY <3>1
  <2>4. \A j \in E : d[j] = b[h[j]]
    <3> SUFFICES ASSUME NEW j \in E PROVE d[j] = b[h[j]]
      OBVIOUS
    <3>1. j \in Places /\ j # KEYBOARD_SIZE - 1 /\ h[j] = j + 1
      BY <1>1 DEF Places
    <3> QED BY <1>2, <3>1
  <2>5. IsFiniteSet(D) /\ z \in D /\ B = D \ {z} /\ b[z] = e
    BY <1>1, <1>6
  <2>6. IsFiniteSet(B)
    BY <2>5, FS_Subset
  <2> HIDE DEF h, d, D, E, B, z, e
  <2>7. Count(d, E, x) = Count(b, B, x)
    BY <2>1, <2>2, <2>3, <2>4, <2>6, SameCount
  <2>8. /\ Count(b, B, x) \in Nat
        /\ Count(b, D, x) = Count(b, B, x) + (IF b[z] = x THEN 1 ELSE 0)
    BY <2>5, CountWithout
  <2> QED BY <2>5, <2>7, <2>8 DEF D, E
<1>8. \E i \in 1 .. n : s[i] = e
  <2> DEFINE D == 1 .. n
             m == Count(b, 0 .. n - 1, e)
  <2>1. m = Count(s, D, e)
    BY <1>5 DEF SameKeys
  <2>2. m # 0
    <3> HIDE DEF e, d
    <3>1. /\ Count(d, 0 .. n - 2, e) \in Nat
          /\ m = Count(d, 0 .. n - 2, e) + (IF e = e THEN 1 ELSE 0)
      BY <1>5, <1>7
    <3> HIDE DEF m
    <3> QED BY <3>1
  <2>3. IsFiniteSet(D)
    BY <1>6
  <2> HIDE DEF e, D, m
  <2>4. \E i \in D : s[i] = e
    BY <2>1, <2>2, <2>3, Counts
  <2> QED BY <2>4 DEF D
<1> HIDE DEF e
<1>9. PICK i \in 1 .. n :
        /\ s[i] = e /\ \A j \in 1 .. i - 1 : s[j] # e
        /\ t \in Seq(Char) /\ Len(t) = n - 1
        /\ \A j \in 1 .. n - 1 : t[j] = IF j < i THEN s[j] ELSE s[j + 1]
  BY <1>5, <1>8, Removed
<1>10. ASSUME NEW x \in Char
       PROVE  /\ Count(t, 1 .. n - 1, x) \in Nat
              /\ Count(s, 1 .. n, x) = Count(t, 1 .. n - 1, x) + (IF e = x THEN 1 ELSE 0)
  <2> DEFINE D == 1 .. n
             B == D \ {i}
             E == 1 .. n - 1
             h == [j \in E |-> IF j < i THEN j ELSE j + 1]
  <2>1. h \in [E -> B]
    BY <1>1
  <2>2. \A j, k \in E : h[j] = h[k] => j = k
    BY <1>1
  <2>3. \A k \in B : \E j \in E : h[j] = k
    <3> SUFFICES ASSUME NEW k \in B PROVE \E j \in E : h[j] = k
      OBVIOUS
    <3>1. CASE k < i
      <4>1. k \in E /\ h[k] = k
        BY <1>1, <3>1
      <4> QED BY <4>1
    <3>2. CASE ~ (k < i)
      <4>1. k - 1 \in E /\ h[k - 1] = k
        BY <1>1, <3>2
      <4> QED BY <4>1
    <3> QED BY <3>1, <3>2
  <2>4. \A j \in E : t[j] = s[h[j]]
    BY <1>9
  <2>5. IsFiniteSet(D) /\ i \in D /\ B = D \ {i} /\ s[i] = e
    BY <1>6, <1>9
  <2>6. IsFiniteSet(B)
    BY <2>5, FS_Subset
  <2> HIDE DEF h, t, E, D, B
  <2>7. Count(t, E, x) = Count(s, B, x)
    BY <2>1, <2>2, <2>3, <2>4, <2>6, SameCount
  <2>8. /\ Count(s, B, x) \in Nat
        /\ Count(s, D, x) = Count(s, B, x) + (IF s[i] = x THEN 1 ELSE 0)
    BY <2>5, CountWithout
  <2> QED BY <2>5, <2>7, <2>8 DEF D, E
<1>11. SameKeys(d, n - 1, t)
  <2>1. ASSUME NEW x \in Char PROVE Count(d, 0 .. n - 2, x) = Count(t, 1 .. n - 1, x)
    <3>1. Count(b, 0 .. n - 1, x) = Count(s, 1 .. n, x)
      BY DEF SameKeys
    <3> HIDE DEF d, t
    <3> QED BY <1>7, <1>10, <3>1
  <2>2. n - 1 - 1 = n - 2
    BY <1>1
  <2> HIDE DEF d, t
  <2> QED BY <1>9, <2>1, <2>2 DEF SameKeys
<1>12. InOrder(b, n, s) => InOrder(d, n - 1, t)
  <2> SUFFICES ASSUME InOrder(b, n, s), NEW j \in 1 .. n - 1 PROVE t[j] = d[j - 1]
    BY DEF InOrder
  <2>1. i = 1
    <3>1. s[1] = e
      BY <1>1 DEF InOrder, e
    <3>2. i # 1 => 1 \in 1 .. i - 1
      BY <1>1
    <3> QED BY <1>9, <3>1, <3>2
  <2>2. t[j] = s[j + 1] /\ j + 1 \in 1 .. n /\ j + 1 - 1 = j
    BY <1>1, <1>9, <2>1
  <2>3. j - 1 \in Places /\ j - 1 # KEYBOARD_SIZE - 1 /\ j - 1 + 1 = j
    BY <1>1 DEF Places
  <2>4. d[j - 1] = b[j]
    BY <1>2, <2>3
  <2> QED BY <2>2, <2>4 DEF InOrder
<1> QED BY <1>4, <1>11, <1>12 DEF e

-----------------------------------------------------------------------------
(* The key buffer is a string, and in order *)

KeysOK(b, n, k, s, a) ==
  /\ Filled(b, n) /\ SameKeys(b, n, s)
  /\ k \in 0 .. n
  /\ a \in BOOLEAN /\ (~ a => InOrder(b, n, s))

KeysInv == shift \in {0, 1} /\ \E n : KeysOK(buffer, n, buffer_index, typed, ahead)

LEMMA KeysInit == Init => KeysInv
<1> SUFFICES ASSUME Init PROVE KeysInv
  OBVIOUS
<1>1. shift \in {0, 1}
  BY DEF Init
<1>2. KEYBOARD_SIZE \in Nat \ {0, 1, 2}
  BY TerminalAssumption
<1>3. buffer = EmptyBuffer /\ buffer_index = 0 /\ typed = <<>> /\ ahead = FALSE
  BY DEF Init
<1>4. Filled(buffer, 0)
  <2>1. buffer \in [Places -> Char] /\ \A i \in Places : buffer[i] = "nul" /\ 0 <= i
    BY <1>2, <1>3, NulIsChar DEF EmptyBuffer, Places
  <2> QED BY <1>2, <2>1 DEF Filled
<1>5. typed \in Seq(Char) /\ Len(typed) = 0
  BY <1>3
<1>6. 0 .. 0 - 1 = {} /\ 1 .. 0 = {}
  OBVIOUS
<1>7. SameKeys(buffer, 0, typed)
  <2>1. ASSUME NEW x \in Char PROVE Count(buffer, 0 .. 0 - 1, x) = Count(typed, 1 .. 0, x)
    BY <1>6 DEF Count
  <2> QED BY <1>5, <2>1 DEF SameKeys
<1>8. InOrder(buffer, 0, typed)
  BY <1>6 DEF InOrder
<1>9. buffer_index \in 0 .. 0 /\ ahead \in BOOLEAN
  <2>1. ahead \in BOOLEAN
    BY <1>3, Zenon
  <2> QED BY <1>3, <2>1
<1>10. KeysOK(buffer, 0, buffer_index, typed, ahead)
  BY <1>4, <1>7, <1>8, <1>9 DEF KeysOK
<1> QED BY <1>1, <1>10 DEF KeysInv

(* A key is pressed.                                                       *)
LEMMA KeysPress ==
  ASSUME NEW key, KeysInv, PressKey(key)
  PROVE  KeysInv'
<1> DEFINE c == Meaning(key)
<1>1. shift' \in {0, 1}
  BY DEF PressKey, KeysInv
<1>2. KEYBOARD_SIZE \in Nat \ {0, 1, 2}
  BY TerminalAssumption
<1>3. PICK n : KeysOK(buffer, n, buffer_index, typed, ahead)
  BY DEF KeysInv
<1>4. n \in 0 .. KEYBOARD_SIZE - 1 /\ Filled(buffer, n) /\ SameKeys(buffer, n, typed)
  BY <1>3 DEF KeysOK, Filled
<1>5. Pending = n /\ (Full <=> n = KEYBOARD_SIZE - 1)
  BY <1>4, FilledCount
<1>6. c \in Char \ {"nul"}
  <2>1. Pressed[shift] \subseteq DOMAIN unshifted_keys
    BY TerminalAssumption DEF PressKey, KeysInv
  <2>2. c # "nul" /\ c \in Range(unshifted_keys) \cup Range(shifted_keys)
    BY <2>1, TerminalAssumption DEF PressKey, Meaning, Range
  <2> QED BY <2>2 DEF Char, Characters
<1>7. /\ addtoBuffer(c)
      /\ typed' = Append(IF Full THEN RemoveFirst(typed, buffer[0]) ELSE typed, c)
      /\ ahead' = (ahead \/ Pending # buffer_index \/ Full)
  BY DEF PressKey
<1> HIDE DEF c
<1>8. CASE ~ Full
  <2>1. /\ buffer' = Inserted(buffer, buffer_index, c) /\ buffer_index' = buffer_index + 1
        /\ typed' = Append(typed, c) /\ ahead' = (ahead \/ n # buffer_index)
    BY <1>5, <1>7, <1>8 DEF addtoBuffer
  <2>2. n < KEYBOARD_SIZE - 1 /\ buffer_index \in 0 .. n
    BY <1>2, <1>3, <1>4, <1>5, <1>8 DEF KeysOK
  <2> DEFINE k == buffer_index
  <2> HIDE DEF k
  <2>3. /\ Filled(buffer', n + 1) /\ SameKeys(buffer', n + 1, typed')
        /\ k = n /\ InOrder(buffer, n, typed) => InOrder(buffer', n + 1, typed')
    BY <1>4, <1>6, <2>1, <2>2, InsertKeys DEF k
  <2>4. buffer_index' \in 0 .. n + 1
    BY <1>4, <2>1, <2>2
  <2>5. ahead' \in BOOLEAN /\ (~ ahead' => InOrder(buffer', n + 1, typed'))
    BY <1>3, <2>1, <2>3 DEF KeysOK, k
  <2>6. KeysOK(buffer', n + 1, buffer_index', typed', ahead')
    BY <2>3, <2>4, <2>5 DEF KeysOK
  <2> QED BY <1>1, <2>6 DEF KeysInv
<1>9. CASE Full
  <2> DEFINE d == ShiftedLeft(buffer)
             t == RemoveFirst(typed, buffer[0])
             m == n - 1
             k == 0
  <2>1. buffer' = Inserted(d, k, c) /\ buffer_index' = 1 /\ typed' = Append(t, c)
    BY <1>7, <1>9 DEF addtoBuffer
  <2>2. ahead' = TRUE
    BY <1>7, <1>9, Zenon
  <2>3. n > 0 /\ m < KEYBOARD_SIZE - 1 /\ m + 1 = n /\ k \in 0 .. m /\ 1 \in 0 .. n
    BY <1>2, <1>4, <1>5, <1>9
  <2>4. Filled(d, m) /\ SameKeys(d, m, t)
    BY <1>4, <2>3, ShiftKeys
  <2> HIDE DEF d, t, m, k
  <2>5. Filled(buffer', m + 1) /\ SameKeys(buffer', m + 1, typed')
    BY <1>6, <2>1, <2>3, <2>4, InsertKeys
  <2>6. KeysOK(buffer', n, buffer_index', typed', ahead')
    BY <2>2, <2>1, <2>3, <2>5 DEF KeysOK
  <2> QED BY <1>1, <2>6 DEF KeysInv
<1> QED BY <1>8, <1>9

(* A key is read, if there is one.                                         *)
LEMMA KeysRead ==
  ASSUME KeysInv, getFirstInBuffer, UNCHANGED shift
  PROVE  KeysInv'
<1> DEFINE d == ShiftedLeft(buffer)
           t == RemoveFirst(typed, buffer[0])
<1>1. KEYBOARD_SIZE \in Nat \ {0, 1, 2}
  BY TerminalAssumption
<1>2. PICK n : KeysOK(buffer, n, buffer_index, typed, ahead)
  BY DEF KeysInv
<1>3. n \in 0 .. KEYBOARD_SIZE - 1 /\ Filled(buffer, n) /\ SameKeys(buffer, n, typed)
  BY <1>2 DEF KeysOK, Filled
<1>4. Pending = n
  BY <1>3, FilledCount
<1>5. buffer' = d /\ buffer_index' = 0 /\ typed' = t /\ ahead' = (ahead /\ n > 1)
  BY <1>4 DEF getFirstInBuffer
<1>6. CASE n > 0
  <2> DEFINE m == n - 1
  <2>1. /\ Filled(d, m) /\ SameKeys(d, m, t)
        /\ InOrder(buffer, n, typed) => InOrder(d, m, t)
    BY <1>3, <1>6, ShiftKeys
  <2>2. m \in Nat /\ 0 \in 0 .. m
    BY <1>3, <1>6
  <2> HIDE DEF d, t
  <2>3. ahead' \in BOOLEAN /\ (~ ahead' => InOrder(buffer', m, typed'))
    <3>1. CASE n > 1
      BY <1>2, <1>5, <2>1, <3>1 DEF KeysOK
    <3>2. CASE ~ (n > 1)
      <4>1. 1 .. m = {}
        BY <1>3, <1>6, <3>2
      <4>2. ahead' = FALSE
        BY <1>5, <3>2
      <4> QED BY <4>1, <4>2 DEF InOrder
    <3> QED BY <3>1, <3>2
  <2> HIDE DEF m
  <2>4. KeysOK(buffer', m, buffer_index', typed', ahead')
    BY <1>5, <2>1, <2>2, <2>3 DEF KeysOK
  <2> QED BY <2>4 DEF KeysInv
<1>7. CASE n = 0
  <2> DEFINE e == buffer[0]
             u == typed
  <2>1. u \in Seq(Char) /\ Len(u) = 0
    BY <1>3, <1>7 DEF SameKeys
  <2>2. t = typed
    <3>1. \A i \in 1 .. Len(u) : u[i] # e
      BY <2>1
    <3>2. t = RemoveFirst(u, e)
      OBVIOUS
    <3> HIDE DEF e, u, t
    <3>3. RemoveFirst(u, e) = u
      BY <2>1, <3>1, NotThere
    <3> QED BY <3>2, <3>3 DEF u
  <2>3. \A i \in Places : buffer[i] = "nul"
    BY <1>3, <1>7 DEF Filled, Places
  <2>4. d = buffer
    <3>1. \A i \in Places : i # KEYBOARD_SIZE - 1 => i + 1 \in Places
      BY <1>1 DEF Places
    <3>2. d \in [Places -> Char] /\ buffer \in [Places -> Char] /\ \A i \in Places : d[i] = buffer[i]
      BY <1>3, <2>3, <3>1 DEF ShiftedLeft, Filled
    <3> HIDE DEF d
    <3> QED BY <3>2
  <2> HIDE DEF d, t
  <2>5. 1 .. n = {} /\ 0 \in 0 .. n /\ ~ (n > 1)
    BY <1>7
  <2>6. ahead' = FALSE
    BY <1>5, <2>5, Zenon
  <2>7. KeysOK(buffer', n, buffer_index', typed', ahead')
    BY <1>3, <1>5, <2>2, <2>4, <2>5, <2>6 DEF KeysOK, InOrder
  <2> QED BY <2>7 DEF KeysInv
<1> QED BY <1>3, <1>6, <1>7

LEMMA KeysInductive == KeysInv /\ [Next]_vars => KeysInv'
<1> SUFFICES ASSUME KeysInv, [Next]_vars PROVE KeysInv'
  OBVIOUS
<1>1. ASSUME NEW key, PressKey(key) PROVE KeysInv'
  BY <1>1, KeysPress
<1>2. CASE Edits
  <2>1. getFirstInBuffer /\ UNCHANGED shift
    BY <1>2 DEF Edits
  <2> QED BY <2>1, KeysRead
<1>3. ASSUME UNCHANGED <<shift, buffer, buffer_index, typed, ahead>> PROVE KeysInv'
  BY <1>3 DEF KeysInv
<1>4. CASE UNCHANGED vars
  BY <1>3, <1>4 DEF vars
<1>5. CASE ShellStarts \/ Prompts \/ Interprets \/ CommandEnds
  BY <1>3, <1>5 DEF ShellStarts, Prompts, Interprets, CommandEnds, keyboard
<1>6. ASSUME NEW key, PressShift(key) PROVE KeysInv'
  BY <1>6 DEF PressShift, KeysInv
<1> QED BY <1>1, <1>2, <1>4, <1>5, <1>6 DEF Next

LEMMA KeysAlways == Spec => []KeysInv
<1> QED BY KeysInit, KeysInductive, PTL DEF Spec

(* The buffer is a string in every moment: empty from the first empty place *)
(* on, and the last place is empty (addtoBuffer, shiftBufferLeft and        *)
(* shiftBufferRight of keyboard.c).                                         *)
THEOREM BufferIsStringHolds == Spec => []BufferIsString
<1>1. ASSUME KeysInv PROVE BufferIsString
  <2>1. PICK n : KeysOK(buffer, n, buffer_index, typed, ahead)
    BY <1>1 DEF KeysInv
  <2>2. KEYBOARD_SIZE \in Nat \ {0, 1, 2}
    BY TerminalAssumption
  <2>3. n \in 0 .. KEYBOARD_SIZE - 1 /\ \A i \in Places : buffer[i] = "nul" <=> n <= i
    BY <2>1 DEF KeysOK, Filled
  <2>4. KEYBOARD_SIZE - 1 \in Places /\ \A i \in Places \ {0} : i - 1 \in Places
    BY <2>2 DEF Places
  <2>5. buffer[KEYBOARD_SIZE - 1] = "nul"
    BY <2>2, <2>3, <2>4
  <2>6. ASSUME NEW i \in Places \ {0}, buffer[i] # "nul" PROVE buffer[i - 1] # "nul"
    BY <2>2, <2>3, <2>4, <2>6 DEF Places
  <2> QED BY <2>5, <2>6 DEF BufferIsString
<1> QED BY <1>1, KeysAlways, PTL

(* The same elements as often make the same bag.                           *)
LEMMA SameBag ==
  ASSUME NEW n \in Nat, NEW s \in Seq(Char), NEW t \in Seq(Char), Len(s) = n, Len(t) = n,
         \A x \in Char : Count(s, 1 .. n, x) = Count(t, 1 .. n, x)
  PROVE  ToBag(s) = ToBag(t)
<1> DEFINE D == 1 .. n
           c(r, x) == Cardinality({i \in D : r[i] = x})
<1>1. IsFiniteSet(D)
  <2>1. 1 \in Int /\ n \in Int
    OBVIOUS
  <2> QED BY <2>1, FiniteInterval
<1>2. DOMAIN s = D /\ DOMAIN t = D
  OBVIOUS
<1>3. \A x \in Char : c(s, x) = c(t, x)
  BY DEF Count
<1>4. Range(s) = {s[i] : i \in D} /\ Range(t) = {t[i] : i \in D}
  BY <1>2 DEF Range
<1>5. \A i \in D : s[i] \in Char /\ t[i] \in Char
  BY <1>2
<1>6. ASSUME NEW x \in Char PROVE (\E i \in D : s[i] = x) <=> (\E i \in D : t[i] = x)
  <2>1. Count(s, D, x) = Count(t, D, x)
    OBVIOUS
  <2> HIDE DEF D
  <2>2. Count(s, D, x) # 0 <=> \E i \in D : s[i] = x
    BY <1>1, Counts
  <2>3. Count(t, D, x) # 0 <=> \E i \in D : t[i] = x
    BY <1>1, Counts
  <2> QED BY <2>1, <2>2, <2>3
<1>7. Range(s) = Range(t) /\ Range(s) \subseteq Char
  <2> HIDE DEF D
  <2>1. \A x : x \in Range(s) => x \in Char /\ x \in Range(t)
    BY <1>4, <1>5, <1>6
  <2>2. \A x : x \in Range(t) => x \in Char /\ x \in Range(s)
    BY <1>4, <1>5, <1>6
  <2> QED BY <2>1, <2>2
<1>8. ToBag(s) = [x \in Range(s) |-> c(s, x)] /\ ToBag(t) = [x \in Range(t) |-> c(t, x)]
  BY <1>2 DEF ToBag
<1> HIDE DEF c, D
<1> QED BY <1>3, <1>7, <1>8

(* Keys come out in the order in which they were pressed as long as nobody  *)
(* types while a line is half read, or more than the buffer holds; none is  *)
(* doubled or lost, but for the one a full buffer gives up (keyboard.c).    *)
THEOREM KeysInOrderHolds == Spec => []KeysInOrder
<1>1. ASSUME KeysInv PROVE KeysInOrder
  <2>1. PICK n : KeysOK(buffer, n, buffer_index, typed, ahead)
    BY <1>1 DEF KeysInv
  <2>2. /\ Filled(buffer, n) /\ SameKeys(buffer, n, typed)
        /\ ~ ahead => InOrder(buffer, n, typed)
    BY <2>1 DEF KeysOK
  <2>3. KEYBOARD_SIZE \in Nat \ {0, 1, 2} /\ n \in 0 .. KEYBOARD_SIZE - 1 /\ n \in Nat
    BY <2>2, TerminalAssumption DEF Filled
  <2>4. Content = [k \in 1 .. n |-> buffer[k - 1]]
    BY <2>2, FilledCount DEF Content
  <2>5. \A k \in 1 .. n : k - 1 \in Places
    BY <2>3 DEF Places
  <2> DEFINE t == typed
             u == Content
  <2>6. u \in Seq(Char) /\ Len(u) = n /\ \A k \in 1 .. n : u[k] = buffer[k - 1]
    <3>1. u \in [1 .. n -> Char]
      BY <2>2, <2>4, <2>5 DEF Filled
    <3>2. u \in Seq(Char) /\ Len(u) = n
      BY <2>3, <3>1
    <3> QED BY <2>4, <3>2
  <2>7. t \in Seq(Char) /\ Len(t) = n
    BY <2>2 DEF SameKeys
  <2>8. ~ ahead => u = t
    <3> SUFFICES ASSUME ~ ahead PROVE u = t
      OBVIOUS
    <3>1. \A k \in 1 .. n : t[k] = u[k]
      BY <2>2, <2>6 DEF InOrder
    <3> HIDE DEF t, u
    <3> QED BY <2>6, <2>7, <3>1
  <2>9. ToBag(u) = ToBag(t)
    <3>1. ASSUME NEW x \in Char PROVE Count(u, 1 .. n, x) = Count(t, 1 .. n, x)
      <4> DEFINE D == 0 .. n - 1
                 E == 1 .. n
                 h == [j \in E |-> j - 1]
      <4>1. IsFiniteSet(D)
        <5>1. 0 \in Int /\ n - 1 \in Int
          BY <2>3
        <5> QED BY <5>1, FiniteInterval
      <4>2. h \in [E -> D]
        BY <2>3
      <4>3. \A i, j \in E : h[i] = h[j] => i = j
        BY <2>3
      <4>4. \A i \in D : \E j \in E : h[j] = i
        <5> SUFFICES ASSUME NEW i \in D PROVE \E j \in E : h[j] = i
          OBVIOUS
        <5>1. i + 1 \in E /\ h[i + 1] = i
          BY <2>3
        <5> QED BY <5>1
      <4>5. \A j \in E : u[j] = buffer[h[j]]
        BY <2>6
      <4> HIDE DEF h, E, D, u
      <4>6. Count(u, E, x) = Count(buffer, D, x)
        BY <4>1, <4>2, <4>3, <4>4, <4>5, SameCount
      <4> QED BY <2>2, <4>6 DEF SameKeys, D, E
    <3> HIDE DEF t, u
    <3> QED BY <2>3, <2>6, <2>7, <3>1, SameBag
  <2> QED BY <2>8, <2>9 DEF KeysInOrder
<1> QED BY <1>1, KeysAlways, PTL

-----------------------------------------------------------------------------
(* The console *)

\* The lines of the screen.
Rows == {y \in 0 .. Con!LAST_LINE : \E n \in Nat : y = n * CHAR_HEIGHT}

Consoles == [x : Nat, y : Rows, line : [Con!Columns -> Characters],
             right : 0 .. SCREEN_WIDTH - 1, bottom : 0 .. SCREEN_HEIGHT - 1]

LEMMA Sizes ==
  /\ SCREEN_WIDTH \in Nat \ {0} /\ SCREEN_HEIGHT \in Nat \ {0}
  /\ CHAR_WIDTH \in Nat \ {0} /\ CHAR_HEIGHT \in Nat \ {0}
  /\ CHAR_WIDTH < SCREEN_WIDTH /\ CHAR_HEIGHT <= SCREEN_HEIGHT
  /\ Con!LAST_LINE = SCREEN_HEIGHT - CHAR_HEIGHT /\ Con!LAST_LINE \in Nat
BY TerminalAssumption DEF Con!LAST_LINE

(* A multiple that is less is less by the number at least.                  *)
LEMMA Multiples ==
  ASSUME NEW h \in Nat \ {0}, NEW a \in Nat, NEW b \in Nat, a * h < b * h
  PROVE  (a + 1) * h <= b * h
<1>1. ~ (b <= a)
  <2> SUFFICES ASSUME b <= a PROVE FALSE
    OBVIOUS
  <2>1. PICK d \in Nat : a = b + d
    <3>1. a - b \in Nat /\ a = b + (a - b)
      OBVIOUS
    <3> QED BY <3>1
  <2>2. a * h = b * h + d * h /\ d * h \in Nat /\ b * h \in Nat
    BY <2>1
  <2> QED BY <2>2
<1>2. PICK d \in Nat : b = (a + 1) + d
  <2>1. b - (a + 1) \in Nat /\ b = (a + 1) + (b - (a + 1))
    BY <1>1
  <2> QED BY <2>1
<1>3. b * h = (a + 1) * h + d * h /\ d * h \in Nat /\ (a + 1) * h \in Nat
  BY <1>2
<1> QED BY <1>3

LEMMA RowsBelow ==
  /\ 0 \in Rows /\ Con!LAST_LINE \in Rows
  /\ \A y \in Rows : y + CHAR_HEIGHT < SCREEN_HEIGHT => y + CHAR_HEIGHT \in Rows
  /\ \A y \in Rows : y \in Nat /\ y <= Con!LAST_LINE /\ y + CHAR_HEIGHT <= SCREEN_HEIGHT
<1>1. PICK m \in Nat : SCREEN_HEIGHT = m * CHAR_HEIGHT
  BY Sizes, ScreenAssumption
<1> DEFINE h == CHAR_HEIGHT
<1>2. h \in Nat \ {0}
  BY Sizes
<1>3. 0 \in Rows
  <2>1. 0 = 0 * h
    BY <1>2
  <2> QED BY <2>1, Sizes DEF Rows
<1>4. Con!LAST_LINE \in Rows
  <2>1. m # 0
    <3>1. m = 0 => m * h = 0
      BY <1>2
    <3> QED BY <1>1, <3>1, Sizes
  <2>2. m - 1 \in Nat /\ m = (m - 1) + 1
    BY <2>1
  <2>3. m * h = (m - 1) * h + h /\ (m - 1) * h \in Nat
    BY <1>2, <2>2
  <2>4. Con!LAST_LINE = (m - 1) * h
    BY <1>1, <1>2, <2>3, Sizes
  <2>5. \E n \in Nat : Con!LAST_LINE = n * CHAR_HEIGHT
    BY <2>2, <2>4
  <2> QED BY <2>5, Sizes DEF Rows
<1>5. \A y \in Rows : y \in Nat /\ y <= Con!LAST_LINE /\ y + CHAR_HEIGHT <= SCREEN_HEIGHT
  BY Sizes DEF Rows
<1>6. ASSUME NEW y \in Rows, y + h < SCREEN_HEIGHT PROVE y + h \in Rows
  <2>1. PICK n \in Nat : y = n * h
    BY DEF Rows
  <2>2. y + h = (n + 1) * h /\ n + 1 \in Nat
    BY <1>2, <2>1
  <2>3. (n + 1) * h < m * h
    BY <1>1, <1>6, <2>2
  <2> HIDE DEF h
  <2>4. ((n + 1) + 1) * h <= m * h
    BY <1>2, <2>2, <2>3, Multiples
  <2>5. ((n + 1) + 1) * h = y + h + h
    BY <1>2, <2>1, <2>2
  <2>6. y + h + h <= SCREEN_HEIGHT
    BY <1>1, <2>4, <2>5 DEF h
  <2>7. y \in Nat /\ SCREEN_HEIGHT \in Nat /\ Con!LAST_LINE = SCREEN_HEIGHT - h
    BY <1>5, Sizes DEF h
  <2>8. y + h \in 0 .. Con!LAST_LINE
    BY <1>2, <2>6, <2>7
  <2>9. \E k \in Nat : y + h = k * CHAR_HEIGHT
    BY <2>2 DEF h
  <2> QED BY <2>8, <2>9 DEF Rows
<1> QED BY <1>3, <1>4, <1>5, <1>6

LEMMA CursorOK ==
  ASSUME NEW c \in Consoles, NEW x \in Nat, NEW y \in Rows
  PROVE  /\ Con!setCursor(c, x, y) \in Consoles
         /\ Con!setCursor(c, x, y).x = x /\ Con!setCursor(c, x, y).y = y
         /\ Con!setCursor(c, x, y).line = c.line
BY DEF Consoles, Con!setCursor

LEMMA EmptyOK == Con!EmptyLine \in [Con!Columns -> Characters]
BY DEF Con!EmptyLine, Characters

LEMMA ScrolledOK ==
  ASSUME NEW c \in Consoles, NEW n \in Nat
  PROVE  Con!Scrolled(c, n) \in Consoles
BY EmptyOK DEF Consoles, Con!Scrolled

(* What is drawn within the screen.                                        *)
LEMMA DrawnOK ==
  ASSUME NEW c \in Consoles, NEW ch \in Characters, NEW s \in Nat \ {0},
         c.x + CHAR_WIDTH * s + s - 1 < SCREEN_WIDTH,
         c.y + CHAR_HEIGHT * s <= SCREEN_HEIGHT
  PROVE  LET d == Con!Drawn(c, ch, s) IN
         /\ d \in Consoles
         /\ d.x = c.x + CHAR_WIDTH * s /\ d.y = c.y
         /\ d.line = IF c.y + CHAR_HEIGHT * s > Con!LAST_LINE /\ c.x \in Con!Columns
                     THEN [c.line EXCEPT ![c.x] = ch] ELSE c.line
<1> DEFINE d == Con!Drawn(c, ch, s)
           i == Con!Inked(c, s)
           w == CHAR_WIDTH * s
           h == CHAR_HEIGHT * s
<1>1. w \in Nat /\ h \in Nat \ {0}
  <2>1. CHAR_WIDTH * s \in Nat /\ CHAR_HEIGHT * s \in Nat /\ CHAR_HEIGHT * s > 0
    BY Sizes
  <2> QED BY <2>1
<1>2. /\ c.x \in Nat /\ c.y \in Nat /\ c.y \in Rows /\ c.line \in [Con!Columns -> Characters]
      /\ c.right \in 0 .. SCREEN_WIDTH - 1 /\ c.bottom \in 0 .. SCREEN_HEIGHT - 1
  BY RowsBelow DEF Consoles
<1> DEFINE r == Con!AtLeast(c.right, c.x + w + s - 1)
           b == Con!AtLeast(c.bottom, c.y + h - 1)
<1> HIDE DEF w, h
<1>3. r \in 0 .. SCREEN_WIDTH - 1 /\ b \in 0 .. SCREEN_HEIGHT - 1
  BY <1>1, <1>2, Sizes DEF Con!AtLeast, w, h
<1>4. /\ i \in Consoles /\ i.x = c.x /\ i.y = c.y /\ i.line = c.line
  BY <1>2, <1>3 DEF Consoles, Con!Inked, w, h
<1> DEFINE l == IF c.y + h > Con!LAST_LINE /\ c.x \in Con!Columns
                THEN [c.line EXCEPT ![c.x] = ch] ELSE c.line
<1>5. l \in [Con!Columns -> Characters]
  BY <1>2
<1> HIDE DEF r, b, i, l
<1>6. d = [i EXCEPT !.x = i.x + w, !.line = l]
  BY <1>4 DEF Con!Drawn, i, w, h, l
<1>7. i.x + w \in Nat
  BY <1>1, <1>2, <1>4
<1> HIDE DEF d
<1>8. d \in Consoles /\ d.x = i.x + w /\ d.y = i.y /\ d.line = l
  BY <1>4, <1>5, <1>6, <1>7 DEF Consoles
<1> QED BY <1>4, <1>8 DEF d, w, h, l

(* One step of the text cursor, which keeps the screen's lines.             *)
LEMMA WrappedOK ==
  ASSUME NEW c \in Consoles
  PROVE  LET d == Con!Wrapped(c, 1) IN
         /\ d \in Consoles /\ d.x + CHAR_WIDTH < SCREEN_WIDTH
         /\ c.x + CHAR_WIDTH < SCREEN_WIDTH => d = c
         /\ ~ (c.x + CHAR_WIDTH < SCREEN_WIDTH) =>
              d.x = 0 /\ (d.line = Con!EmptyLine \/ (d.line = c.line /\ c.y < Con!LAST_LINE))
<1>1. CHAR_WIDTH * 1 = CHAR_WIDTH /\ CHAR_HEIGHT * 1 = CHAR_HEIGHT
  BY Sizes
<1>2. c.x \in Nat /\ c.y \in Rows
  BY DEF Consoles
<1>3. CASE c.x + CHAR_WIDTH < SCREEN_WIDTH
  BY <1>1, <1>3 DEF Con!Wrapped
<1> DEFINE z == 0
<1>4. CASE ~ (c.x + CHAR_WIDTH < SCREEN_WIDTH) /\ c.y + CHAR_HEIGHT >= SCREEN_HEIGHT
  <2> DEFINE e == Con!Scrolled(c, 1)
             y == Con!LAST_LINE
  <2>1. Con!Wrapped(c, 1) = Con!setCursor(e, z, y)
    BY <1>1, <1>4, Sizes DEF Con!Wrapped
  <2>2. e \in Consoles /\ y \in Rows /\ z \in Nat
    BY ScrolledOK, RowsBelow
  <2>3. e.line = Con!EmptyLine
    BY DEF Con!Scrolled, Consoles
  <2> HIDE DEF e, y, z
  <2>4. /\ Con!setCursor(e, z, y) \in Consoles /\ Con!setCursor(e, z, y).x = z
        /\ Con!setCursor(e, z, y).line = e.line
    BY <2>2, CursorOK
  <2> QED BY <1>4, <2>1, <2>4, <2>3, Sizes DEF z
<1>5. CASE ~ (c.x + CHAR_WIDTH < SCREEN_WIDTH) /\ ~ (c.y + CHAR_HEIGHT >= SCREEN_HEIGHT)
  <2> DEFINE y == c.y + CHAR_HEIGHT
  <2>1. Con!Wrapped(c, 1) = Con!setCursor(c, z, y)
    BY <1>1, <1>5 DEF Con!Wrapped
  <2>2. c.y \in Nat /\ CHAR_HEIGHT \in Nat /\ SCREEN_HEIGHT \in Nat
    BY <1>2, RowsBelow, Sizes
  <2>3. c.y + CHAR_HEIGHT < SCREEN_HEIGHT
    BY <1>5, <2>2
  <2>4. y \in Rows /\ z \in Nat
    BY <1>2, <2>3, RowsBelow
  <2> HIDE DEF y, z
  <2>5. /\ Con!setCursor(c, z, y) \in Consoles /\ Con!setCursor(c, z, y).x = z
        /\ Con!setCursor(c, z, y).line = c.line
    BY <2>4, CursorOK
  <2>6. c.y < Con!LAST_LINE
    BY <2>2, <2>3, Sizes
  <2> QED BY <1>5, <2>1, <2>5, <2>6, Sizes DEF z
<1> QED BY <1>3, <1>4, <1>5

LEMMA PrintedOK ==
  ASSUME NEW c \in Consoles, NEW ch \in Characters
  PROVE  Con!printChar(c, ch) \in Consoles
<1> DEFINE d == Con!Wrapped(c, 1)
           s == 1
<1>1. d \in Consoles /\ d.x + CHAR_WIDTH < SCREEN_WIDTH
  BY WrappedOK
<1>2. /\ d.x \in Nat /\ d.y \in Rows /\ s \in Nat \ {0}
      /\ CHAR_WIDTH * s = CHAR_WIDTH /\ CHAR_HEIGHT * s = CHAR_HEIGHT
  BY <1>1, Sizes DEF Consoles
<1> HIDE DEF d
<1>3. d.x + CHAR_WIDTH * s + s - 1 < SCREEN_WIDTH /\ d.y + CHAR_HEIGHT * s <= SCREEN_HEIGHT
  <2>1. d.y \in Nat /\ d.y + CHAR_HEIGHT <= SCREEN_HEIGHT
    BY <1>2, RowsBelow
  <2>2. d.x + CHAR_WIDTH + 1 - 1 < SCREEN_WIDTH
    BY <1>1, <1>2, Sizes
  <2> QED BY <1>2, <2>1, <2>2
<1> HIDE DEF s
<1>4. Con!Drawn(d, ch, s) \in Consoles
  BY <1>1, <1>2, <1>3, DrawnOK
<1> QED BY <1>4 DEF Con!printChar, d, s

LEMMA NewLineOK ==
  ASSUME NEW c \in Consoles
  PROVE  Con!newLine(c) \in Consoles
<1> DEFINE z == 0
<1>1. CASE c.y < Con!LAST_LINE
  <2> DEFINE y == c.y + CHAR_HEIGHT
  <2>1. Con!newLine(c) = Con!setCursor(c, z, y)
    BY <1>1 DEF Con!newLine
  <2>2. c.y \in Rows
    BY DEF Consoles
  <2>3. c.y \in Nat
    BY <2>2, RowsBelow
  <2>4. c.y + CHAR_HEIGHT < SCREEN_HEIGHT
    BY <1>1, <2>3, Sizes
  <2>5. y \in Rows /\ z \in Nat
    BY <2>2, <2>4, RowsBelow
  <2> HIDE DEF y, z
  <2> QED BY <2>1, <2>5, CursorOK
<1>2. CASE ~ (c.y < Con!LAST_LINE)
  <2> DEFINE e == Con!Scrolled(c, 1)
             y == Con!LAST_LINE
  <2>1. Con!newLine(c) = Con!setCursor(e, z, y)
    BY <1>2 DEF Con!newLine
  <2>2. e \in Consoles /\ y \in Rows /\ z \in Nat
    BY ScrolledOK, RowsBelow
  <2> HIDE DEF e, y, z
  <2> QED BY <2>1, <2>2, CursorOK
<1> QED BY <1>1, <1>2

IsText(text, n) == \A k \in 1 .. n : text[k] \in Characters

Prints(f, c, text, n) ==
  /\ f \in [0 .. n -> Consoles]
  /\ f[0] = c /\ \A k \in 1 .. n : f[k] = Con!printChar(f[k - 1], text[k])
  /\ Con!print(c, text, n) = f[n]

(* What print does: character after character.                             *)
LEMMA Printing ==
  ASSUME NEW c \in Consoles, NEW n \in Nat, NEW text, IsText(text, n)
  PROVE  \E f : Prints(f, c, text, n)
<1> DEFINE D == Consoles
           step == [p \in D \X (1 .. n) |-> Con!printChar(p[1], text[p[2]])]
           Body(g, k) == IF k = 0 THEN c ELSE Con!printChar(g[k - 1], text[k])
           after == CHOOSE g : g = [k \in 0 .. n |-> Body(g, k)]
<1>1. step \in [D \X (1 .. n) -> D]
  BY PrintedOK DEF IsText
<1>2. \A d \in D, k \in 1 .. n : step[<<d, k>>] = Con!printChar(d, text[k])
  OBVIOUS
<1>3. c \in D
  OBVIOUS
<1> HIDE DEF D, step
<1>4. PICK g : IsRecursive(g, n, D, c, step)
  BY <1>3, <1>1, Recursion DEF IsStep
<1>5. /\ g \in [0 .. n -> D] /\ g[0] = c
      /\ \A k \in 1 .. n : g[k] = step[<<g[k - 1], k>>]
  BY <1>4 DEF IsRecursive
<1>6. \A k \in 1 .. n : k - 1 \in 0 .. n /\ k \in 0 .. n /\ k # 0
  OBVIOUS
<1>7. \A k \in 1 .. n : g[k] = Con!printChar(g[k - 1], text[k])
  BY <1>2, <1>5, <1>6
<1>8. g = [k \in 0 .. n |-> Body(g, k)]
  <2>1. ASSUME NEW k \in 0 .. n PROVE g[k] = Body(g, k)
    <3>1. k = 0 \/ k \in 1 .. n
      OBVIOUS
    <3> QED BY <1>5, <1>6, <1>7, <3>1
  <2> HIDE DEF Body
  <2> QED BY <1>5, <2>1
<1>9. Con!print(c, text, n) = after[n]
  BY DEF Con!print
<1> HIDE DEF Body
<1>10. after = [k \in 0 .. n |-> Body(after, k)]
  BY <1>8
<1> HIDE DEF after
<1> DEFINE S == {k \in 0 .. n : after[k] = g[k]}
<1>11. 0 \in S
  <2>1. 0 \in 0 .. n
    OBVIOUS
  <2>2. after[0] = Body(after, 0)
    BY <1>10, <2>1
  <2> QED BY <1>5, <2>1, <2>2 DEF Body
<1>12. ASSUME NEW k \in 1 .. n, k - 1 \in S PROVE k \in S
  <2>1. after[k] = Body(after, k) /\ after[k - 1] = g[k - 1]
    BY <1>6, <1>10, <1>12
  <2> QED BY <1>6, <1>7, <2>1 DEF Body
<1>13. n \in S
  <2> HIDE DEF S
  <2> QED BY <1>11, <1>12, UpTo
<1>14. Prints(g, c, text, n)
  BY <1>5, <1>7, <1>9, <1>13 DEF D, Prints
<1> QED BY <1>14

LEMMA PrintOK ==
  ASSUME NEW c \in Consoles, NEW n \in Nat, NEW text, IsText(text, n)
  PROVE  Con!print(c, text, n) \in Consoles
<1>1. PICK f : Prints(f, c, text, n)
  BY Printing
<1> QED BY <1>1 DEF Prints

\* A big character of the clock is inside of the screen.
Ticks(c, k) ==
  /\ c \in Consoles
  /\ c.x = CLOCK_X + k * (CHAR_WIDTH * BIG_FONT_SIZE) /\ c.y = CLOCK_Y

LEMMA TickOK ==
  ASSUME NEW k \in 1 .. CLOCK_LENGTH, NEW c, Ticks(c, k - 1)
  PROVE  Ticks(Con!printBigChar(c, "#", BIG_FONT_SIZE), k)
<1> DEFINE s == BIG_FONT_SIZE
           w == CHAR_WIDTH * s
           h == CHAR_HEIGHT * s
           m == k - 1
           ch == "#"
<1>1. /\ s \in Nat \ {0} /\ CLOCK_LENGTH \in Nat /\ CLOCK_X \in Nat /\ CLOCK_Y \in Nat
      /\ m \in Nat /\ k \in Nat /\ k <= CLOCK_LENGTH /\ k = m + 1
  BY ScreenAssumption
<1>2. w \in Nat /\ h \in Nat
  BY <1>1, Sizes
<1>3. /\ CLOCK_X + CLOCK_LENGTH * w + s - 1 < SCREEN_WIDTH
      /\ CLOCK_Y + h <= SCREEN_HEIGHT
  BY ScreenAssumption
<1>4. c \in Consoles /\ c.x = CLOCK_X + m * w /\ c.y = CLOCK_Y
  BY DEF Ticks
<1> HIDE DEF s, w, h, m, ch
<1>5. k * w = m * w + w /\ m * w \in Nat /\ k * w \in Nat
  BY <1>1, <1>2
<1>6. k * w <= CLOCK_LENGTH * w /\ CLOCK_LENGTH * w \in Nat
  <2>1. PICK d \in Nat : CLOCK_LENGTH = k + d
    <3>1. CLOCK_LENGTH - k \in Nat /\ CLOCK_LENGTH = k + (CLOCK_LENGTH - k)
      BY <1>1
    <3> QED BY <3>1
  <2>2. CLOCK_LENGTH * w = k * w + d * w /\ d * w \in Nat
    BY <1>1, <1>2, <2>1
  <2> QED BY <1>5, <2>2
<1> DEFINE kw == k * w
           mw == m * w
           lw == CLOCK_LENGTH * w
<1>7. kw = mw + w /\ mw \in Nat /\ kw \in Nat /\ kw <= lw /\ lw \in Nat
  BY <1>5, <1>6
<1>8. CLOCK_X + lw + s - 1 < SCREEN_WIDTH /\ c.x = CLOCK_X + mw
  BY <1>3, <1>4
<1> HIDE DEF kw, mw, lw
<1>9. c.x + w + s - 1 < SCREEN_WIDTH /\ c.x + w < SCREEN_WIDTH
  BY <1>1, <1>2, <1>7, <1>8, Sizes
<1>10. Con!Wrapped(c, s) = c
  BY <1>9 DEF Con!Wrapped, w
<1>11. Con!Raised(c, s) = c
  BY <1>3, <1>4 DEF Con!Raised, h
<1>12. Con!printBigChar(c, ch, s) = Con!Drawn(c, ch, s)
  BY <1>10, <1>11 DEF Con!printBigChar
<1>13. ch \in Characters
  BY DEF ch, Characters
<1>14. c.x + CHAR_WIDTH * s + s - 1 < SCREEN_WIDTH /\ c.y + CHAR_HEIGHT * s <= SCREEN_HEIGHT
  BY <1>3, <1>4, <1>9 DEF w, h
<1> DEFINE d == Con!Drawn(c, ch, s)
<1>15. d \in Consoles /\ d.x = c.x + CHAR_WIDTH * s /\ d.y = c.y
  BY <1>1, <1>4, <1>13, <1>14, DrawnOK
<1> HIDE DEF d
<1>16. d.x = CLOCK_X + kw
  BY <1>1, <1>2, <1>7, <1>8, <1>15 DEF w
<1>17. Ticks(d, k)
  BY <1>4, <1>15, <1>16 DEF Ticks, kw, w, s
<1> QED BY <1>12, <1>17 DEF d, s, ch

LEMMA ClockOK ==
  ASSUME NEW c \in Consoles
  PROVE  digitalClock(c) \in Consoles /\ digitalClock(c).line = Con!EmptyLine
<1> DEFINE n == CLOCK_LENGTH
           z == 0
           b == BlackScreen(c)
           base == Con!setCursor(b, CLOCK_X, CLOCK_Y)
           Body(g, k) == IF k = 0 THEN base ELSE Con!printBigChar(g[k - 1], "#", BIG_FONT_SIZE)
           time == CHOOSE g : g = [k \in 0 .. n |-> Body(g, k)]
<1>1. n \in Nat /\ CLOCK_X \in Nat /\ z \in Nat
  BY ScreenAssumption
<1>2. CLOCK_Y \in Rows
  <2>1. PICK m \in 0 .. CLOCK_Y : CLOCK_Y = m * CHAR_HEIGHT
    BY ScreenAssumption
  <2>2. CHAR_HEIGHT <= CHAR_HEIGHT * BIG_FONT_SIZE /\ CHAR_HEIGHT * BIG_FONT_SIZE \in Nat
    BY Sizes, ScreenAssumption
  <2>3. CLOCK_Y \in 0 .. Con!LAST_LINE
    BY <2>2, Sizes, ScreenAssumption
  <2>4. m \in Nat
    BY <2>1, ScreenAssumption
  <2> QED BY <2>1, <2>3, <2>4 DEF Rows
<1>3. \A d \in Consoles : BlackScreen(d) \in Consoles
  BY EmptyOK DEF BlackScreen, Consoles
<1>4. b \in Consoles
  BY <1>3
<1> HIDE DEF b
<1>5. base \in Consoles /\ base.x = CLOCK_X /\ base.y = CLOCK_Y
  BY <1>1, <1>2, <1>4, CursorOK
<1> HIDE DEF base
<1>6. Ticks(base, 0)
  <2>1. 0 * (CHAR_WIDTH * BIG_FONT_SIZE) = 0
    BY Sizes, ScreenAssumption
  <2> QED BY <1>1, <1>5, <2>1 DEF Ticks
<1>7. ASSUME NEW k \in 1 .. n, NEW d, Ticks(d, k - 1)
      PROVE  Ticks(Con!printBigChar(d, "#", BIG_FONT_SIZE), k)
  BY <1>7, TickOK
<1> DEFINE step == [p \in Consoles \X (1 .. n) |->
                      IF Ticks(p[1], p[2] - 1) THEN Con!printBigChar(p[1], "#", BIG_FONT_SIZE)
                                               ELSE base]
<1>8. step \in [Consoles \X (1 .. n) -> Consoles]
  <2>1. ASSUME NEW p \in Consoles \X (1 .. n) PROVE step[p] \in Consoles
    BY <1>5, <1>7 DEF Ticks
  <2> QED BY <2>1
<1>9. \A k \in 1 .. n : \A d \in Consoles :
        Ticks(d, k - 1) => step[<<d, k>>] = Con!printBigChar(d, "#", BIG_FONT_SIZE)
  OBVIOUS
<1> DEFINE C == Consoles
<1>10. base \in C /\ IsStep(step, n, C)
  BY <1>5, <1>8 DEF IsStep
<1> HIDE DEF step, C
<1>11. PICK g : IsRecursive(g, n, C, base, step)
  BY <1>1, <1>10, Recursion
<1>12. /\ g \in [0 .. n -> Consoles] /\ g[0] = base
       /\ \A k \in 1 .. n : g[k] = step[<<g[k - 1], k>>]
  BY <1>11 DEF IsRecursive, C
<1>13. \A k \in 1 .. n : k - 1 \in 0 .. n /\ k \in 0 .. n /\ k # 0
  BY <1>1
<1> DEFINE S == {k \in 0 .. n : Ticks(g[k], k)}
<1>14. 0 .. n \subseteq S
  <2>1. 0 \in S
    BY <1>1, <1>6, <1>12
  <2>2. ASSUME NEW k \in 1 .. n, k - 1 \in S PROVE k \in S
    <3>1. g[k] = Con!printBigChar(g[k - 1], "#", BIG_FONT_SIZE)
      BY <1>9, <1>12, <1>13, <2>2
    <3> QED BY <1>7, <1>13, <2>2, <3>1
  <2> HIDE DEF S
  <2> QED BY <1>1, <2>1, <2>2, UpTo
<1>15. g = [k \in 0 .. n |-> Body(g, k)]
  <2>1. ASSUME NEW k \in 0 .. n PROVE g[k] = Body(g, k)
    <3>1. CASE k = 0
      BY <1>12, <3>1
    <3>2. CASE k # 0
      <4>1. k \in 1 .. n /\ k - 1 \in 0 .. n /\ Ticks(g[k - 1], k - 1)
        BY <1>1, <1>14, <3>2
      <4> QED BY <1>9, <1>12, <3>2, <4>1
    <3> QED BY <3>1, <3>2
  <2> HIDE DEF Body
  <2> QED BY <1>12, <2>1
<1>16. digitalClock(c) = Con!setCursor(BlackScreen(time[n]), z, SCREEN_HEIGHT - CHAR_HEIGHT)
  BY DEF digitalClock, base, b
<1> HIDE DEF Body
<1>17. time = [k \in 0 .. n |-> Body(time, k)]
  BY <1>15
<1> HIDE DEF time
<1> DEFINE T == {k \in 0 .. n : Ticks(time[k], k)}
<1>18. 0 .. n \subseteq T
  <2>1. 0 \in T
    <3>1. 0 \in 0 .. n
      BY <1>1
    <3>2. time[0] = Body(time, 0)
      BY <1>17, <3>1
    <3> QED BY <1>6, <3>1, <3>2 DEF Body
  <2>2. ASSUME NEW k \in 1 .. n, k - 1 \in T PROVE k \in T
    <3>1. time[k] = Body(time, k) /\ Ticks(time[k - 1], k - 1)
      BY <1>13, <1>17, <2>2
    <3>2. time[k] = Con!printBigChar(time[k - 1], "#", BIG_FONT_SIZE)
      BY <1>13, <3>1 DEF Body
    <3> QED BY <1>7, <1>13, <3>1, <3>2
  <2> HIDE DEF T
  <2> QED BY <1>1, <2>1, <2>2, UpTo
<1>19. n \in 0 .. n /\ Ticks(time[n], n)
  BY <1>1, <1>18
<1> DEFINE e == BlackScreen(time[n])
           y == Con!LAST_LINE
<1>20. e \in Consoles /\ y \in Rows
  BY <1>3, <1>19, RowsBelow DEF Ticks
<1>21. digitalClock(c) = Con!setCursor(e, z, y)
  BY <1>16, Sizes
<1>22. e.line = Con!EmptyLine
  BY <1>19 DEF BlackScreen, Ticks, Consoles
<1> HIDE DEF e, y, z
<1> QED BY <1>1, <1>20, <1>21, <1>22, CursorOK

(* What every output keeps, what a command writes keeps.                   *)
LEMMA WrittenKeeps ==
  ASSUME NEW K, con \in K, \A c \in K : Outputs(c) \subseteq K
  PROVE  Written \subseteq K
<1> DEFINE n == MaxOutput
           C == SUBSET K
           base == {con}
           More(s) == s \cup UNION {Outputs(c) : c \in s}
           Body(g, k) == IF k = 0 THEN base ELSE g[k - 1] \cup UNION {Outputs(c) : c \in g[k - 1]}
           upto == CHOOSE g : g = [k \in 0 .. n |-> Body(g, k)]
           step == [p \in C \X (1 .. n) |-> More(p[1])]
<1>1. n \in Nat
  BY TerminalAssumption
<1>2. ASSUME NEW s \in C PROVE More(s) \in C
  OBVIOUS
<1>3. base \in C
  OBVIOUS
<1> HIDE DEF base, More
<1>4. IsStep(step, n, C)
  <2>1. step \in [C \X (1 .. n) -> C]
    BY <1>2
  <2> HIDE DEF step, C
  <2> QED BY <2>1 DEF IsStep
<1>5. \A s \in C, k \in 1 .. n : step[<<s, k>>] = More(s)
  OBVIOUS
<1> HIDE DEF step, C
<1>6. PICK g : IsRecursive(g, n, C, base, step)
  BY <1>1, <1>3, <1>4, Recursion
<1>7. /\ g \in [0 .. n -> C] /\ g[0] = base
      /\ \A k \in 1 .. n : g[k] = step[<<g[k - 1], k>>]
  BY <1>6 DEF IsRecursive
<1>8. \A k \in 1 .. n : k - 1 \in 0 .. n /\ k \in 0 .. n /\ k # 0
  BY <1>1
<1>9. g = [k \in 0 .. n |-> Body(g, k)]
  <2>1. ASSUME NEW k \in 0 .. n PROVE g[k] = Body(g, k)
    <3>1. CASE k = 0
      BY <1>7, <3>1
    <3>2. CASE k # 0
      <4>1. k \in 1 .. n /\ k - 1 \in 0 .. n
        BY <1>1, <3>2
      <4>2. g[k] = More(g[k - 1])
        BY <1>5, <1>7, <4>1
      <4> QED BY <3>2, <4>2 DEF More
    <3> QED BY <3>1, <3>2
  <2> HIDE DEF Body
  <2> QED BY <1>7, <2>1
<1>10. Written = upto[n]
  BY DEF Written, base
<1> HIDE DEF Body
<1>11. upto = [k \in 0 .. n |-> Body(upto, k)]
  BY <1>9
<1> HIDE DEF upto
<1> DEFINE S == {k \in 0 .. n : upto[k] \in C}
<1>12. 0 .. n \subseteq S
  <2>1. 0 \in S
    <3>1. 0 \in 0 .. n
      BY <1>1
    <3>2. upto[0] = Body(upto, 0)
      BY <1>11, <3>1
    <3> QED BY <1>3, <3>1, <3>2 DEF Body
  <2>2. ASSUME NEW k \in 1 .. n, k - 1 \in S PROVE k \in S
    <3>1. upto[k] = Body(upto, k) /\ upto[k - 1] \in C
      BY <1>8, <1>11, <2>2
    <3>2. upto[k] = More(upto[k - 1])
      BY <1>8, <3>1 DEF Body, More
    <3> QED BY <1>2, <1>8, <3>1, <3>2
  <2> HIDE DEF S
  <2> QED BY <1>1, <2>1, <2>2, UpTo
<1>13. n \in 0 .. n
  BY <1>1
<1> QED BY <1>10, <1>12, <1>13 DEF C

LEMMA OutputsOK ==
  ASSUME NEW c \in Consoles
  PROVE  Outputs(c) \subseteq Consoles
<1> DEFINE ch == "#"
<1>1. ch \in Characters
  BY DEF Characters
<1> HIDE DEF ch
<1>2. Con!printChar(c, ch) \in Consoles /\ Con!newLine(c) \in Consoles /\ digitalClock(c) \in Consoles
  BY <1>1, PrintedOK, NewLineOK, ClockOK
<1> QED BY <1>2 DEF Outputs, ch

-----------------------------------------------------------------------------
(* Everything is drawn inside of the screen *)

ShellInv ==
  /\ con \in Consoles
  /\ string \in Seq(Characters) /\ Len(string) <= LINE_SIZE
  /\ pc \in {"start", "prompt", "edit", "run", "output"}

LEMMA ShellInit == Init => ShellInv
<1>1. Con!clearScreen \in Consoles
  <2>1. 0 \in 0 .. SCREEN_WIDTH - 1 /\ 0 \in 0 .. SCREEN_HEIGHT - 1
    BY Sizes
  <2> QED BY <2>1, EmptyOK, RowsBelow DEF Con!clearScreen, Consoles
<1>2. Len(<<>>) <= LINE_SIZE
  BY TerminalAssumption
<1> QED BY <1>1, <1>2 DEF Init, ShellInv

LEMMA PromptIsText == Prompt \in Seq(Characters) /\ Len(Prompt) = 7 /\ IsText(Prompt, Len(Prompt))
<1>1. Prompt \in [1 .. 7 -> Range(Prompt)] /\ Len(Prompt) = 7
  BY DEF Prompt, Range
<1>2. \A k \in 1 .. 7 : Prompt[k] \in Characters
  BY <1>1 DEF Characters
<1>3. Prompt \in Seq(Characters)
  <2>1. Prompt \in [1 .. 7 -> Characters]
    BY <1>1, <1>2
  <2> QED BY <2>1, SeqDef
<1> QED BY <1>1, <1>2, <1>3 DEF IsText

(* The last character goes.                                                *)
LEMMA Shortened ==
  ASSUME NEW s \in Seq(Characters), s # <<>>
  PROVE  LET t == SubSeq(s, 1, Len(s) - 1) IN
         /\ t \in Seq(Characters) /\ Len(t) = Len(s) - 1 /\ Len(s) \in Nat \ {0}
         /\ \A k \in 1 .. Len(s) - 1 : t[k] = s[k]
<1> DEFINE n == Len(s) - 1
           t == SubSeq(s, 1, n)
<1>1. Len(s) \in Nat \ {0} /\ n \in Nat
  BY EmptySeq
<1>2. \A k \in 1 .. n : s[k] \in Characters
  BY <1>1
<1>3. /\ t \in Seq(Characters)
      /\ Len(t) = IF 1 <= n THEN n - 1 + 1 ELSE 0
      /\ \A k \in 1 .. n - 1 + 1 : t[k] = s[1 + k - 1]
  BY <1>1, <1>2, SubSeqProperties
<1> HIDE DEF t
<1>4. n - 1 + 1 = n /\ \A k \in 1 .. n : 1 + k - 1 = k
  BY <1>1
<1> QED BY <1>1, <1>3, <1>4 DEF t

\* What a round of the shell's loop does besides taking the key c.
Round(c) ==
  \/ pc' = "run" /\ UNCHANGED <<string, con, at>>
  \/ Erase /\ UNCHANGED pc
  \/ UNCHANGED <<string, con, at, pc>>
  \/ /\ Len(string) # LINE_SIZE /\ ~ (c = "nul" /\ Len(string) < LINE_SIZE)
     /\ string' = Append(string, c)
     /\ con' = Con!printChar(con, c)
     /\ at' = PromptAfter(con)
     /\ UNCHANGED pc

LEMMA EditsRound == Edits => Round(buffer[0]) /\ getFirstInBuffer /\ UNCHANGED shift /\ pc = "edit"
<1> SUFFICES ASSUME Edits PROVE Round(buffer[0]) /\ getFirstInBuffer /\ UNCHANGED shift /\ pc = "edit"
  OBVIOUS
<1>1. getFirstInBuffer /\ UNCHANGED shift /\ pc = "edit"
  BY DEF Edits
<1> DEFINE c == buffer[0]
           l == Len(string)
           a == c = "\n" \/ l = LINE_SIZE
           b == c = "BACKSPACE" /\ l < LINE_SIZE
           d == c = "nul" /\ l < LINE_SIZE
<1>2. CASE a
  BY <1>2, Zenon DEF Edits, Round
<1>3. CASE ~ a /\ b
  BY <1>3, Zenon DEF Edits, Round
<1>4. CASE ~ a /\ ~ b /\ d
  BY <1>4, Zenon DEF Edits, Round
<1>5. CASE ~ a /\ ~ b /\ ~ d
  BY <1>5, Zenon DEF Edits, Round
<1> QED BY <1>1, <1>2, <1>3, <1>4, <1>5

\* The place of the last character of the line, and of the prompt.
LEMMA EraseOK ==
  ASSUME con \in Consoles, string \in Seq(Characters), Erase
  PROVE  /\ con' \in Consoles
         /\ string' \in Seq(Characters) /\ Len(string') <= Len(string)
<1>1. CASE string = <<>>
  BY <1>1 DEF Erase
<1>2. CASE string # <<>>
  <2> DEFINE x == CHAR_WIDTH * (Len(string) - 1 + 7)
             y == Con!LAST_LINE
             ch == " "
             c == Con!setCursor(con, x, y)
             d == Con!printChar(c, ch)
  <2>1. /\ string' \in Seq(Characters) /\ Len(string') = Len(string) - 1
        /\ Len(string) \in Nat \ {0}
    <3>1. string' = SubSeq(string, 1, Len(string) - 1)
      BY <1>2 DEF Erase
    <3> QED BY <1>2, <3>1, Shortened
  <2>2. con' = Con!setCursor(d, x, y)
    BY <1>2, Sizes DEF Erase
  <2>3. x \in Nat /\ y \in Rows /\ ch \in Characters
    <3>1. Len(string) - 1 + 7 \in Nat
      BY <2>1
    <3>2. ch \in Characters
      BY DEF Characters
    <3>3. x \in Nat
      BY <3>1, Sizes
    <3>4. y \in Rows
      BY RowsBelow
    <3> QED BY <3>2, <3>3, <3>4
  <2> HIDE DEF x, y, ch, c, d
  <2>4. c \in Consoles
    BY <2>3, CursorOK DEF c
  <2>5. d \in Consoles
    BY <2>3, <2>4, PrintedOK DEF d
  <2>6. con' \in Consoles
    BY <2>2, <2>3, <2>5, CursorOK
  <2> QED BY <2>1, <2>6
<1> QED BY <1>1, <1>2

LEMMA ShellInductive == KeysInv /\ ShellInv /\ [Next]_vars => ShellInv'
<1> SUFFICES ASSUME KeysInv, ShellInv, [Next]_vars PROVE ShellInv'
  OBVIOUS
<1>1. LINE_SIZE \in Nat \ {0} /\ Len(string) \in Nat
  BY TerminalAssumption DEF ShellInv
<1>2. ASSUME UNCHANGED <<con, string, pc>> PROVE ShellInv'
  BY <1>2 DEF ShellInv
<1>3. ASSUME NEW key, PressShift(key) \/ PressKey(key) PROVE ShellInv'
  BY <1>2, <1>3 DEF PressShift, PressKey
<1>4. CASE UNCHANGED vars
  BY <1>2, <1>4 DEF vars
<1>5. CASE ShellStarts
  <2> DEFINE x == 0
             y == Con!LAST_LINE
  <2>1. con' = Con!setCursor(con, x, y)
    BY <1>5, Sizes DEF ShellStarts
  <2>2. x \in Nat /\ y \in Rows
    BY RowsBelow
  <2> HIDE DEF x, y
  <2>3. con' \in Consoles
    BY <2>1, <2>2, CursorOK DEF ShellInv
  <2> QED BY <1>5, <2>3 DEF ShellStarts, ShellInv
<1>6. CASE Prompts
  <2> DEFINE n == Len(Prompt)
  <2>1. n \in Nat /\ IsText(Prompt, n)
    BY PromptIsText
  <2>2. con' = Con!print(con, Prompt, n)
    BY <1>6 DEF Prompts
  <2> HIDE DEF n
  <2>3. con' \in Consoles
    BY <2>1, <2>2, PrintOK DEF ShellInv
  <2> QED BY <1>6, <2>3 DEF Prompts, ShellInv
<1>7. CASE Edits
  <2> DEFINE c == buffer[0]
  <2>1. Round(c) /\ pc = "edit"
    BY <1>7, EditsRound
  <2>2. c \in Char
    <3>1. PICK n : KeysOK(buffer, n, buffer_index, typed, ahead)
      BY DEF KeysInv
    <3> QED BY <3>1, TerminalAssumption DEF KeysOK, Filled, Places
  <2> HIDE DEF c
  <2>3. CASE pc' = "run" /\ UNCHANGED <<string, con, at>>
    BY <2>3 DEF ShellInv
  <2>4. CASE Erase /\ UNCHANGED pc
    <3>1. con' \in Consoles /\ string' \in Seq(Characters) /\ Len(string') <= Len(string)
      BY <2>4, EraseOK DEF ShellInv
    <3>2. Len(string') \in Nat
      BY <3>1
    <3> QED BY <1>1, <2>4, <3>1, <3>2 DEF ShellInv
  <2>5. CASE UNCHANGED <<string, con, at, pc>>
    BY <1>2, <2>5
  <2>6. CASE /\ Len(string) # LINE_SIZE /\ ~ (c = "nul" /\ Len(string) < LINE_SIZE)
             /\ string' = Append(string, c)
             /\ con' = Con!printChar(con, c)
             /\ at' = PromptAfter(con)
             /\ UNCHANGED pc
    <3>1. Len(string) < LINE_SIZE
      BY <1>1, <2>6 DEF ShellInv
    <3>2. c \in Characters
      BY <2>2, <2>6, <3>1 DEF Char
    <3>3. con' \in Consoles
      BY <2>6, <3>2, PrintedOK DEF ShellInv
    <3>4. string' \in Seq(Characters) /\ Len(string') = Len(string) + 1
      BY <2>6, <3>2 DEF ShellInv
    <3> QED BY <1>1, <2>6, <3>1, <3>3, <3>4 DEF ShellInv
  <2> QED BY <2>1, <2>3, <2>4, <2>5, <2>6 DEF Round
<1>8. CASE Interprets
  <2>1. con' \in Consoles
    BY <1>8, NewLineOK DEF Interprets, ShellInv
  <2>2. string' = <<>> /\ pc' = "output"
    BY <1>8 DEF Interprets
  <2>3. string' \in Seq(Characters) /\ Len(string') <= LINE_SIZE
    BY <1>1, <2>2
  <2> QED BY <2>1, <2>2, <2>3 DEF ShellInv
<1>9. CASE CommandEnds
  <2> DEFINE K == Consoles
  <2>1. con \in K /\ \A c \in K : Outputs(c) \subseteq K
    BY OutputsOK DEF ShellInv
  <2> HIDE DEF K
  <2>2. Written \subseteq K
    BY <2>1, WrittenKeeps
  <2>3. con' \in Consoles
    BY <1>9, <2>2 DEF CommandEnds, K
  <2> QED BY <1>9, <2>3 DEF CommandEnds, ShellInv
<1> QED BY <1>3, <1>4, <1>5, <1>6, <1>7, <1>8, <1>9 DEF Next

(* Nothing is drawn outside of the screen, whatever the length of the line,  *)
(* the output before it and the place of the prompt (naiveConsole.c).        *)
THEOREM DrawsInsideHolds == Spec => []DrawsInside
<1>1. ASSUME KeysInv, ShellInv PROVE DrawsInside
  <2>1. PICK n : KeysOK(buffer, n, buffer_index, typed, ahead)
    BY <1>1 DEF KeysInv
  <2>2. KEYBOARD_SIZE \in Nat \ {0, 1, 2}
    BY TerminalAssumption
  <2>3. n \in 0 .. KEYBOARD_SIZE - 1 /\ buffer_index \in 0 .. n
    BY <2>1 DEF KeysOK, Filled
  <2>4. buffer_index \in Places
    BY <2>2, <2>3 DEF Places
  <2>5. /\ con.line \in [Con!Columns -> Characters]
        /\ con.right < SCREEN_WIDTH /\ con.bottom < SCREEN_HEIGHT
    BY <1>1, Sizes DEF ShellInv, Consoles
  <2> QED BY <1>1, <2>4, <2>5 DEF DrawsInside, TypeOK, KeysInv, ShellInv
<1>2. Init => ShellInv
  BY ShellInit
<1> QED BY <1>1, <1>2, KeysAlways, ShellInductive, PTL DEF Spec

-----------------------------------------------------------------------------
(* The screen shows the line *)

\* Nothing is written on the last line while the cursor is above it or at its
\* beginning.
Fresh(c) == c.y < Con!LAST_LINE \/ c.x = 0 => c.line = Con!EmptyLine

FreshConsoles == {c \in Consoles : Fresh(c)}

LEMMA FreshPrinted ==
  ASSUME NEW c \in FreshConsoles, NEW ch \in Characters
  PROVE  Con!printChar(c, ch) \in FreshConsoles
<1> DEFINE d == Con!Wrapped(c, 1)
           s == 1
           e == Con!Drawn(d, ch, s)
<1>1. c \in Consoles /\ (c.y < Con!LAST_LINE \/ c.x = 0 => c.line = Con!EmptyLine)
  BY DEF FreshConsoles, Fresh
<1>2. /\ d \in Consoles /\ d.x + CHAR_WIDTH < SCREEN_WIDTH
      /\ c.x + CHAR_WIDTH < SCREEN_WIDTH => d = c
      /\ ~ (c.x + CHAR_WIDTH < SCREEN_WIDTH) =>
           d.x = 0 /\ (d.line = Con!EmptyLine \/ (d.line = c.line /\ c.y < Con!LAST_LINE))
  BY <1>1, WrappedOK
<1>3. d.y < Con!LAST_LINE => d.line = Con!EmptyLine
  BY <1>1, <1>2
<1>4. /\ d.x \in Nat /\ d.y \in Rows /\ s \in Nat \ {0}
      /\ CHAR_WIDTH * s = CHAR_WIDTH /\ CHAR_HEIGHT * s = CHAR_HEIGHT
  BY <1>2, Sizes DEF Consoles
<1> HIDE DEF d
<1>5. d.y \in Nat /\ d.y <= Con!LAST_LINE /\ d.y + CHAR_HEIGHT <= SCREEN_HEIGHT
  BY <1>4, RowsBelow
<1>6. d.x + CHAR_WIDTH * s + s - 1 < SCREEN_WIDTH /\ d.y + CHAR_HEIGHT * s <= SCREEN_HEIGHT
  <2>1. d.x + CHAR_WIDTH + 1 - 1 < SCREEN_WIDTH
    BY <1>2, <1>4, Sizes
  <2> QED BY <1>4, <1>5, <2>1
<1> HIDE DEF s
<1>7. /\ e \in Consoles /\ e.x = d.x + CHAR_WIDTH /\ e.y = d.y
      /\ e.line = IF d.y + CHAR_HEIGHT > Con!LAST_LINE /\ d.x \in Con!Columns
                  THEN [d.line EXCEPT ![d.x] = ch] ELSE d.line
  BY <1>2, <1>4, <1>6, DrawnOK
<1> HIDE DEF e
<1>8. ASSUME d.y < Con!LAST_LINE PROVE d.y + CHAR_HEIGHT <= Con!LAST_LINE
  <2>1. d.y + CHAR_HEIGHT < SCREEN_HEIGHT
    BY <1>5, <1>8, Sizes
  <2>2. d.y + CHAR_HEIGHT \in Rows
    BY <1>4, <2>1, RowsBelow
  <2> QED BY <2>2, RowsBelow
<1>9. e.x # 0
  BY <1>4, <1>7, Sizes
<1>10. e.y < Con!LAST_LINE => e.line = Con!EmptyLine
  BY <1>3, <1>5, <1>7, <1>8, Sizes
<1>11. e \in FreshConsoles
  BY <1>7, <1>9, <1>10 DEF FreshConsoles, Fresh
<1> QED BY <1>11 DEF Con!printChar, e, d, s

LEMMA FreshNewLine ==
  ASSUME NEW c \in FreshConsoles
  PROVE  Con!newLine(c) \in FreshConsoles
<1>1. c \in Consoles /\ (c.y < Con!LAST_LINE \/ c.x = 0 => c.line = Con!EmptyLine)
  BY DEF FreshConsoles, Fresh
<1>2. Con!newLine(c) \in Consoles
  BY <1>1, NewLineOK
<1>3. Con!newLine(c).line = Con!EmptyLine
  BY <1>1 DEF Con!newLine, Con!setCursor, Con!Scrolled, Consoles
<1> QED BY <1>2, <1>3 DEF FreshConsoles, Fresh

LEMMA FreshOutputs ==
  ASSUME NEW c \in FreshConsoles
  PROVE  Outputs(c) \subseteq FreshConsoles
<1> DEFINE ch == "#"
<1>1. ch \in Characters
  BY DEF Characters
<1> HIDE DEF ch
<1>2. Con!printChar(c, ch) \in FreshConsoles /\ Con!newLine(c) \in FreshConsoles
  BY <1>1, FreshPrinted, FreshNewLine
<1>3. c \in Consoles
  BY DEF FreshConsoles
<1>4. digitalClock(c) \in FreshConsoles
  BY <1>3, ClockOK DEF FreshConsoles, Fresh
<1> QED BY <1>2, <1>4 DEF Outputs, ch

LEMMA FreshPrint ==
  ASSUME NEW c \in FreshConsoles, NEW n \in Nat, NEW text, IsText(text, n),
         NEW f, Prints(f, c, text, n)
  PROVE  \A k \in 0 .. n : f[k] \in FreshConsoles
<1> DEFINE S == {k \in 0 .. n : f[k] \in FreshConsoles}
<1>1. 0 \in S
  BY DEF Prints
<1>2. ASSUME NEW k \in 1 .. n, k - 1 \in S PROVE k \in S
  <2>1. f[k] = Con!printChar(f[k - 1], text[k]) /\ text[k] \in Characters
    BY DEF Prints, IsText
  <2> QED BY <1>2, <2>1, FreshPrinted
<1>3. 0 .. n \subseteq S
  <2> HIDE DEF S
  <2> QED BY <1>1, <1>2, UpTo
<1> QED BY <1>3

(* Columns of characters are that many dots apart.                         *)
LEMMA Increasing ==
  ASSUME NEW h \in Nat \ {0}, NEW a \in Nat, NEW b \in Nat, a < b
  PROVE  a * h + h <= b * h /\ a * h \in Nat /\ b * h \in Nat
<1>1. PICK d \in Nat : b = a + 1 + d
  <2>1. b - (a + 1) \in Nat /\ b = a + 1 + (b - (a + 1))
    OBVIOUS
  <2> QED BY <2>1
<1>2. b * h = a * h + h + d * h /\ d * h \in Nat /\ a * h \in Nat
  BY <1>1
<1> QED BY <1>2

\* The last line has the first n elements of t on it, and the cursor is behind.
Shows(c, t, n) ==
  /\ c.y = Con!LAST_LINE /\ c.x = n * CHAR_WIDTH /\ c.x < SCREEN_WIDTH
  /\ \A k \in Nat : k * CHAR_WIDTH < SCREEN_WIDTH =>
       c.line[k * CHAR_WIDTH] = IF k < n THEN t[k + 1] ELSE " "

\* The sequences t and u begin with the same n elements.
Agree(t, u, n) == \A j \in 1 .. n : t[j] = u[j]

(* A character on the last line that does not scroll.                      *)
LEMMA PutOn ==
  ASSUME NEW c \in Consoles, NEW ch \in Characters,
         c.y = Con!LAST_LINE, ~ Con!Scrolls(c, 1)
  PROVE  LET d == Con!printChar(c, ch) IN
         /\ d.x = c.x + CHAR_WIDTH /\ d.y = c.y /\ d.x < SCREEN_WIDTH
         /\ d.line = [c.line EXCEPT ![c.x] = ch] /\ c.x \in Con!Columns
<1> DEFINE s == 1
           e == Con!Drawn(c, ch, s)
<1>1. /\ c.x \in Nat /\ c.y \in Nat /\ s \in Nat \ {0}
      /\ CHAR_WIDTH * s = CHAR_WIDTH /\ CHAR_HEIGHT * s = CHAR_HEIGHT
  BY Sizes DEF Consoles
<1>2. c.x + CHAR_WIDTH < SCREEN_WIDTH
  BY <1>1, Sizes DEF Con!Scrolls
<1>3. Con!printChar(c, ch) = e
  BY <1>1, <1>2, WrappedOK DEF Con!printChar
<1>4. c.x + CHAR_WIDTH * s + s - 1 < SCREEN_WIDTH /\ c.y + CHAR_HEIGHT * s <= SCREEN_HEIGHT
  <2>1. c.x + CHAR_WIDTH + 1 - 1 < SCREEN_WIDTH /\ c.y + CHAR_HEIGHT <= SCREEN_HEIGHT
    BY <1>1, <1>2, Sizes
  <2> QED BY <1>1, <2>1
<1>5. c.y + CHAR_HEIGHT * s > Con!LAST_LINE /\ c.x \in Con!Columns
  BY <1>1, <1>2, Sizes DEF Con!Columns
<1> HIDE DEF s
<1>6. /\ e.x = c.x + CHAR_WIDTH * s /\ e.y = c.y
      /\ e.line = IF c.y + CHAR_HEIGHT * s > Con!LAST_LINE /\ c.x \in Con!Columns
                  THEN [c.line EXCEPT ![c.x] = ch] ELSE c.line
  BY <1>1, <1>4, DrawnOK
<1> HIDE DEF e
<1> QED BY <1>1, <1>2, <1>3, <1>5, <1>6

LEMMA TypedShows ==
  ASSUME NEW c \in Consoles, NEW n \in Nat, NEW t, Shows(c, t, n), ~ Con!Scrolls(c, 1),
         NEW u, Agree(t, u, n), u[n + 1] \in Characters
  PROVE  Shows(Con!printChar(c, u[n + 1]), u, n + 1)
<1> DEFINE ch == u[n + 1]
           d == Con!printChar(c, ch)
<1>1. /\ c.y = Con!LAST_LINE /\ c.x = n * CHAR_WIDTH
      /\ \A k \in Nat : k * CHAR_WIDTH < SCREEN_WIDTH =>
           c.line[k * CHAR_WIDTH] = IF k < n THEN t[k + 1] ELSE " "
  BY DEF Shows
<1>2. ch \in Characters
  OBVIOUS
<1> HIDE DEF ch
<1>3. /\ d.x = c.x + CHAR_WIDTH /\ d.y = c.y /\ d.x < SCREEN_WIDTH
      /\ d.line = [c.line EXCEPT ![c.x] = ch] /\ c.x \in Con!Columns
  BY <1>1, <1>2, PutOn
<1>4. c.line \in [Con!Columns -> Characters]
  BY DEF Consoles
<1> HIDE DEF d
<1>5. (n + 1) * CHAR_WIDTH = n * CHAR_WIDTH + CHAR_WIDTH
  BY Sizes
<1>6. ASSUME NEW k \in Nat, k * CHAR_WIDTH < SCREEN_WIDTH
      PROVE  d.line[k * CHAR_WIDTH] = IF k < n + 1 THEN u[k + 1] ELSE " "
  <2> DEFINE x == k * CHAR_WIDTH
  <2>1. x \in Con!Columns
    <3>1. x \in Nat
      BY Sizes
    <3> QED BY <1>6, <3>1, Sizes DEF Con!Columns
  <2>2. CASE k = n
    <3>1. d.line[x] = ch
      BY <1>1, <1>3, <1>4, <2>2
    <3>2. k < n + 1 /\ u[k + 1] = ch
      BY <2>2 DEF ch
    <3> HIDE DEF x
    <3>3. d.line[x] = IF k < n + 1 THEN u[k + 1] ELSE " "
      BY <3>1, <3>2
    <3> QED BY <3>3 DEF x
  <2>3. CASE k # n
    <3>1. x # c.x
      <4> DEFINE z == n * CHAR_WIDTH
      <4>1. CHAR_WIDTH \in Nat \ {0} /\ c.x = z
        BY <1>1, Sizes
      <4>2. k < n => x + CHAR_WIDTH <= z /\ x \in Nat /\ z \in Nat
        BY <4>1, Increasing
      <4>3. n < k => z + CHAR_WIDTH <= x /\ x \in Nat /\ z \in Nat
        BY <4>1, Increasing
      <4>4. k < n \/ n < k
        BY <2>3
      <4> HIDE DEF x, z
      <4> QED BY <4>1, <4>2, <4>3, <4>4
    <3>2. d.line[x] = c.line[x]
      BY <1>3, <1>4, <2>1, <3>1
    <3>3. c.line[x] = IF k < n THEN t[k + 1] ELSE " "
      BY <1>1, <1>6
    <3>4. k < n => t[k + 1] = u[k + 1]
      <4>1. k < n => k + 1 \in 1 .. n
        OBVIOUS
      <4> QED BY <4>1 DEF Agree
    <3>5. k < n <=> k < n + 1
      BY <2>3
    <3> HIDE DEF x
    <3>6. d.line[x] = IF k < n + 1 THEN u[k + 1] ELSE " "
      BY <3>2, <3>3, <3>4, <3>5
    <3> QED BY <3>6 DEF x
  <2> QED BY <2>2, <2>3
<1>7. Shows(d, u, n + 1)
  BY <1>1, <1>3, <1>5, <1>6 DEF Shows
<1> QED BY <1>7 DEF d, ch

(* Backspace: back, a space, and back again.                               *)
LEMMA ErasedShows ==
  ASSUME NEW c \in Consoles, NEW n \in Nat \ {0}, NEW t, Shows(c, t, n),
         NEW p, p \in Consoles, p = Con!setCursor(c, (n - 1) * CHAR_WIDTH, Con!LAST_LINE),
         ~ Con!Scrolls(p, 1)
  PROVE  Shows(Con!setCursor(Con!printChar(p, " "), (n - 1) * CHAR_WIDTH, Con!LAST_LINE), t, n - 1)
<1> DEFINE ch == " "
           m == n - 1
           x == m * CHAR_WIDTH
           y == Con!LAST_LINE
           d == Con!printChar(p, ch)
           e == Con!setCursor(d, x, y)
<1>1. m \in Nat /\ x \in Nat /\ n = m + 1
  <2>1. m \in Nat /\ n = m + 1
    OBVIOUS
  <2> QED BY <2>1, Sizes
<1>2. /\ c.y = Con!LAST_LINE /\ c.x = n * CHAR_WIDTH /\ c.x < SCREEN_WIDTH
      /\ \A k \in Nat : k * CHAR_WIDTH < SCREEN_WIDTH =>
           c.line[k * CHAR_WIDTH] = IF k < n THEN t[k + 1] ELSE " "
  BY DEF Shows
<1>3. ch \in Characters
  BY DEF Characters
<1>4. y \in Rows
  BY RowsBelow
<1> HIDE DEF ch, m, x, y
<1>5. p = Con!setCursor(c, x, y) /\ p.x = x /\ p.y = Con!LAST_LINE /\ p.line = c.line
  BY <1>1, <1>4, CursorOK DEF x, y, m
<1>6. d.line = [p.line EXCEPT ![p.x] = ch] /\ p.x \in Con!Columns
  BY <1>3, <1>5, PutOn
<1>7. d \in Consoles
  BY <1>3, PrintedOK
<1> HIDE DEF d
<1>8. e.x = x /\ e.y = y /\ e.line = d.line
  BY <1>1, <1>4, <1>7, CursorOK
<1>9. p.line \in [Con!Columns -> Characters]
  BY DEF Consoles
<1> HIDE DEF e
<1>10. ASSUME NEW k \in Nat, k * CHAR_WIDTH < SCREEN_WIDTH
      PROVE  e.line[k * CHAR_WIDTH] = IF k < m THEN t[k + 1] ELSE " "
  <2> DEFINE z == k * CHAR_WIDTH
  <2>1. z \in Con!Columns
    <3>1. z \in Nat
      BY Sizes
    <3> QED BY <1>10, <3>1, Sizes DEF Con!Columns
  <2>2. CASE k = m
    <3>1. z = p.x
      BY <1>5, <2>2 DEF x
    <3>2. e.line[z] = ch
      BY <1>6, <1>8, <1>9, <2>1, <3>1
    <3>3. ~ (k < m)
      BY <1>1, <2>2
    <3> QED BY <3>2, <3>3 DEF ch
  <2>3. CASE k # m
    <3>1. z # p.x
      <4>1. CASE k < m
        BY <1>1, <1>5, <4>1, Increasing, Sizes DEF x
      <4>2. CASE m < k
        BY <1>1, <1>5, <4>2, Increasing, Sizes DEF x
      <4> QED BY <1>1, <2>3, <4>1, <4>2
    <3>2. e.line[z] = c.line[z]
      BY <1>5, <1>6, <1>8, <1>9, <2>1, <3>1
    <3>3. c.line[z] = IF k < n THEN t[k + 1] ELSE " "
      BY <1>2, <1>10
    <3>4. k < n <=> k < m
      BY <1>1, <2>3
    <3> HIDE DEF z
    <3>5. e.line[z] = IF k < m THEN t[k + 1] ELSE " "
      BY <3>2, <3>3, <3>4
    <3> QED BY <3>5 DEF z
  <2> QED BY <2>2, <2>3
<1>11. x < SCREEN_WIDTH
  BY <1>5, <1>6, Sizes DEF Con!Columns
<1>12. Shows(e, t, m)
  BY <1>8, <1>10, <1>11 DEF Shows, x, y
<1> QED BY <1>12 DEF e, d, m, x, y, ch

FreshInv ==
  /\ con \in FreshConsoles
  /\ pc = "start" => con.line = Con!EmptyLine
  /\ at \in Int \X Int /\ at[2] <= Con!LAST_LINE
  /\ pc \in {"start", "prompt", "output"} => string = <<>>

LEMMA FreshInit == Init => FreshInv
<1> SUFFICES ASSUME Init PROVE FreshInv
  OBVIOUS
<1>1. con \in Consoles /\ con.line = Con!EmptyLine
  BY ShellInit DEF Init, ShellInv, Con!clearScreen
<1>2. con \in FreshConsoles
  BY <1>1 DEF FreshConsoles, Fresh
<1>3. at \in Int \X Int /\ at[2] <= Con!LAST_LINE
  BY Sizes DEF Init
<1> QED BY <1>1, <1>2, <1>3 DEF Init, FreshInv

(* The prompt only scrolls up.                                             *)
LEMMA AtAfter ==
  ASSUME at \in Int \X Int, at[2] <= Con!LAST_LINE, NEW c, at' = PromptAfter(c)
  PROVE  /\ at' \in Int \X Int /\ at'[2] <= Con!LAST_LINE
         /\ PromptInPlace' => PromptInPlace /\ ~ Con!Scrolls(c, 1)
<1>1. CASE Con!Scrolls(c, 1)
  <2>1. at' = <<at[1], at[2] - CHAR_HEIGHT>>
    BY <1>1 DEF PromptAfter
  <2>2. at'[2] < Con!LAST_LINE /\ at' \in Int \X Int
    BY <2>1, Sizes
  <2>3. ~ PromptInPlace'
    BY <2>2, Sizes DEF PromptInPlace
  <2> QED BY <2>2, <2>3, Sizes
<1>2. CASE ~ Con!Scrolls(c, 1)
  BY <1>2 DEF PromptAfter, PromptInPlace
<1> QED BY <1>1, <1>2

\* Where backspace goes.
Back == Con!setCursor(con, CHAR_WIDTH * (Len(string) - 1 + 7), Con!LAST_LINE)

LEMMA EraseMeans ==
  ASSUME con \in FreshConsoles, string \in Seq(Characters), string # <<>>, Erase
  PROVE  /\ Len(string) \in Nat \ {0}
         /\ string' \in Seq(Characters) /\ Len(string') = Len(string) - 1
         /\ \A k \in 1 .. Len(string) - 1 : string'[k] = string[k]
         /\ Back \in FreshConsoles
         /\ con' = Con!setCursor(Con!printChar(Back, " "),
                                 CHAR_WIDTH * (Len(string) - 1 + 7), Con!LAST_LINE)
         /\ con' \in FreshConsoles
         /\ at' = PromptAfter(Back)
<1> DEFINE m == Len(string) - 1 + 7
           x == CHAR_WIDTH * m
           y == Con!LAST_LINE
           ch == " "
           d == Con!printChar(Back, ch)
<1>1. /\ Len(string) \in Nat \ {0}
      /\ string' \in Seq(Characters) /\ Len(string') = Len(string) - 1
      /\ \A k \in 1 .. Len(string) - 1 : string'[k] = string[k]
  <2>1. string' = SubSeq(string, 1, Len(string) - 1)
    BY DEF Erase
  <2> QED BY <2>1, Shortened
<1>2. con' = Con!setCursor(d, x, y) /\ at' = PromptAfter(Back)
  BY Sizes DEF Erase, Back
<1>3. x \in Nat /\ x # 0
  <2>1. m \in Nat \ {0}
    BY <1>1
  <2> HIDE DEF m
  <2> QED BY <2>1, Sizes
<1>4. y \in Rows /\ ~ (y < Con!LAST_LINE)
  BY RowsBelow, Sizes
<1>5. ch \in Characters
  BY DEF Characters
<1>6. Back = Con!setCursor(con, x, y)
  BY DEF Back
<1> HIDE DEF x, y, ch, d, m
<1>7. ASSUME NEW c \in FreshConsoles PROVE Con!setCursor(c, x, y) \in FreshConsoles
  <2>1. c \in Consoles
    BY DEF FreshConsoles
  <2>2. /\ Con!setCursor(c, x, y) \in Consoles
        /\ Con!setCursor(c, x, y).x = x /\ Con!setCursor(c, x, y).y = y
    BY <1>3, <1>4, <2>1, CursorOK
  <2> QED BY <1>3, <1>4, <2>2 DEF FreshConsoles, Fresh
<1>8. Back \in FreshConsoles
  BY <1>6, <1>7
<1>9. d \in FreshConsoles
  BY <1>5, <1>8, FreshPrinted DEF d
<1>10. con' \in FreshConsoles
  BY <1>2, <1>7, <1>9
<1> QED BY <1>1, <1>2, <1>8, <1>10 DEF d, ch, x, y, m

(* The first key is a character of the screen when it is put on the line.  *)
LEMMA RoundMeans ==
  ASSUME KeysInv, ShellInv, Edits
  PROVE  \/ pc' = "run" /\ UNCHANGED <<string, con, at>>
         \/ Erase /\ string # <<>> /\ pc' = "edit"
         \/ UNCHANGED <<string, con, at, pc>>
         \/ \E c \in Characters :
              /\ string' = Append(string, c)
              /\ con' = Con!printChar(con, c)
              /\ at' = PromptAfter(con)
              /\ pc' = "edit" /\ Len(string) < LINE_SIZE
<1> DEFINE c == buffer[0]
<1>1. Round(c) /\ pc = "edit"
  BY EditsRound
<1>2. c \in Char
  <2>1. PICK n : KeysOK(buffer, n, buffer_index, typed, ahead)
    BY DEF KeysInv
  <2> QED BY <2>1, TerminalAssumption DEF KeysOK, Filled, Places
<1> HIDE DEF c
<1>3. Len(string) \in Nat /\ LINE_SIZE \in Nat /\ Len(string) <= LINE_SIZE
  BY TerminalAssumption DEF ShellInv
<1>4. CASE Erase /\ UNCHANGED pc
  BY <1>1, <1>4 DEF Erase
<1>5. CASE /\ Len(string) # LINE_SIZE /\ ~ (c = "nul" /\ Len(string) < LINE_SIZE)
           /\ string' = Append(string, c)
           /\ con' = Con!printChar(con, c)
           /\ at' = PromptAfter(con)
           /\ UNCHANGED pc
  <2>1. Len(string) < LINE_SIZE
    BY <1>3, <1>5
  <2>2. c \in Characters
    BY <1>2, <1>5, <2>1 DEF Char
  <2> QED BY <1>1, <1>5, <2>1, <2>2
<1> QED BY <1>1, <1>4, <1>5 DEF Round

LEMMA FreshInductive == KeysInv /\ ShellInv /\ FreshInv /\ [Next]_vars => FreshInv'
<1> SUFFICES ASSUME KeysInv, ShellInv, FreshInv, [Next]_vars PROVE FreshInv'
  OBVIOUS
<1>1. con \in Consoles /\ con \in FreshConsoles
  BY DEF FreshInv, ShellInv
<1>2. ASSUME UNCHANGED <<con, string, pc, at>> PROVE FreshInv'
  BY <1>2 DEF FreshInv
<1>3. ASSUME NEW key, PressShift(key) \/ PressKey(key) PROVE FreshInv'
  BY <1>2, <1>3 DEF PressShift, PressKey
<1>4. CASE UNCHANGED vars
  BY <1>2, <1>4 DEF vars
<1>5. CASE ShellStarts
  <2> DEFINE x == 0
             y == Con!LAST_LINE
  <2>1. con' = Con!setCursor(con, x, y)
    BY <1>5, Sizes DEF ShellStarts
  <2>2. x \in Nat /\ y \in Rows
    BY RowsBelow
  <2>3. con.line = Con!EmptyLine /\ string = <<>>
    BY <1>5 DEF FreshInv, ShellStarts
  <2> HIDE DEF x, y
  <2>4. con' \in Consoles /\ con'.line = Con!EmptyLine
    BY <1>1, <2>1, <2>2, <2>3, CursorOK
  <2>5. con' \in FreshConsoles
    BY <2>4 DEF FreshConsoles, Fresh
  <2> QED BY <1>5, <2>3, <2>5 DEF ShellStarts, FreshInv
<1>6. CASE Prompts
  <2> DEFINE n == Len(Prompt)
  <2>1. n \in Nat /\ IsText(Prompt, n)
    BY PromptIsText
  <2>2. con' = Con!print(con, Prompt, n)
    BY <1>6 DEF Prompts
  <2> HIDE DEF n
  <2>3. PICK f : Prints(f, con, Prompt, n)
    BY <1>1, <2>1, Printing
  <2>4. \A k \in 0 .. n : f[k] \in FreshConsoles
    BY <1>1, <2>1, <2>3, FreshPrint
  <2>5. con' = f[n] /\ n \in 0 .. n
    BY <2>1, <2>2, <2>3 DEF Prints
  <2>6. con' \in FreshConsoles
    BY <2>4, <2>5
  <2>7. at' = <<con.x, con.y>> /\ con.x \in Int /\ con.y \in Int /\ con.y <= Con!LAST_LINE
    BY <1>1, <1>6, RowsBelow DEF Prompts, Consoles
  <2> QED BY <1>6, <2>6, <2>7 DEF Prompts, FreshInv
<1>7. CASE Edits
  <2>1. CASE pc' = "run" /\ UNCHANGED <<string, con, at>>
    BY <2>1 DEF FreshInv
  <2>2. CASE Erase /\ string # <<>> /\ pc' = "edit"
    <3>1. con' \in FreshConsoles /\ at' = PromptAfter(Back)
      BY <1>1, <2>2, EraseMeans DEF ShellInv
    <3>2. at' \in Int \X Int /\ at'[2] <= Con!LAST_LINE
      BY <3>1, AtAfter DEF FreshInv
    <3> QED BY <2>2, <3>1, <3>2 DEF FreshInv
  <2>3. CASE UNCHANGED <<string, con, at, pc>>
    BY <1>2, <2>3
  <2>4. ASSUME NEW c \in Characters,
               /\ string' = Append(string, c)
               /\ con' = Con!printChar(con, c)
               /\ at' = PromptAfter(con)
               /\ pc' = "edit" /\ Len(string) < LINE_SIZE
        PROVE  FreshInv'
    <3>1. con' \in FreshConsoles
      BY <1>1, <2>4, FreshPrinted
    <3>2. at' \in Int \X Int /\ at'[2] <= Con!LAST_LINE
      BY <2>4, AtAfter DEF FreshInv
    <3> QED BY <2>4, <3>1, <3>2 DEF FreshInv
  <2> QED BY <1>7, <2>1, <2>2, <2>3, <2>4, RoundMeans
<1>8. CASE Interprets
  <2>1. con' \in FreshConsoles
    BY <1>1, <1>8, FreshNewLine DEF Interprets
  <2> QED BY <1>8, <2>1 DEF Interprets, FreshInv
<1>9. CASE CommandEnds
  <2> DEFINE K == FreshConsoles
  <2>1. con \in K /\ \A c \in K : Outputs(c) \subseteq K
    BY <1>1, FreshOutputs
  <2> HIDE DEF K
  <2>2. Written \subseteq K
    BY <2>1, WrittenKeeps
  <2>3. con' \in FreshConsoles
    BY <1>9, <2>2 DEF CommandEnds, K
  <2> QED BY <1>9, <2>3 DEF CommandEnds, FreshInv
<1> QED BY <1>3, <1>4, <1>5, <1>6, <1>7, <1>8, <1>9 DEF Next

\* What is to be seen while the line is s.
Sheet(s) == [j \in 1 .. 7 + Len(s) |-> IF j <= 7 THEN Prompt[j] ELSE s[j - 7]]

EchoInv ==
  pc \in {"edit", "run"} /\ PromptInPlace /\ 8 * CHAR_WIDTH <= SCREEN_WIDTH =>
    Shows(con, Sheet(string), 7 + Len(string))

LEMMA SheetsAgree ==
  ASSUME NEW s \in Seq(Characters), NEW r \in Seq(Characters), NEW m \in Nat,
         m <= Len(s), m <= Len(r), \A j \in 1 .. m : s[j] = r[j]
  PROVE  Agree(Sheet(s), Sheet(r), 7 + m)
<1> SUFFICES ASSUME NEW j \in 1 .. 7 + m PROVE Sheet(s)[j] = Sheet(r)[j]
  BY DEF Agree
<1>1. Len(s) \in Nat /\ Len(r) \in Nat
  OBVIOUS
<1>2. j \in 1 .. 7 + Len(s) /\ j \in 1 .. 7 + Len(r)
  BY <1>1
<1>3. CASE j <= 7
  BY <1>2, <1>3 DEF Sheet
<1>4. CASE ~ (j <= 7)
  <2>1. j - 7 \in 1 .. m
    BY <1>4
  <2> QED BY <1>2, <1>4, <2>1 DEF Sheet
<1> QED BY <1>3, <1>4

LEMMA ShowsSame ==
  ASSUME NEW c, NEW t, NEW u, NEW n \in Nat, Shows(c, t, n), Agree(t, u, n)
  PROVE  Shows(c, u, n)
<1>1. \A k \in Nat : k < n => t[k + 1] = u[k + 1]
  <2> SUFFICES ASSUME NEW k \in Nat, k < n PROVE t[k + 1] = u[k + 1]
    OBVIOUS
  <2>1. k + 1 \in 1 .. n
    OBVIOUS
  <2> QED BY <2>1 DEF Agree
<1> QED BY <1>1 DEF Shows

LEMMA EchoPrompts ==
  ASSUME con \in Consoles, FreshInv, Prompts
  PROVE  EchoInv'
<1> SUFFICES ASSUME PromptInPlace', 8 * CHAR_WIDTH <= SCREEN_WIDTH
             PROVE  Shows(con', Sheet(string'), 7 + Len(string'))
  BY DEF EchoInv
<1>1. con.x = 0 /\ con.y = Con!LAST_LINE
  BY Sizes DEF Prompts, PromptInPlace
<1>2. con.line = Con!EmptyLine
  BY <1>1 DEF FreshInv, FreshConsoles, Fresh
<1> DEFINE n == 7
<1>3. n = Len(Prompt) /\ n \in Nat /\ IsText(Prompt, n)
  BY PromptIsText
<1>4. con' = Con!print(con, Prompt, n)
  BY <1>3 DEF Prompts
<1>5. 8 * CHAR_WIDTH = 7 * CHAR_WIDTH + CHAR_WIDTH /\ 7 * CHAR_WIDTH \in Nat
  BY Sizes
<1>6. 7 * CHAR_WIDTH < SCREEN_WIDTH
  BY <1>5, Sizes
<1>7. ASSUME NEW k \in 1 .. n PROVE k \in Nat /\ k * CHAR_WIDTH <= 7 * CHAR_WIDTH
  <2>1. k \in Nat /\ (k < 7 \/ k = 7)
    OBVIOUS
  <2>2. k < 7 => k * CHAR_WIDTH + CHAR_WIDTH <= 7 * CHAR_WIDTH /\ k * CHAR_WIDTH \in Nat
    BY <2>1, Increasing, Sizes
  <2>3. k < 7 => k * CHAR_WIDTH <= 7 * CHAR_WIDTH
    <3> DEFINE a == k * CHAR_WIDTH
               b == 7 * CHAR_WIDTH
    <3>1. k < 7 => a + CHAR_WIDTH <= b /\ a \in Nat
      BY <2>2
    <3>2. b \in Nat
      BY <1>5
    <3> HIDE DEF a, b
    <3>3. k < 7 => a <= b
      BY <3>1, <3>2, Sizes
    <3> QED BY <3>3 DEF a, b
  <2> QED BY <1>5, <2>1, <2>3
<1> HIDE DEF n
<1>8. PICK f : Prints(f, con, Prompt, n)
  BY <1>3, Printing
<1> DEFINE S == {k \in 0 .. n : Shows(f[k], Prompt, k)}
<1>9. 0 \in S
  <2>1. f[0] = con
    BY <1>8 DEF Prints
  <2>2. 0 * CHAR_WIDTH = 0
    BY Sizes
  <2>3. ASSUME NEW k \in Nat, k * CHAR_WIDTH < SCREEN_WIDTH
        PROVE  con.line[k * CHAR_WIDTH] = IF k < 0 THEN Prompt[k + 1] ELSE " "
    <3> DEFINE x == k * CHAR_WIDTH
    <3>1. x \in Nat
      BY Sizes
    <3>2. x \in Con!Columns
      BY <2>3, <3>1, Sizes DEF Con!Columns
    <3> HIDE DEF x
    <3>3. con.line[x] = " "
      BY <1>2, <3>2 DEF Con!EmptyLine
    <3>4. ~ (k < 0)
      OBVIOUS
    <3> QED BY <3>3, <3>4 DEF x
  <2> DEFINE z == 0
  <2>4. con.x = z * CHAR_WIDTH /\ con.x < SCREEN_WIDTH
    BY <1>1, <2>2, Sizes
  <2>5. \A k \in Nat : k * CHAR_WIDTH < SCREEN_WIDTH =>
          con.line[k * CHAR_WIDTH] = IF k < z THEN Prompt[k + 1] ELSE " "
    BY <2>3
  <2> HIDE DEF z
  <2>6. Shows(con, Prompt, z)
    BY <1>1, <2>4, <2>5 DEF Shows
  <2>7. Shows(con, Prompt, 0)
    BY <2>6 DEF z
  <2> QED BY <1>3, <2>1, <2>7
<1>10. ASSUME NEW k \in 1 .. n, k - 1 \in S PROVE k \in S
  <2> DEFINE m == k - 1
             c == f[m]
  <2>1. m \in Nat /\ m + 1 = k /\ k \in 0 .. n /\ m \in 0 .. n
    BY <1>3
  <2>2. c \in Consoles /\ f[k] = Con!printChar(c, Prompt[k])
    BY <1>8, <2>1 DEF Prints
  <2>3. Shows(c, Prompt, m)
    BY <1>10
  <2> HIDE DEF m, c
  <2>4. ~ Con!Scrolls(c, 1)
    <3>1. c.x = m * CHAR_WIDTH
      BY <2>3 DEF Shows
    <3>2. c.x = m * CHAR_WIDTH /\ CHAR_WIDTH * 1 = CHAR_WIDTH
      BY <3>1, Sizes
    <3>3. k * CHAR_WIDTH = m * CHAR_WIDTH + CHAR_WIDTH /\ m * CHAR_WIDTH \in Nat
      BY <2>1, Sizes
    <3>4. c.x + CHAR_WIDTH < SCREEN_WIDTH
      BY <1>5, <1>6, <1>7, <3>2, <3>3, Sizes
    <3>5. c.x \in Nat
      BY <2>2 DEF Consoles
    <3> QED BY <3>2, <3>4, <3>5, Sizes DEF Con!Scrolls
  <2>5. Agree(Prompt, Prompt, m) /\ Prompt[m + 1] \in Characters
    BY <1>3, <2>1 DEF Agree, IsText
  <2>6. Shows(Con!printChar(c, Prompt[m + 1]), Prompt, m + 1)
    BY <2>1, <2>2, <2>3, <2>4, <2>5, TypedShows
  <2> QED BY <2>1, <2>2, <2>6
<1>11. n \in S
  <2>1. n \in Nat /\ n \in 0 .. n
    BY <1>3
  <2> HIDE DEF S
  <2>2. 0 .. n \subseteq S
    BY <2>1, <1>9, <1>10, UpTo
  <2> QED BY <2>1, <2>2
<1>12. Shows(con', Prompt, n)
  BY <1>4, <1>8, <1>11 DEF Prints
<1>13. string' = <<>> /\ 7 + Len(string') = n
  BY DEF Prompts, FreshInv, n
<1>14. Agree(Prompt, Sheet(string'), n)
  <2> SUFFICES ASSUME NEW j \in 1 .. n PROVE Prompt[j] = Sheet(string')[j]
    BY DEF Agree
  <2>1. j \in 1 .. 7 + Len(string') /\ j <= 7
    BY <1>13 DEF n
  <2> QED BY <2>1 DEF Sheet
<1> QED BY <1>3, <1>12, <1>13, <1>14, ShowsSame

LEMMA EchoInductive == KeysInv /\ ShellInv /\ FreshInv /\ EchoInv /\ [Next]_vars => EchoInv'
<1> SUFFICES ASSUME KeysInv, ShellInv, FreshInv, EchoInv, [Next]_vars PROVE EchoInv'
  OBVIOUS
<1>1. con \in Consoles /\ con \in FreshConsoles /\ string \in Seq(Characters)
  BY DEF FreshInv, ShellInv
<1>2. ASSUME NEW key, PressShift(key) \/ PressKey(key) PROVE EchoInv'
  <2>1. UNCHANGED <<con, string, pc, at>>
    BY <1>2 DEF PressShift, PressKey
  <2> QED BY <2>1 DEF EchoInv, PromptInPlace
<1>3. CASE UNCHANGED vars
  BY <1>3 DEF vars, EchoInv, PromptInPlace
<1>4. CASE ShellStarts \/ Interprets \/ CommandEnds
  BY <1>4 DEF ShellStarts, Interprets, CommandEnds, EchoInv
<1>5. CASE Prompts
  BY <1>1, <1>5, EchoPrompts
<1>6. CASE Edits
  <2>1. pc = "edit"
    BY <1>6, EditsRound
  <2>2. CASE pc' = "run" /\ UNCHANGED <<string, con, at>>
    BY <2>1, <2>2 DEF EchoInv, PromptInPlace
  <2>3. CASE UNCHANGED <<string, con, at, pc>>
    BY <2>3 DEF EchoInv, PromptInPlace
  <2>4. CASE Erase /\ string # <<>> /\ pc' = "edit"
    <3> SUFFICES ASSUME PromptInPlace', 8 * CHAR_WIDTH <= SCREEN_WIDTH
                 PROVE  Shows(con', Sheet(string'), 7 + Len(string'))
      BY DEF EchoInv
    <3> DEFINE n == 7 + Len(string)
               t == Sheet(string)
               p == Back
    <3>1. /\ Len(string) \in Nat \ {0}
          /\ string' \in Seq(Characters) /\ Len(string') = Len(string) - 1
          /\ \A k \in 1 .. Len(string) - 1 : string'[k] = string[k]
          /\ Back \in FreshConsoles
          /\ con' = Con!setCursor(Con!printChar(Back, " "),
                                  CHAR_WIDTH * (Len(string) - 1 + 7), Con!LAST_LINE)
          /\ at' = PromptAfter(Back)
      BY <1>1, <2>4, EraseMeans
    <3>2. PromptInPlace /\ ~ Con!Scrolls(p, 1)
      BY <3>1, AtAfter DEF FreshInv
    <3>3. Shows(con, t, n)
      BY <2>1, <3>2 DEF EchoInv
    <3>4. n \in Nat \ {0} /\ n - 1 = Len(string) - 1 + 7 /\ n - 1 = 7 + Len(string') /\ n - 1 \in Nat
      <4> DEFINE l == Len(string)
      <4>1. l \in Nat \ {0} /\ Len(string') = l - 1
        BY <3>1
      <4> HIDE DEF l
      <4>2. 7 + l \in Nat \ {0} /\ 7 + l - 1 = l - 1 + 7 /\ 7 + l - 1 = 7 + (l - 1) /\ 7 + l - 1 \in Nat
        BY <4>1
      <4> QED BY <4>1, <4>2 DEF l
    <3>5. CHAR_WIDTH * (Len(string) - 1 + 7) = (n - 1) * CHAR_WIDTH
      <4> DEFINE m == n - 1
      <4>1. m \in Nat /\ Len(string) - 1 + 7 = m
        BY <3>4
      <4> HIDE DEF m
      <4>2. CHAR_WIDTH * m = m * CHAR_WIDTH
        BY <4>1, Sizes
      <4> QED BY <4>1, <4>2 DEF m
    <3>6. p \in Consoles /\ p = Con!setCursor(con, (n - 1) * CHAR_WIDTH, Con!LAST_LINE)
      BY <3>1, <3>5 DEF Back, FreshConsoles
    <3>7. con' = Con!setCursor(Con!printChar(p, " "), (n - 1) * CHAR_WIDTH, Con!LAST_LINE)
      BY <3>1, <3>5
    <3>8. Agree(t, Sheet(string'), n - 1)
      <4> DEFINE m == Len(string')
      <4>1. m \in Nat /\ m <= Len(string) /\ m <= Len(string') /\ n - 1 = 7 + m
        <5>1. m = Len(string) - 1 /\ Len(string) \in Nat \ {0}
          BY <3>1
        <5> QED BY <3>4, <5>1
      <4>2. \A j \in 1 .. m : string[j] = string'[j]
        BY <3>1
      <4>3. Agree(Sheet(string), Sheet(string'), 7 + m)
        BY <1>1, <3>1, <4>1, <4>2, SheetsAgree
      <4> QED BY <4>1, <4>3
    <3> HIDE DEF n, t, p
    <3>9. Shows(con', t, n - 1)
      BY <1>1, <3>2, <3>3, <3>4, <3>6, <3>7, ErasedShows
    <3>10. Shows(con', Sheet(string'), n - 1)
      BY <3>4, <3>8, <3>9, ShowsSame
    <3> QED BY <3>4, <3>10
  <2>5. ASSUME NEW c \in Characters,
               /\ string' = Append(string, c)
               /\ con' = Con!printChar(con, c)
               /\ at' = PromptAfter(con)
               /\ pc' = "edit" /\ Len(string) < LINE_SIZE
        PROVE  EchoInv'
    <3> SUFFICES ASSUME PromptInPlace', 8 * CHAR_WIDTH <= SCREEN_WIDTH
                 PROVE  Shows(con', Sheet(string'), 7 + Len(string'))
      BY DEF EchoInv
    <3> DEFINE n == 7 + Len(string)
               t == Sheet(string)
               u == Sheet(string')
    <3>1. PromptInPlace /\ ~ Con!Scrolls(con, 1)
      BY <2>5, AtAfter DEF FreshInv
    <3>2. Shows(con, t, n)
      BY <2>1, <3>1 DEF EchoInv
    <3>3. /\ string' \in Seq(Characters) /\ Len(string') = Len(string) + 1
          /\ Len(string) \in Nat /\ string'[Len(string) + 1] = c
          /\ \A j \in 1 .. Len(string) : string[j] = string'[j]
      BY <1>1, <2>5
    <3>4. n \in Nat /\ n + 1 = 7 + Len(string')
      BY <3>3
    <3>5. Agree(t, u, n)
      <4> DEFINE m == Len(string)
      <4>1. m \in Nat /\ m <= Len(string) /\ m <= Len(string')
        BY <3>3
      <4>2. Agree(Sheet(string), Sheet(string'), 7 + m)
        BY <1>1, <3>3, <4>1, SheetsAgree
      <4> QED BY <4>2
    <3>6. u[n + 1] = c
      <4>1. n + 1 \in 1 .. 7 + Len(string') /\ ~ (n + 1 <= 7) /\ n + 1 - 7 = Len(string) + 1
        BY <3>3
      <4> QED BY <3>3, <4>1 DEF Sheet
    <3> HIDE DEF n, t, u
    <3>7. Shows(Con!printChar(con, u[n + 1]), u, n + 1)
      BY <1>1, <3>1, <3>2, <3>4, <3>5, <3>6, TypedShows
    <3> QED BY <2>5, <3>4, <3>6, <3>7 DEF u
  <2> QED BY <1>6, <2>2, <2>3, <2>4, <2>5, RoundMeans
<1> QED BY <1>2, <1>3, <1>4, <1>5, <1>6 DEF Next

\* n is the number of elements of t, of m, up to the last one that is no space.
LastAt(t, m, n) ==
  /\ n \in 0 .. m /\ (n = 0 \/ t[n] # " ")
  /\ \A k \in n + 1 .. m : t[k] = " "

LEMMA LastUnique ==
  ASSUME NEW t, NEW m \in Nat, NEW a, NEW b, LastAt(t, m, a), LastAt(t, m, b)
  PROVE  a = b
<1>1. a \in 0 .. m /\ b \in 0 .. m
  BY DEF LastAt
<1>2. ~ (a < b)
  <2>1. a < b => b \in a + 1 .. m /\ b # 0
    BY <1>1
  <2> QED BY <2>1 DEF LastAt
<1>3. ~ (b < a)
  <2>1. b < a => a \in b + 1 .. m /\ a # 0
    BY <1>1
  <2> QED BY <2>1 DEF LastAt
<1> QED BY <1>1, <1>2, <1>3

LEMMA LastExists ==
  ASSUME NEW t, NEW m \in Nat
  PROVE  \E n : LastAt(t, m, n)
<1> DEFINE Blank(j) == \A k \in j + 1 .. m : t[k] = " "
           S == {j \in 0 .. m : Blank(j)}
<1>1. S \in SUBSET Nat /\ S # {}
  <2>1. m \in S
    <3>1. m + 1 .. m = {} /\ m \in 0 .. m
      OBVIOUS
    <3> QED BY <3>1
  <2> HIDE DEF Blank
  <2>2. \A j \in S : j \in Nat
    OBVIOUS
  <2> HIDE DEF S
  <2> QED BY <2>1, <2>2
<1>2. PICK n \in S : \A j \in S : n <= j
  BY <1>1, Smallest
<1> HIDE DEF Blank
<1>3. n \in 0 .. m /\ Blank(n)
  OBVIOUS
<1> HIDE DEF S
<1>4. ASSUME NEW i \in 1 .. m, Blank(i), t[i] = " " PROVE Blank(i - 1)
  <2>1. ASSUME NEW k \in i - 1 + 1 .. m PROVE t[k] = " "
    <3>1. k = i \/ k \in i + 1 .. m
      OBVIOUS
    <3> QED BY <1>4, <3>1 DEF Blank
  <2> QED BY <2>1 DEF Blank
<1>5. \A i \in 1 .. m : i - 1 \in 0 .. m /\ ~ (i <= i - 1)
  OBVIOUS
<1>6. \A i \in 0 .. m : i # 0 => i \in 1 .. m
  OBVIOUS
<1>7. n = 0 \/ t[n] # " "
  <2> SUFFICES ASSUME n # 0, t[n] = " " PROVE FALSE
    OBVIOUS
  <2>1. n \in 1 .. m
    BY <1>3, <1>6
  <2>2. n - 1 \in S
    BY <1>3, <1>4, <1>5, <2>1 DEF S
  <2> QED BY <1>2, <1>5, <2>1, <2>2
<1>8. LastAt(t, m, n)
  BY <1>3, <1>7 DEF LastAt, Blank
<1> QED BY <1>8

LEMMA Quotient ==
  ASSUME NEW a \in Nat, NEW b \in Nat \ {0}
  PROVE  a \div b \in Nat /\ (a \div b) * b <= a /\ a < (a \div b) * b + b
OBVIOUS

\* The last line as Shown takes it.
Row == [k \in 1 .. (SCREEN_WIDTH \div CHAR_WIDTH) |-> con.line[(k - 1) * CHAR_WIDTH]]

\* The first w characters of a line on which s is typed, with l characters.
OnRow(r, w, s, l) ==
  \A k \in 1 .. w : r[k] = IF k <= 7 THEN Prompt[k] ELSE IF k <= 7 + l THEN s[k - 7] ELSE " "

LEMMA RowShows ==
  ASSUME con \in Consoles, string \in Seq(Characters), LineFits,
         Shows(con, Sheet(string), 7 + Len(string))
  PROVE  LET w == SCREEN_WIDTH \div CHAR_WIDTH
             l == Len(string)
         IN  /\ w \in Nat /\ l \in Nat /\ 7 + l <= w
             /\ Row \in Seq(Characters) /\ Len(Row) = w
             /\ OnRow(Row, w, string, l)
<1> DEFINE w == SCREEN_WIDTH \div CHAR_WIDTH
           l == Len(string)
           h == CHAR_WIDTH
           n == 7 + l
<1>1. w \in Nat /\ w * h <= SCREEN_WIDTH /\ SCREEN_WIDTH < w * h + h
  BY Quotient, Sizes
<1>2. l \in Nat /\ n \in Nat /\ h \in Nat \ {0} /\ SCREEN_WIDTH \in Nat
  BY Sizes
<1>3. h * (7 + l + 1) <= SCREEN_WIDTH
  BY PromptIsText DEF LineFits
<1> HIDE DEF w, l, h, n
<1>4. n <= w
  <2> DEFINE a == n + 1
             b == w + 1
  <2>1. a \in Nat /\ b \in Nat /\ a = 7 + l + 1
    BY <1>1, <1>2 DEF n
  <2>2. h * a <= SCREEN_WIDTH
    BY <1>3, <2>1
  <2> HIDE DEF a
  <2>3. h * a = a * h /\ b * h = w * h + h
    BY <1>1, <1>2, <2>1
  <2>4. a * h <= SCREEN_WIDTH /\ SCREEN_WIDTH < b * h
    BY <1>1, <2>2, <2>3
  <2>5. ~ (b < a)
    <3> HIDE DEF b
    <3>1. b < a => b * h + h <= a * h /\ b * h \in Nat /\ a * h \in Nat
      BY <1>2, <2>1, Increasing
    <3> DEFINE ah == a * h
               bh == b * h
    <3>2. b < a => bh + h <= ah /\ bh \in Nat /\ ah \in Nat
      BY <3>1
    <3>3. ah <= SCREEN_WIDTH /\ SCREEN_WIDTH < bh
      BY <2>4
    <3> HIDE DEF ah, bh
    <3> QED BY <1>2, <3>2, <3>3
  <2> QED BY <1>1, <1>2, <2>1, <2>5 DEF a
<1>5. ASSUME NEW k \in 1 .. w
      PROVE  /\ k - 1 \in Nat /\ (k - 1) * h \in Con!Columns
             /\ Row[k] = con.line[(k - 1) * h]
             /\ (k - 1) * h < SCREEN_WIDTH
  <2> DEFINE m == k - 1
             x == m * h
             y == w * h
  <2>1. m \in Nat /\ m < w
    BY <1>1
  <2> HIDE DEF m
  <2>2. x + h <= y /\ x \in Nat /\ y \in Nat
    BY <1>1, <1>2, <2>1, Increasing
  <2>3. y <= SCREEN_WIDTH
    BY <1>1
  <2> HIDE DEF x, y
  <2>4. x \in Con!Columns /\ x < SCREEN_WIDTH
    BY <1>2, <2>2, <2>3 DEF Con!Columns
  <2>5. Row[k] = con.line[(k - 1) * h]
    BY DEF Row, w, h
  <2> QED BY <2>1, <2>4, <2>5 DEF x, m
<1>6. Row \in Seq(Characters) /\ Len(Row) = w
  <2>1. Row = [k \in 1 .. w |-> con.line[(k - 1) * h]]
    BY DEF Row, w, h
  <2>2. \A k \in 1 .. w : con.line[(k - 1) * h] \in Characters
    BY <1>5 DEF Consoles
  <2>3. Row \in [1 .. w -> Characters]
    BY <2>1, <2>2
  <2> HIDE DEF Row
  <2> QED BY <1>1, <2>3, SeqDef
<1>7. ASSUME NEW k \in 1 .. w
      PROVE  Row[k] = IF k <= 7 THEN Prompt[k] ELSE IF k <= n THEN string[k - 7] ELSE " "
  <2>1. Shows(con, Sheet(string), n)
    BY DEF n, l
  <2>2. con.line[(k - 1) * h] = IF k - 1 < n THEN Sheet(string)[k - 1 + 1] ELSE " "
    BY <1>5, <2>1 DEF Shows, h
  <2>3. /\ k - 1 < n <=> k <= n
        /\ k - 1 + 1 = k
        /\ k <= 7 => k <= n
    BY <1>2 DEF n
  <2>4. k <= n => Sheet(string)[k] = IF k <= 7 THEN Prompt[k] ELSE string[k - 7]
    <3>1. k <= n => k \in 1 .. 7 + Len(string)
      BY <1>2 DEF n, l
    <3> QED BY <3>1 DEF Sheet
  <2>5. Row[k] = IF k <= n THEN Sheet(string)[k] ELSE " "
    BY <1>5, <2>2, <2>3
  <2> QED BY <2>3, <2>4, <2>5
<1>8. OnRow(Row, w, string, l)
  BY <1>7 DEF OnRow, n
<1> QED BY <1>1, <1>2, <1>4, <1>6, <1>8 DEF w, l, n

\* Up to the last character that is no space.
Until(t, m) ==
  CHOOSE n \in 0 .. m : /\ n = 0 \/ t[n] # " "
                        /\ \A k \in n + 1 .. m : t[k] = " "

LEMMA UntilLast ==
  ASSUME NEW t, NEW m \in Nat
  PROVE  LastAt(t, m, Until(t, m))
<1> DEFINE P(n) == (n = 0 \/ t[n] # " ") /\ \A k \in n + 1 .. m : t[k] = " "
<1>1. PICK n : LastAt(t, m, n)
  BY LastExists
<1>2. n \in 0 .. m /\ P(n)
  BY <1>1 DEF LastAt
<1>3. Until(t, m) = CHOOSE j \in 0 .. m : P(j)
  BY DEF Until
<1> HIDE DEF P
<1>4. Until(t, m) \in 0 .. m /\ P(Until(t, m))
  BY <1>2, <1>3
<1> QED BY <1>4 DEF LastAt, P

LEMMA TrimmedRow ==
  ASSUME NEW w \in Nat, NEW l \in Nat, 7 + l <= w,
         NEW r \in Seq(Characters), NEW s \in Seq(Characters), Len(r) = w, Len(s) = l,
         OnRow(r, w, s, l),
         NEW a \in Nat, NEW b \in Nat, LastAt(r, w, a), LastAt(s, l, b)
  PROVE  SubSeq(r, 8, a) = SubSeq(s, 1, b)
<1>1. Prompt[6] = ":" /\ Prompt[7] = " "
  BY DEF Prompt
<1>2. b \in 0 .. l /\ b <= l
  <2>1. b \in 0 .. l
    BY Zenon DEF LastAt
  <2> QED BY <2>1
<1>3. b = 0 \/ s[b] # " "
  BY DEF LastAt
<1>4. \A k \in b + 1 .. l : s[k] = " "
  BY DEF LastAt
<1>5. \A k \in 1 .. w : r[k] = IF k <= 7 THEN Prompt[k] ELSE IF k <= 7 + l THEN s[k - 7] ELSE " "
  BY Zenon DEF OnRow
<1>6. \A k \in 1 .. 7 : r[k] = Prompt[k]
  <2>1. \A k \in 1 .. 7 : k \in 1 .. w /\ k <= 7
    OBVIOUS
  <2> QED BY <1>5, <2>1
<1>7. \A k \in 1 .. l : r[k + 7] = s[k]
  <2> SUFFICES ASSUME NEW k \in 1 .. l PROVE r[k + 7] = s[k]
    OBVIOUS
  <2> DEFINE i == k + 7
  <2>1. i \in 1 .. w /\ ~ (i <= 7) /\ i <= 7 + l /\ i - 7 = k
    OBVIOUS
  <2> HIDE DEF i
  <2>2. r[i] = s[i - 7]
    BY <1>5, <2>1, Zenon
  <2>3. r[i] = s[k]
    BY <2>1, <2>2, Zenon
  <2> QED BY <2>3 DEF i
<1>8. \A k \in 8 + l .. w : r[k] = " "
  <2> SUFFICES ASSUME NEW k \in 8 + l .. w PROVE r[k] = " "
    OBVIOUS
  <2>1. k \in 1 .. w /\ ~ (k <= 7) /\ ~ (k <= 7 + l)
    OBVIOUS
  <2> QED BY <1>5, <2>1
<1>9. \A k \in 8 + b .. w : r[k] = " "
  <2> SUFFICES ASSUME NEW k \in 8 + b .. w PROVE r[k] = " "
    OBVIOUS
  <2>1. CASE k <= 7 + l
    <3>1. k - 7 \in b + 1 .. l /\ k - 7 \in 1 .. l /\ k - 7 + 7 = k
      BY <2>1
    <3> QED BY <1>7, <1>4, <3>1
  <2>2. CASE ~ (k <= 7 + l)
    <3>1. k \in 8 + l .. w
      BY <2>2
    <3> QED BY <1>8, <3>1
  <2> QED BY <2>1, <2>2
<1>10. CASE b # 0
  <2> DEFINE e == b + 7
  <2>1. b \in 1 .. l /\ e \in Nat /\ e \in 0 .. w /\ e + 1 = 8 + b
    BY <1>2, <1>10
  <2>2. r[e] # " "
    <3>1. r[b + 7] = s[b]
      BY <1>7, <2>1
    <3> QED BY <1>10, <1>3, <3>1
  <2>3. LastAt(r, w, e)
    BY <1>9, <2>1, <2>2 DEF LastAt
  <2>4. a = e
    BY <2>1, <2>3, LastUnique
  <2> DEFINE t == SubSeq(r, 8, a)
             u == SubSeq(s, 1, b)
  <2>5. t \in Seq(Characters) /\ Len(t) = b /\ \A j \in 1 .. b : t[j] = s[j]
    <3>1. \A k \in 8 .. a : r[k] \in Characters
      BY <1>2, <2>4
    <3>2. 8 \in Int /\ a \in Int /\ 8 <= a /\ a - 8 + 1 = b
      BY <1>10, <2>4
    <3>3. /\ t \in Seq(Characters)
          /\ Len(t) = IF 8 <= a THEN a - 8 + 1 ELSE 0
          /\ \A j \in 1 .. a - 8 + 1 : t[j] = r[8 + j - 1]
      BY <3>1, <3>2, SubSeqProperties
    <3> HIDE DEF t
    <3>4. ASSUME NEW j \in 1 .. b PROVE t[j] = s[j]
      <4>1. 8 + j - 1 = j + 7 /\ j \in 1 .. l
        BY <1>2
      <4>2. t[j] = r[8 + j - 1]
        BY <3>2, <3>3
      <4> QED BY <1>7, <4>1, <4>2
    <3> QED BY <3>2, <3>3, <3>4
  <2>6. u \in Seq(Characters) /\ Len(u) = b /\ \A j \in 1 .. b : u[j] = s[j]
    <3>1. \A k \in 1 .. b : s[k] \in Characters
      BY <1>2
    <3>2. 1 \in Int /\ b \in Int /\ 1 <= b /\ b - 1 + 1 = b
      BY <1>10
    <3>3. /\ u \in Seq(Characters)
          /\ Len(u) = IF 1 <= b THEN b - 1 + 1 ELSE 0
          /\ \A j \in 1 .. b - 1 + 1 : u[j] = s[1 + j - 1]
      BY <3>1, <3>2, SubSeqProperties
    <3> HIDE DEF u
    <3>4. \A j \in 1 .. b : 1 + j - 1 = j
      OBVIOUS
    <3> QED BY <3>2, <3>3, <3>4
  <2> HIDE DEF t, u
  <2>7. t = u
    <3>1. \A j \in 1 .. b : t[j] = u[j]
      BY <2>5, <2>6
    <3> QED BY <2>5, <2>6, <3>1
  <2> QED BY <2>7 DEF t, u
<1>11. CASE b = 0
  <2> DEFINE e == 6
  <2>1. 6 \in 1 .. 7 /\ 7 \in 1 .. 7
    OBVIOUS
  <2>2. r[6] = ":" /\ r[7] = " "
    BY <1>1, <1>6, <2>1
  <2>3. ASSUME NEW k \in 6 + 1 .. w PROVE r[k] = " "
    <3>1. k = 7 \/ k \in 8 + b .. w
      BY <1>11
    <3> QED BY <1>9, <2>2, <3>1
  <2>4. e \in 0 .. w /\ e \in Nat
    OBVIOUS
  <2>5. e \in 0 .. w /\ e \in Nat /\ r[e] # " "
    BY <2>2, <2>4
  <2>6. LastAt(r, w, e)
    BY <2>3, <2>5 DEF LastAt
  <2>7. a = 6
    BY <2>5, <2>6, LastUnique
  <2>8. 8 \in Int /\ 6 \in Int /\ 1 \in Int /\ 0 \in Int /\ 6 < 8 /\ 0 < 1
    OBVIOUS
  <2>9. SubSeq(r, 8, 6) = <<>> /\ SubSeq(s, 1, 0) = <<>>
    BY <2>8, SubSeqEmpty
  <2> QED BY <1>11, <2>7, <2>9
<1> QED BY <1>10, <1>11

LEMMA ShownIsTrimmed ==
  ASSUME con \in Consoles, string \in Seq(Characters), LineFits,
         Shows(con, Sheet(string), 7 + Len(string))
  PROVE  Shown = Trimmed(string)
<1> DEFINE w == SCREEN_WIDTH \div CHAR_WIDTH
           l == Len(string)
           r == Row
           s == string
           a == Until(r, w)
           b == Until(s, l)
<1>1. /\ w \in Nat /\ l \in Nat /\ 7 + l <= w
      /\ r \in Seq(Characters) /\ Len(r) = w
      /\ OnRow(r, w, s, l)
  BY RowShows
<1>2. Shown = SubSeq(r, 8, a)
  <2>1. Len(Prompt) + 1 = 8
    BY PromptIsText
  <2>2. Shown = SubSeq(r, Len(Prompt) + 1, Until(r, Len(r)))
    BY DEF Shown, Row, Until
  <2> QED BY <1>1, <2>1, <2>2
<1>3. Trimmed(s) = SubSeq(s, 1, b)
  BY DEF Trimmed, Until
<1>4. s \in Seq(Characters) /\ Len(s) = l
  OBVIOUS
<1> HIDE DEF w, l, r, s
<1>5. LastAt(r, w, a) /\ LastAt(s, l, b)
  BY <1>1, UntilLast
<1> HIDE DEF a, b
<1>6. a \in Nat /\ b \in Nat
  <2>1. a \in 0 .. w /\ b \in 0 .. l
    BY <1>5 DEF LastAt
  <2> QED BY <1>1, <2>1
<1>7. SubSeq(r, 8, a) = SubSeq(s, 1, b)
  BY <1>1, <1>4, <1>5, <1>6, TrimmedRow
<1> QED BY <1>2, <1>3, <1>7 DEF s

(* While a line is edited the screen shows it, as far as it fits: after any    *)
(* number of characters typed and erased (shell.c and naiveConsole.c).         *)
THEOREM EchoMatchesHolds == Spec => []EchoMatches
<1>1. ASSUME ShellInv, EchoInv PROVE EchoMatches
  <2> SUFFICES ASSUME pc \in {"edit", "run"}, LineFits PROVE Shown = Trimmed(string)
    BY DEF EchoMatches
  <2>1. string \in Seq(Characters) /\ Len(string) \in Nat
    BY <1>1 DEF ShellInv
  <2>2. 8 * CHAR_WIDTH <= SCREEN_WIDTH
    <3> DEFINE l == Len(string)
               n == 7 + l + 1
               h == CHAR_WIDTH
    <3>1. h * n <= SCREEN_WIDTH
      BY PromptIsText DEF LineFits
    <3>2. n \in Nat /\ n = 8 + l /\ l \in Nat /\ h \in Nat
      BY <2>1, Sizes
    <3> HIDE DEF n, l, h
    <3>3. h * n = 8 * h + l * h /\ l * h \in Nat /\ 8 * h \in Nat
      BY <3>2
    <3>4. 8 * h <= h * n
      BY <3>3
    <3> QED BY <3>1, <3>3, <3>4, Sizes DEF h
  <2>3. Shows(con, Sheet(string), 7 + Len(string))
    BY <1>1, <2>2 DEF EchoInv, LineFits
  <2> QED BY <1>1, <2>1, <2>3, ShownIsTrimmed DEF ShellInv
<1>2. Init => KeysInv /\ ShellInv /\ FreshInv /\ EchoInv
  <2>1. Init => EchoInv
    BY DEF Init, EchoInv
  <2> QED BY <2>1, KeysInit, ShellInit, FreshInit
<1> QED BY <1>1, <1>2, KeysInductive, ShellInductive, FreshInductive, EchoInductive, PTL DEF Spec

-----------------------------------------------------------------------------
(* Numbers and their digits *)

LEMMA Digits ==
  ASSUME NEW k \in 1 .. 10
  PROVE  /\ DigitOf(Digit[k]) = k - 1
         /\ Digit[k] \notin {"nul", " ", "%d"}
<1>1. \A i \in 1 .. 10 : Digit[i] = Digit[k] => i = k
  BY DEF Digit
<1>2. (CHOOSE i \in 1 .. 10 : Digit[i] = Digit[k]) = k
  BY <1>1
<1>3. DigitOf(Digit[k]) = k - 1
  BY <1>2 DEF DigitOf
<1>4. Digit[k] \notin {"nul", " ", "%d"}
  <2>1. \/ k = 1 \/ k = 2 \/ k = 3 \/ k = 4 \/ k = 5
        \/ k = 6 \/ k = 7 \/ k = 8 \/ k = 9 \/ k = 10
    OBVIOUS
  <2>2. Digit[k] \in {"0", "1", "2", "3", "4", "5", "6", "7", "8", "9"}
    BY <2>1 DEF Digit
  <2> QED BY <2>2
<1> QED BY <1>3, <1>4

LEMMA DigitIsSmall ==
  ASSUME NEW c, NEW k \in 1 .. 10, c = Digit[k]
  PROVE  DigitOf(c) \in 0 .. 9
<1>1. DigitOf(Digit[k]) = k - 1
  BY Digits
<1> QED BY <1>1

\* v is what the first k characters of s are worth, for every k up to n.
Worth(v, s, n) ==
  /\ v \in [0 .. n -> Nat] /\ v[0] = 0
  /\ \A k \in 1 .. n : v[k] = 10 * v[k - 1] + DigitOf(s[k])

(* Value is the last of such a row of numbers.                             *)
LEMMA ValueWorth ==
  ASSUME NEW D, NEW s \in Seq(D), isNumber(s)
  PROVE  \E v : Worth(v, s, Len(s)) /\ Value(s) = v[Len(s)]
<1> DEFINE n == Len(s)
           step == [p \in Nat \X (1 .. n) |-> 10 * p[1] + DigitOf(s[p[2]])]
           Body(g, k) == IF k = 0 THEN 0 ELSE 10 * g[k - 1] + DigitOf(s[k])
           upto == CHOOSE g : g = [k \in 0 .. n |-> Body(g, k)]
           N == Nat
           zero == 0
<1>1. n \in Nat /\ DOMAIN s = 1 .. n
  OBVIOUS
<1>2. \A k \in 1 .. n : DigitOf(s[k]) \in Nat
  <2>1. ASSUME NEW k \in 1 .. n PROVE DigitOf(s[k]) \in Nat
    <3>1. PICK i \in 1 .. 10 : s[k] = Digit[i]
      BY <1>1 DEF isNumber
    <3>2. DigitOf(s[k]) \in 0 .. 9
      BY <3>1, DigitIsSmall
    <3> QED BY <3>2
  <2> QED BY <2>1
<1>3. IsStep(step, n, N) /\ zero \in N
  <2>1. ASSUME NEW p \in Nat \X (1 .. n) PROVE 10 * p[1] + DigitOf(s[p[2]]) \in Nat
    BY <1>2
  <2> QED BY <2>1 DEF IsStep
<1>4. \A d \in Nat, k \in 1 .. n : step[<<d, k>>] = 10 * d + DigitOf(s[k])
  OBVIOUS
<1>5. Value(s) = upto[n]
  BY DEF Value
<1> HIDE DEF n, step, N, zero
<1>6. PICK g : IsRecursive(g, n, N, zero, step)
  BY <1>1, <1>3, Recursion
<1>7. \A k \in 1 .. n : k - 1 \in 0 .. n /\ k \in 0 .. n /\ k # 0
  BY <1>1
<1>8. Worth(g, s, n)
  <2>1. g \in [0 .. n -> Nat] /\ g[0] = 0 /\ \A k \in 1 .. n : g[k] = step[<<g[k - 1], k>>]
    BY <1>6 DEF IsRecursive, N, zero
  <2>2. \A k \in 1 .. n : g[k] = 10 * g[k - 1] + DigitOf(s[k])
    BY <1>4, <1>7, <2>1
  <2> QED BY <2>1, <2>2 DEF Worth
<1>9. g = [k \in 0 .. n |-> Body(g, k)]
  <2>1. ASSUME NEW k \in 0 .. n PROVE g[k] = Body(g, k)
    <3>1. k = 0 \/ k \in 1 .. n
      BY <1>1
    <3> QED BY <1>7, <1>8, <3>1 DEF Worth
  <2>2. g \in [0 .. n -> Nat]
    BY <1>8 DEF Worth
  <2> HIDE DEF Body
  <2> QED BY <2>1, <2>2
<1> HIDE DEF Body
<1>10. upto = [k \in 0 .. n |-> Body(upto, k)]
  BY <1>9
<1> HIDE DEF upto
<1> DEFINE S == {k \in 0 .. n : upto[k] = g[k]}
<1>11. 0 .. n \subseteq S
  <2>1. 0 \in S
    <3>1. 0 \in 0 .. n
      BY <1>1
    <3>2. upto[0] = Body(upto, 0)
      BY <1>10, <3>1
    <3> QED BY <1>8, <3>1, <3>2 DEF Body, Worth
  <2>2. ASSUME NEW k \in 1 .. n, k - 1 \in S PROVE k \in S
    <3>1. upto[k] = Body(upto, k) /\ upto[k - 1] = g[k - 1]
      BY <1>7, <1>10, <2>2
    <3> QED BY <1>7, <1>8, <3>1 DEF Body, Worth
  <2> HIDE DEF S
  <2> QED BY <1>1, <2>1, <2>2, UpTo
<1>12. upto[n] = g[n]
  <2>1. n \in 0 .. n
    BY <1>1
  <2> QED BY <1>11, <2>1
<1> QED BY <1>5, <1>8, <1>12 DEF n

(* There is one such row.                                                  *)
LEMMA WorthUnique ==
  ASSUME NEW s, NEW n \in Nat, NEW v, NEW w, Worth(v, s, n), Worth(w, s, n)
  PROVE  v[n] = w[n]
<1> DEFINE S == {k \in 0 .. n : v[k] = w[k]}
<1>1. 0 \in S
  BY DEF Worth
<1>2. ASSUME NEW k \in 1 .. n, k - 1 \in S PROVE k \in S
  <2>1. k \in 0 .. n /\ v[k - 1] = w[k - 1]
    BY <1>2
  <2> QED BY <2>1 DEF Worth
<1>3. n \in 0 .. n
  OBVIOUS
<1> HIDE DEF S
<1>4. 0 .. n \subseteq S
  BY <1>1, <1>2, UpTo
<1> QED BY <1>3, <1>4 DEF S

(* One more digit.                                                         *)
LEMMA ValueAppended ==
  ASSUME NEW D, NEW s \in Seq(D), isNumber(s), NEW i \in 1 .. 10, Digit[i] \in D
  PROVE  /\ isNumber(s \o <<Digit[i]>>)
         /\ Value(s) \in Nat
         /\ Value(s \o <<Digit[i]>>) = 10 * Value(s) + (i - 1)
<1> DEFINE t == s \o <<Digit[i]>>
           n == Len(s)
           d == Digit[i]
<1>1. t \in Seq(D) /\ Len(t) = n + 1 /\ n \in Nat
  OBVIOUS
<1>2. t[n + 1] = d /\ \A k \in 1 .. n : t[k] = s[k]
  OBVIOUS
<1>3. isNumber(t)
  <2>1. DOMAIN t = 1 .. n + 1 /\ DOMAIN s = 1 .. n
    BY <1>1
  <2>2. ASSUME NEW k \in 1 .. n + 1 PROVE \E j \in 1 .. 10 : t[k] = Digit[j]
    <3>1. k = n + 1 \/ k \in 1 .. n
      BY <1>1
    <3> HIDE DEF t
    <3> QED BY <1>2, <2>1, <3>1 DEF isNumber
  <2> QED BY <2>1, <2>2 DEF isNumber
<1>4. DigitOf(d) = i - 1
  BY Digits
<1> HIDE DEF t, d
<1>5. PICK v : Worth(v, s, n) /\ Value(s) = v[n]
  BY ValueWorth DEF n
<1>6. PICK w : Worth(w, t, n + 1) /\ Value(t) = w[n + 1]
  BY <1>1, <1>3, ValueWorth
<1> HIDE DEF n
<1> DEFINE u == [k \in 0 .. n |-> w[k]]
<1>7. n \in 0 .. n /\ n + 1 \in 1 .. n + 1 /\ n + 1 - 1 = n /\ 0 \in 0 .. n
  BY <1>1
<1>8. \A k \in 1 .. n : k \in 0 .. n /\ k - 1 \in 0 .. n /\ k \in 1 .. n + 1
  BY <1>1
<1>9. Worth(u, s, n)
  <2>1. \A k \in 0 .. n : k \in 0 .. n + 1
    BY <1>1
  <2>2. u \in [0 .. n -> Nat] /\ u[0] = 0
    BY <1>6, <1>7, <2>1 DEF Worth
  <2>3. \A k \in 1 .. n : u[k] = 10 * u[k - 1] + DigitOf(s[k])
    BY <1>2, <1>6, <1>8 DEF Worth
  <2> HIDE DEF u
  <2> QED BY <2>2, <2>3 DEF Worth
<1>10. u[n] = w[n]
  BY <1>7
<1> HIDE DEF u
<1>11. v[n] = w[n] /\ v[n] \in Nat
  <2>1. v[n] = u[n]
    BY <1>1, <1>5, <1>9, WorthUnique
  <2>2. v[n] \in Nat
    BY <1>5, <1>7 DEF Worth
  <2> QED BY <1>10, <2>1, <2>2
<1>12. w[n + 1] = 10 * w[n] + DigitOf(t[n + 1])
  BY <1>6, <1>7 DEF Worth
<1> QED BY <1>2, <1>3, <1>4, <1>5, <1>6, <1>11, <1>12 DEF t, d

\* What numerals are made of.
Numeral == {Digit[k] : k \in 1 .. 10}

LEMMA NothingIsZero == isNumber(<<>>) /\ Value(<<>>) = 0
<1>1. <<>> \in Seq(Numeral) /\ Len(<<>>) = 0 /\ DOMAIN <<>> = {}
  OBVIOUS
<1>2. isNumber(<<>>)
  BY <1>1 DEF isNumber
<1>3. PICK v : Worth(v, <<>>, Len(<<>>)) /\ Value(<<>>) = v[Len(<<>>)]
  BY <1>1, <1>2, ValueWorth
<1> QED BY <1>1, <1>2, <1>3 DEF Worth

\* t is a way to write the number v.
Writes(t, v) == t \in Seq(Numeral) /\ isNumber(t) /\ t # <<>> /\ Value(t) = v

(* The digits of a number are worth the number.                            *)
LEMMA InBaseWrites ==
  ASSUME NEW n \in Nat
  PROVE  Writes(InBase(n, 10), n)
<1> DEFINE Body(f, v) ==
             (IF v < 10 THEN <<>> ELSE f[v \div 10]) \o <<Digit[1 + (v % 10)]>>
           Q == Seq(Numeral)
           Up(m) == \E f \in [0 .. m -> Q] : \A v \in 0 .. m : f[v] = Body(f, v)
           S == {m \in 0 .. n : Up(m)}
           from == CHOOSE f : f = [v \in 0 .. n |-> Body(f, v)]
<1>1. \A v \in Nat : /\ v \div 10 \in Nat /\ v % 10 \in 0 .. 9
                     /\ v = 10 * (v \div 10) + (v % 10)
                     /\ v >= 10 => v \div 10 < v
                     /\ v < 10 => v % 10 = v
  OBVIOUS
<1>2. \A v \in Nat : 1 + (v % 10) \in 1 .. 10 /\ Digit[1 + (v % 10)] \in Numeral
  <2>1. ASSUME NEW v \in Nat PROVE 1 + (v % 10) \in 1 .. 10
    BY <1>1
  <2> QED BY <2>1 DEF Numeral
<1>3. ASSUME NEW f, NEW v \in Nat, v >= 10 => f[v \div 10] \in Q
      PROVE  Body(f, v) \in Q
  <2>1. (IF v < 10 THEN <<>> ELSE f[v \div 10]) \in Seq(Numeral)
    BY <1>3
  <2>2. Digit[1 + (v % 10)] \in Numeral
    BY <1>2
  <2> QED BY <2>1, <2>2
<1>4. InBase(n, 10) = from[n]
  BY DEF InBase
<1>5. \A f, g : \A v \in Nat : f[v \div 10] = g[v \div 10] => Body(f, v) = Body(g, v)
  OBVIOUS
<1>6. \A f, v : v \in Nat /\ v < 10 => Body(f, v) = <<>> \o <<Digit[1 + v]>>
  BY <1>1
<1>7. \A f, v : v \in Nat /\ v >= 10 => Body(f, v) = f[v \div 10] \o <<Digit[1 + (v % 10)]>>
  <2> SUFFICES ASSUME NEW f, NEW v \in Nat, v >= 10
               PROVE  Body(f, v) = f[v \div 10] \o <<Digit[1 + (v % 10)]>>
    BY Zenon
  <2>1. ~ (v < 10)
    OBVIOUS
  <2> QED BY <2>1
<1>8. \A f, g : \A v \in Nat : v < 10 => Body(f, v) = Body(g, v)
  OBVIOUS
<1> HIDE DEF Body, from
<1>9. 0 \in S
  <2> DEFINE z == [v \in 0 .. 0 |-> Body(<<>>, 0)]
  <2>1. Body(<<>>, 0) \in Q
    BY <1>3
  <2> HIDE DEF Q
  <2>2. z \in [0 .. 0 -> Q] /\ z[0] = Body(<<>>, 0) /\ \A v \in 0 .. 0 : v = 0
    BY <2>1
  <2>3. Body(z, 0) = Body(<<>>, 0)
    BY <1>8
  <2> HIDE DEF z
  <2>4. \A v \in 0 .. 0 : z[v] = Body(z, v)
    BY <2>2, <2>3
  <2> QED BY <2>2, <2>4
<1>10. ASSUME NEW m \in 1 .. n, m - 1 \in S PROVE m \in S
  <2>1. m \in Nat \ {0} /\ m - 1 \in Nat /\ m \in 0 .. n
    OBVIOUS
  <2>2. PICK f \in [0 .. m - 1 -> Q] : \A v \in 0 .. m - 1 : f[v] = Body(f, v)
    BY <1>10
  <2> HIDE DEF Q
  <2> DEFINE h == [v \in 0 .. m |-> IF v < m THEN f[v] ELSE Body(f, m)]
  <2>3. \A v \in 0 .. m : v >= 10 => v \div 10 \in 0 .. m - 1 /\ v \div 10 \in 0 .. m /\ v \div 10 < m
    <3> SUFFICES ASSUME NEW v \in 0 .. m, v >= 10
                 PROVE  v \div 10 \in 0 .. m - 1
      BY <2>1
    <3>1. v \in Nat /\ v <= m
      BY <2>1
    <3>2. v \div 10 \in Nat /\ v \div 10 < v
      BY <1>1, <3>1
    <3> QED BY <2>1, <3>1, <3>2
  <2>4. Body(f, m) \in Q
    <3>1. m >= 10 => f[m \div 10] \in Q
      BY <2>1, <2>2, <2>3
    <3> QED BY <1>3, <2>1, <3>1
  <2>5. h \in [0 .. m -> Q]
    <3>1. \A v \in 0 .. m : v < m => v \in 0 .. m - 1
      BY <2>1
    <3> QED BY <2>2, <2>4, <3>1
  <2>6. \A v \in 0 .. m : h[v] = Body(f, v)
    <3> SUFFICES ASSUME NEW v \in 0 .. m PROVE h[v] = Body(f, v)
      OBVIOUS
    <3>1. v < m => v \in 0 .. m - 1
      BY <2>1
    <3>2. v < m \/ v = m
      BY <2>1
    <3> QED BY <2>2, <3>1, <3>2
  <2>7. \A v \in 0 .. m : v >= 10 => h[v \div 10] = f[v \div 10]
    BY <2>3
  <2> HIDE DEF h
  <2>8. \A v \in 0 .. m : h[v] = Body(h, v)
    <3> SUFFICES ASSUME NEW v \in 0 .. m PROVE Body(f, v) = Body(h, v)
      BY <2>6
    <3>1. v \in Nat /\ (v < 10 \/ v >= 10)
      BY <2>1
    <3> QED BY <1>5, <1>8, <2>7, <3>1
  <2> QED BY <2>1, <2>5, <2>8
<1>11. n \in S
  <2>1. n \in 0 .. n
    OBVIOUS
  <2> HIDE DEF S
  <2>2. 0 .. n \subseteq S
    BY <1>9, <1>10, UpTo
  <2> QED BY <2>1, <2>2
<1>12. PICK f \in [0 .. n -> Q] : \A v \in 0 .. n : f[v] = Body(f, v)
  BY <1>11
<1> HIDE DEF Q
<1>13. f = [v \in 0 .. n |-> Body(f, v)]
  BY <1>12
<1>14. from = [v \in 0 .. n |-> Body(from, v)]
  BY <1>13 DEF from
<1> DEFINE T == {v \in 0 .. n : ~ Writes(from[v], v)}
<1>15. T = {}
  <2> SUFFICES ASSUME T # {} PROVE FALSE
    OBVIOUS
  <2>1. T \in SUBSET Nat
    OBVIOUS
  <2>2. PICK v \in T : \A w \in T : v <= w
    BY <2>1, Smallest
  <2>3. v \in 0 .. n /\ v \in Nat /\ ~ Writes(from[v], v) /\ from[v] = Body(from, v)
    BY <1>14
  <2>4. \A w \in 0 .. n : w < v => Writes(from[w], w)
    BY <2>2, <2>3
  <2> HIDE DEF T
  <2> DEFINE k == 1 + (v % 10)
  <2>5. k \in 1 .. 10 /\ k - 1 = v % 10 /\ Digit[k] \in Numeral
    BY <1>1, <1>2, <2>3
  <2>6. ASSUME NEW t \in Seq(Numeral), isNumber(t), from[v] = t \o <<Digit[k]>>,
               v = 10 * Value(t) + (k - 1)
        PROVE  FALSE
    <3>1. /\ isNumber(t \o <<Digit[k]>>)
          /\ Value(t \o <<Digit[k]>>) = 10 * Value(t) + (k - 1)
      BY <2>5, <2>6, ValueAppended
    <3>2. t \o <<Digit[k]>> \in Seq(Numeral) /\ t \o <<Digit[k]>> # <<>>
      BY <2>5
    <3> QED BY <2>3, <2>6, <3>1, <3>2 DEF Writes
  <2>7. CASE v < 10
    <3>1. from[v] = <<>> \o <<Digit[1 + v]>> /\ v % 10 = v
      BY <1>1, <1>6, <2>3, <2>7
    <3>2. from[v] = <<>> \o <<Digit[k]>> /\ v = 10 * Value(<<>>) + (k - 1)
      BY <2>3, <2>5, <3>1, NothingIsZero
    <3>3. <<>> \in Seq(Numeral)
      OBVIOUS
    <3> QED BY <2>6, <3>2, <3>3, NothingIsZero
  <2>8. CASE v >= 10
    <3> DEFINE w == v \div 10
    <3>1. w \in 0 .. n /\ w < v /\ v = 10 * w + (k - 1)
      BY <1>1, <2>3, <2>5, <2>8
    <3>2. from[v] = from[w] \o <<Digit[k]>>
      BY <1>7, <2>3, <2>8
    <3>3. Writes(from[w], w)
      BY <2>4, <3>1
    <3> QED BY <2>6, <3>1, <3>2, <3>3 DEF Writes
  <2> QED BY <2>3, <2>7, <2>8
<1>16. n \in 0 .. n
  OBVIOUS
<1> QED BY <1>4, <1>15, <1>16

(* The width of an int.                                                    *)
LEMMA Width ==
  ASSUME NEW k \in Int
  PROVE  /\ Int32(k) \in - INT_MAX - 1 .. INT_MAX
         /\ k \in 0 .. INT_MAX => Int32(k) = k
<1> DEFINE d == 2 * (INT_MAX + 1)
           a == k + INT_MAX + 1
<1>1. INT_MAX \in Nat /\ d \in Nat \ {0} /\ a \in Int
  BY TextAssumption
<1>2. a % d \in 0 .. d - 1
  <2> HIDE DEF a, d
  <2> QED BY <1>1
<1>3. a \in 0 .. d - 1 => a % d = a
  <2> HIDE DEF a, d
  <2>1. ASSUME a \in 0 .. d - 1 PROVE a % d = a
    <3>1. /\ a = d * (a \div d) + (a % d) /\ a \div d \in Int /\ a % d \in 0 .. d - 1
      BY <1>1
    <3>2. a \div d = 0
      BY <1>1, <2>1, <3>1
    <3> QED BY <1>1, <2>1, <3>1, <3>2
  <2> QED BY <2>1
<1>4. Int32(k) = (a % d) - INT_MAX - 1
  BY DEF Int32
<1>5. Int32(k) \in - INT_MAX - 1 .. INT_MAX
  <2> DEFINE r == a % d
  <2>1. r \in 0 .. d - 1 /\ Int32(k) = r - INT_MAX - 1
    BY <1>2, <1>4
  <2> HIDE DEF r, a
  <2> QED BY <1>1, <2>1
<1>6. ASSUME k \in 0 .. INT_MAX PROVE Int32(k) = k
  <2>1. a \in 0 .. d - 1
    BY <1>1, <1>6
  <2>2. Int32(k) = a - INT_MAX - 1
    BY <1>3, <1>4, <2>1
  <2> QED BY <1>1, <2>2
<1> QED BY <1>5, <1>6

\* v is what myAtoi makes of the first k characters of s.
Reads(v, s, n) ==
  /\ v \in [0 .. n -> Int] /\ v[0] = 0
  /\ \A k \in 1 .. n : v[k] = Int32(8 * v[k - 1] + 2 * v[k - 1] + DigitOf(s[k]))

(* What myAtoi does: digit after digit.                                    *)
LEMMA Reading ==
  ASSUME NEW D, NEW s \in Seq(D), isNumber(s)
  PROVE  \E v : Reads(v, s, Len(s)) /\ myAtoi(s) = v[Len(s)]
<1> DEFINE n == Len(s)
           Next10(d, k) == Int32(8 * d + 2 * d + DigitOf(s[k]))
           step == [p \in Int \X (1 .. n) |-> Next10(p[1], p[2])]
           Body(g, k) == IF k = 0 THEN 0 ELSE Int32(8 * g[k - 1] + 2 * g[k - 1] + DigitOf(s[k]))
           upto == CHOOSE g : g = [k \in 0 .. n |-> Body(g, k)]
           N == Int
           zero == 0
<1>1. n \in Nat /\ DOMAIN s = 1 .. n
  OBVIOUS
<1>2. \A k \in 1 .. n : DigitOf(s[k]) \in Nat
  <2>1. ASSUME NEW k \in 1 .. n PROVE DigitOf(s[k]) \in Nat
    <3>1. PICK i \in 1 .. 10 : s[k] = Digit[i]
      BY <1>1 DEF isNumber
    <3>2. DigitOf(s[k]) \in 0 .. 9
      BY <3>1, DigitIsSmall
    <3> QED BY <3>2
  <2> QED BY <2>1
<1>3. IsStep(step, n, N) /\ zero \in N
  <2>1. ASSUME NEW d \in Int, NEW k \in 1 .. n PROVE Next10(d, k) \in Int
    <3>1. 8 * d + 2 * d + DigitOf(s[k]) \in Int
      BY <1>2
    <3>2. Next10(d, k) \in - INT_MAX - 1 .. INT_MAX
      BY <3>1, Width
    <3> QED BY <3>2, TextAssumption
  <2> HIDE DEF Next10
  <2>2. ASSUME NEW p \in Int \X (1 .. n) PROVE Next10(p[1], p[2]) \in Int
    BY <2>1
  <2> QED BY <2>2 DEF IsStep
<1>4. \A d \in Int, k \in 1 .. n : step[<<d, k>>] = Next10(d, k)
  OBVIOUS
<1>5. myAtoi(s) = upto[n]
  BY DEF myAtoi
<1> HIDE DEF n, step, N, zero
<1>6. PICK g : IsRecursive(g, n, N, zero, step)
  BY <1>1, <1>3, Recursion
<1>7. \A k \in 1 .. n : k - 1 \in 0 .. n /\ k \in 0 .. n /\ k # 0
  BY <1>1
<1>8. Reads(g, s, n)
  <2>1. g \in [0 .. n -> Int] /\ g[0] = 0 /\ \A k \in 1 .. n : g[k] = step[<<g[k - 1], k>>]
    BY <1>6 DEF IsRecursive, N, zero
  <2>2. \A k \in 1 .. n : g[k] = Next10(g[k - 1], k)
    BY <1>4, <1>7, <2>1
  <2> QED BY <2>1, <2>2 DEF Reads
<1>9. g = [k \in 0 .. n |-> Body(g, k)]
  <2>1. ASSUME NEW k \in 0 .. n PROVE g[k] = Body(g, k)
    <3>1. k = 0 \/ k \in 1 .. n
      BY <1>1
    <3> QED BY <1>7, <1>8, <3>1 DEF Reads
  <2>2. g \in [0 .. n -> Int]
    BY <1>8 DEF Reads
  <2> HIDE DEF Body
  <2> QED BY <2>1, <2>2
<1> HIDE DEF Body
<1>10. upto = [k \in 0 .. n |-> Body(upto, k)]
  BY <1>9
<1> HIDE DEF upto
<1> DEFINE S == {k \in 0 .. n : upto[k] = g[k]}
<1>11. 0 .. n \subseteq S
  <2>1. 0 \in S
    <3>1. 0 \in 0 .. n
      BY <1>1
    <3>2. upto[0] = Body(upto, 0)
      BY <1>10, <3>1
    <3> QED BY <1>8, <3>1, <3>2 DEF Body, Reads
  <2>2. ASSUME NEW k \in 1 .. n, k - 1 \in S PROVE k \in S
    <3>1. upto[k] = Body(upto, k) /\ upto[k - 1] = g[k - 1]
      BY <1>7, <1>10, <2>2
    <3> QED BY <1>7, <1>8, <3>1 DEF Body, Reads
  <2> HIDE DEF S
  <2> QED BY <1>1, <2>1, <2>2, UpTo
<1>12. upto[n] = g[n]
  <2>1. n \in 0 .. n
    BY <1>1
  <2> QED BY <1>11, <2>1
<1> QED BY <1>5, <1>8, <1>12 DEF n

(* myAtoi is an int, and the number itself if an int can hold that.        *)
LEMMA AtoiIsValue ==
  ASSUME NEW D, NEW s \in Seq(D), isNumber(s)
  PROVE  /\ myAtoi(s) \in - INT_MAX - 1 .. INT_MAX
         /\ Value(s) <= INT_MAX => myAtoi(s) = Value(s)
<1> DEFINE n == Len(s)
<1>1. n \in Nat /\ INT_MAX \in Nat
  BY TextAssumption
<1>2. PICK v : Worth(v, s, n) /\ Value(s) = v[n]
  BY ValueWorth
<1>3. PICK w : Reads(w, s, n) /\ myAtoi(s) = w[n]
  BY Reading
<1>4. \A k \in 1 .. n : DigitOf(s[k]) \in Nat
  <2>1. ASSUME NEW k \in 1 .. n PROVE DigitOf(s[k]) \in Nat
    <3>1. PICK i \in 1 .. 10 : s[k] = Digit[i]
      BY DEF isNumber
    <3>2. DigitOf(s[k]) \in 0 .. 9
      BY <3>1, DigitIsSmall
    <3> QED BY <3>2
  <2> QED BY <2>1
<1> HIDE DEF n
<1>5. \A k \in 1 .. n : k - 1 \in 0 .. n /\ k \in 0 .. n
  BY <1>1
<1>6. n \in 0 .. n /\ 0 \in 0 .. n
  BY <1>1
<1>7. w[n] \in - INT_MAX - 1 .. INT_MAX
  <2>1. CASE n = 0
    BY <1>1, <1>3, <2>1 DEF Reads
  <2>2. CASE n \in 1 .. n
    <3>1. w[n] = Int32(8 * w[n - 1] + 2 * w[n - 1] + DigitOf(s[n]))
      BY <1>3, <2>2 DEF Reads
    <3>2. w[n - 1] \in Int /\ DigitOf(s[n]) \in Nat
      BY <1>3, <1>4, <1>5, <2>2 DEF Reads
    <3>3. 8 * w[n - 1] + 2 * w[n - 1] + DigitOf(s[n]) \in Int
      BY <3>2
    <3> QED BY <3>1, <3>3, Width
  <2> QED BY <1>1, <2>1, <2>2
<1> DEFINE S == {k \in 0 .. n : v[k] <= INT_MAX => w[k] = v[k]}
<1>8. 0 \in S
  BY <1>2, <1>3, <1>6 DEF Worth, Reads
<1>9. ASSUME NEW k \in 1 .. n, k - 1 \in S PROVE k \in S
  <2> SUFFICES ASSUME v[k] <= INT_MAX PROVE w[k] = v[k]
    BY <1>5
  <2>1. /\ v[k] = 10 * v[k - 1] + DigitOf(s[k]) /\ v[k - 1] \in Nat /\ v[k] \in Nat
        /\ w[k] = Int32(8 * w[k - 1] + 2 * w[k - 1] + DigitOf(s[k]))
        /\ DigitOf(s[k]) \in Nat
    BY <1>2, <1>3, <1>4, <1>5 DEF Worth, Reads
  <2>2. v[k - 1] <= INT_MAX
    BY <1>1, <2>1
  <2>3. w[k - 1] = v[k - 1]
    BY <1>9, <2>2
  <2>4. 8 * w[k - 1] + 2 * w[k - 1] + DigitOf(s[k]) = v[k]
    BY <2>1, <2>3
  <2>5. v[k] \in 0 .. INT_MAX /\ v[k] \in Int
    BY <1>1, <2>1
  <2> QED BY <2>1, <2>4, <2>5, Width
<1> HIDE DEF S
<1>10. 0 .. n \subseteq S
  BY <1>1, <1>8, <1>9, UpTo
<1>11. v[n] <= INT_MAX => w[n] = v[n]
  BY <1>6, <1>10 DEF S
<1> QED BY <1>2, <1>3, <1>7, <1>11

-----------------------------------------------------------------------------
(* printf *)

\* e is the first place of s, from i on, that holds x, or the one behind the n
\* places of s.
EndAt(s, n, i, x, e) ==
  /\ e \in i .. n + 1 /\ (e = n + 1 \/ s[e] = x)
  /\ \A k \in i .. e - 1 : s[k] # x

LEMMA EndUnique ==
  ASSUME NEW s, NEW n \in Nat, NEW i \in Nat, NEW x, NEW a, NEW b,
         EndAt(s, n, i, x, a), EndAt(s, n, i, x, b)
  PROVE  a = b
<1>1. a \in i .. n + 1 /\ b \in i .. n + 1
  BY DEF EndAt
<1>2. ~ (a < b)
  <2>1. a < b => a \in i .. b - 1 /\ a # n + 1
    BY <1>1
  <2> QED BY <2>1 DEF EndAt
<1>3. ~ (b < a)
  <2>1. b < a => b \in i .. a - 1 /\ b # n + 1
    BY <1>1
  <2> QED BY <2>1 DEF EndAt
<1> QED BY <1>1, <1>2, <1>3

LEMMA EndExists ==
  ASSUME NEW s, NEW n \in Nat, NEW i \in 1 .. n + 1, NEW x
  PROVE  \E e : EndAt(s, n, i, x, e)
<1> DEFINE T == {e \in i .. n + 1 : e = n + 1 \/ s[e] = x}
<1>1. T \in SUBSET Nat /\ n + 1 \in T
  OBVIOUS
<1>2. PICK e \in T : \A k \in T : e <= k
  BY <1>1, Smallest
<1>3. e \in i .. n + 1 /\ (e = n + 1 \/ s[e] = x)
  OBVIOUS
<1>4. \A k \in i .. e - 1 : s[k] # x
  <2> SUFFICES ASSUME NEW k \in i .. e - 1, s[k] = x PROVE FALSE
    OBVIOUS
  <2>1. k \in i .. n + 1 /\ ~ (e <= k)
    BY <1>3
  <2> QED BY <1>2, <2>1
<1>5. EndAt(s, n, i, x, e)
  BY <1>3, <1>4 DEF EndAt
<1> QED BY <1>5

(* A sequence is determined by its elements.                               *)
LEMMA SameText ==
  ASSUME NEW D, NEW s \in Seq(D), NEW t \in Seq(D), Len(s) = Len(t),
         \A k \in 1 .. Len(s) : s[k] = t[k]
  PROVE  s = t
OBVIOUS

(* A number that toString wrote is read from the buffer again.             *)
LEMMA ToStringRead ==
  ASSUME NEW n \in 0 .. INT_MAX
  PROVE  StringAt(toString(n, [i \in 1 .. PRINT_SIZE |-> "nul"]), 1) = InBase(n, 10)
<1> DEFINE resp == [i \in 1 .. PRINT_SIZE |-> "nul"]
           r == toString(n, resp)
           t == InBase(n, 10)
           l == Len(t)
           A == Numeral \cup {"nul"}
           P(e) == /\ e = Len(r) + 1 \/ r[e] = "nul"
                   /\ \A k \in 1 .. e - 1 : r[k] # "nul"
<1>1. INT_MAX \in Nat /\ PRINT_SIZE \in Nat /\ n \in Nat /\ l < PRINT_SIZE
  BY TextAssumption
<1>2. t \in Seq(Numeral)
  BY <1>1, InBaseWrites DEF Writes
<1>3. r = [i \in 1 .. PRINT_SIZE |->
             IF i <= l THEN t[i] ELSE IF i = l + 1 /\ n # 0 THEN "nul" ELSE "nul"]
  BY DEF toString
<1>4. StringAt(r, 1) = SubSeq(r, 1, (CHOOSE e \in 1 .. Len(r) + 1 : P(e)) - 1)
  BY DEF StringAt
<1> HIDE DEF t
<1>5. l \in Nat
  BY <1>2
<1>6. \A k \in 1 .. l : t[k] # "nul" /\ t[k] \in Numeral
  <2> SUFFICES ASSUME NEW k \in 1 .. l PROVE t[k] # "nul" /\ t[k] \in Numeral
    OBVIOUS
  <2>1. t[k] \in Numeral
    BY <1>2
  <2>2. PICK i \in 1 .. 10 : t[k] = Digit[i]
    BY <2>1 DEF Numeral
  <2>3. t[k] # "nul"
    BY <2>2, Digits
  <2> QED BY <2>1, <2>3
<1> HIDE DEF r, l
<1>7. r \in [1 .. PRINT_SIZE -> A]
  BY <1>3, <1>5, <1>6
<1>8. \A k \in 1 .. l : r[k] = t[k] /\ r[k] # "nul"
  BY <1>1, <1>3, <1>5, <1>6
<1>9. r[l + 1] = "nul" /\ l + 1 \in 1 .. PRINT_SIZE
  BY <1>1, <1>3, <1>5
<1> HIDE DEF A
<1>10. r \in Seq(A) /\ Len(r) = PRINT_SIZE
  BY <1>1, <1>7
<1>11. EndAt(r, PRINT_SIZE, 1, "nul", l + 1)
  BY <1>1, <1>5, <1>8, <1>9 DEF EndAt
<1> DEFINE c == CHOOSE e \in 1 .. Len(r) + 1 : P(e)
<1>12. P(l + 1) /\ l + 1 \in 1 .. Len(r) + 1
  BY <1>1, <1>5, <1>8, <1>9, <1>10
<1>13. c \in 1 .. Len(r) + 1 /\ P(c)
  <2> HIDE DEF P
  <2> QED BY <1>12
<1> HIDE DEF c
<1>14. EndAt(r, PRINT_SIZE, 1, "nul", c)
  BY <1>10, <1>13 DEF EndAt
<1>15. c = l + 1
  BY <1>1, <1>11, <1>14, EndUnique
<1>16. StringAt(r, 1) = SubSeq(r, 1, l)
  <2>1. StringAt(r, 1) = SubSeq(r, 1, c - 1)
    BY <1>4 DEF c
  <2> QED BY <1>5, <1>15, <2>1
<1>17. /\ SubSeq(r, 1, l) \in Seq(A) /\ Len(SubSeq(r, 1, l)) = l
       /\ \A k \in 1 .. l : SubSeq(r, 1, l)[k] = r[k]
  BY <1>1, <1>5, <1>9, <1>10
<1>18. t \in Seq(A)
  BY <1>2 DEF A
<1>19. SubSeq(r, 1, l) = t
  BY <1>8, <1>17, <1>18, SameText DEF l
<1> QED BY <1>16, <1>19 DEF r, t

(* printf writes the digits of a number.                                   *)
LEMMA Printed ==
  ASSUME NEW n \in 0 .. INT_MAX
  PROVE  Tail(myPrintf(<<" ", "%d">>, <<n>>)) = InBase(n, 10)
<1> DEFINE format == <<" ", "%d">>
           numbers == <<n>>
           t == InBase(n, 10)
           buf == [i \in 1 .. PRINT_SIZE |-> "nul"]
           start == [out |-> <<>>, n |-> 1, index |-> 1, resp |-> buf]
           number(s) == LET resp == toString(numbers[s.n], s.resp)
                            shown == StringAt(resp, s.index)
                        IN  [out |-> s.out \o shown, n |-> s.n + 1, resp |-> resp,
                             index |-> s.index + Len(shown)]
           Body(f, k) == IF k = 0 THEN start
                         ELSE IF format[k] = "%d" THEN number(f[k - 1])
                         ELSE [f[k - 1] EXCEPT !.out = Append(@, format[k])]
           Put(s) == [s EXCEPT !.out = Append(@, " ")]
           upto == CHOOSE f : f = [k \in 0 .. Len(format) |-> Body(f, k)]
           s1 == Put(start)
           s2 == number(s1)
           g == [k \in 0 .. 2 |-> IF k = 0 THEN start ELSE IF k = 1 THEN s1 ELSE s2]
<1>1. myPrintf(format, numbers) = upto[Len(format)].out
  BY DEF myPrintf
<1>2. Len(format) = 2 /\ format[1] = " " /\ format[2] = "%d"
  OBVIOUS
<1>3. \A f : /\ Body(f, 0) = start
             /\ Body(f, 1) = Put(f[0])
             /\ Body(f, 2) = number(f[1])
  <2> HIDE DEF start, number, format
  <2> TAKE f
  <2>1. Body(f, 0) = start
    OBVIOUS
  <2>2. Body(f, 1) = Put(f[0])
    <3>1. format[1] = " " /\ format[1] # "%d"
      BY ONLY <1>2
    <3>2. 1 # 0 /\ 1 - 1 = 0
      OBVIOUS
    <3>3. Body(f, 1) = [f[0] EXCEPT !.out = Append(@, format[1])]
      BY <3>1, <3>2
    <3> QED BY <3>1, <3>3
  <2>3. Body(f, 2) = number(f[1])
    <3>1. format[2] = "%d"
      BY ONLY <1>2
    <3>2. 2 # 0 /\ 2 - 1 = 1
      OBVIOUS
    <3> QED BY <3>1, <3>2
  <2> QED BY <2>1, <2>2, <2>3
<1>20. s1.out = <<" ">> /\ s1.n = 1 /\ s1.index = 1 /\ s1.resp = buf
  <2>1. start = [out |-> <<>>, n |-> 1, index |-> 1, resp |-> buf]
    OBVIOUS
  <2>2. Append(<<>>, " ") = <<" ">>
    OBVIOUS
  <2>3. s1 = [start EXCEPT !.out = Append(start.out, " ")]
    BY ONLY TRUE DEF Put
  <2> HIDE DEF buf, start, s1
  <2>4. start.out = <<>> /\ start.n = 1 /\ start.index = 1 /\ start.resp = buf
    BY ONLY <2>1
  <2>5. DOMAIN start = {"out", "n", "index", "resp"}
    BY ONLY <2>1
  <2> DEFINE w == Append(start.out, " ")
  <2>6. w = <<" ">>
    BY <2>2, <2>4
  <2> HIDE DEF w
  <2>7. s1 = [start EXCEPT !.out = w]
    BY ONLY <2>3 DEF w
  <2>8. s1.out = w /\ s1.n = start.n /\ s1.index = start.index /\ s1.resp = start.resp
    BY ONLY <2>5, <2>7
  <2> QED BY ONLY <2>4, <2>6, <2>8
<1> HIDE DEF Body, Put, start, number, format
<1>4. g = [k \in 0 .. 2 |-> Body(g, k)]
  <2>1. g[0] = start /\ g[1] = s1 /\ g[2] = s2
    OBVIOUS
  <2>2. \A k \in 0 .. 2 : k = 0 \/ k = 1 \/ k = 2
    OBVIOUS
  <2>3. \A k \in 0 .. 2 : g[k] = Body(g, k)
    <3> HIDE DEF g
    <3>1. Body(g, 0) = start /\ Body(g, 1) = Put(start) /\ Body(g, 2) = number(s1)
      BY <1>3, <2>1
    <3> HIDE DEF s1, s2
    <3>2. g[0] = Body(g, 0) /\ g[1] = Body(g, 1) /\ g[2] = Body(g, 2)
      BY <2>1, <3>1 DEF s1, s2
    <3> QED BY <2>2, <3>2
  <2>4. g = [k \in 0 .. 2 |-> g[k]]
    OBVIOUS
  <2> HIDE DEF g
  <2> QED BY <2>3, <2>4
<1>5. upto = [k \in 0 .. 2 |-> Body(upto, k)]
  <2> HIDE DEF g
  <2> QED BY <1>2, <1>4
<1> HIDE DEF upto
<1>6. upto[0] = start /\ upto[1] = s1 /\ upto[2] = s2
  <2>1. upto[0] = Body(upto, 0) /\ upto[1] = Body(upto, 1) /\ upto[2] = Body(upto, 2)
    BY <1>5
  <2> QED BY <1>3, <2>1
<1>8. numbers[1] = n
  OBVIOUS
<1>9. s2.out = <<" ">> \o t
  <2>1. StringAt(toString(numbers[s1.n], s1.resp), s1.index) = t
    BY <1>8, <1>20, ToStringRead
  <2> HIDE DEF s1, t
  <2>2. s2.out = s1.out \o StringAt(toString(numbers[s1.n], s1.resp), s1.index)
    BY DEF number
  <2> QED BY <1>20, <2>1, <2>2
<1>10. myPrintf(format, numbers) = <<" ">> \o t
  BY <1>1, <1>2, <1>6, <1>9
<1>11. t \in Seq(Numeral)
  <2>1. n \in Nat
    BY TextAssumption
  <2> QED BY <2>1, InBaseWrites DEF Writes
<1> HIDE DEF t
<1>12. Tail(<<" ">> \o t) = t
  <2> DEFINE A == Numeral \cup {" "}
             b == <<" ">>
             u == b \o t
  <2>1. t \in Seq(A) /\ Len(t) \in Nat
    <3>1. t \in [1 .. Len(t) -> Numeral] /\ Len(t) \in Nat
      BY <1>11
    <3>2. t \in [1 .. Len(t) -> A]
      BY <3>1
    <3> HIDE DEF A
    <3> QED BY <3>1, <3>2
  <2>2. b \in Seq(A) /\ Len(b) = 1
    OBVIOUS
  <2> HIDE DEF A, b
  <2>3. u \in Seq(A) /\ Len(u) = 1 + Len(t)
    BY <2>1, <2>2, ConcatProperties
  <2>4. ASSUME NEW k \in 1 .. Len(t) PROVE u[k + 1] = t[k]
    <3>1. k + 1 \in 1 .. Len(b) + Len(t) /\ ~ (k + 1 <= Len(b)) /\ k + 1 - Len(b) = k
      BY <2>1, <2>2
    <3> DEFINE j == k + 1
    <3>2. j \in 1 .. Len(b) + Len(t)
      BY <3>1
    <3> HIDE DEF j
    <3>3. u[j] = IF j <= Len(b) THEN b[j] ELSE t[j - Len(b)]
      BY <2>1, <2>2, <3>2, ConcatProperties
    <3> QED BY <3>1, <3>3 DEF j
  <2> HIDE DEF u
  <2>5. /\ Tail(u) \in Seq(A) /\ Len(Tail(u)) = Len(t)
        /\ \A k \in 1 .. Len(t) : Tail(u)[k] = u[k + 1]
    BY <2>1, <2>3
  <2>6. Tail(u) = t
    BY <2>1, <2>4, <2>5, SameText
  <2> QED BY <2>6 DEF u, b
<1> QED BY <1>10, <1>12 DEF format, t

(* Written and read again a number is the same.                            *)
LEMMA ReadBack ==
  ASSUME NEW n \in 0 .. INT_MAX
  PROVE  myAtoi(Tail(myPrintf(<<" ", "%d">>, <<n>>))) = n
<1>1. n \in Nat /\ n <= INT_MAX
  BY TextAssumption
<1>2. Writes(InBase(n, 10), n)
  BY <1>1, InBaseWrites
<1>3. myAtoi(InBase(n, 10)) = n
  BY <1>1, <1>2, AtoiIsValue DEF Writes
<1> QED BY <1>3, Printed

-----------------------------------------------------------------------------
(* The parts of a line *)

\* a is what stands in s on the n places behind place m.
IsPart(a, D, s, m, n) ==
  a \in Seq(D) /\ Len(a) = n /\ \A k \in 1 .. n : a[k] = s[m + k]

LEMMA PartOf ==
  ASSUME NEW D, NEW s \in Seq(D), NEW i \in 1 .. Len(s) + 1, NEW j \in i - 1 .. Len(s)
  PROVE  IsPart(SubSeq(s, i, j), D, s, i - 1, j - i + 1)
<1> DEFINE a == SubSeq(s, i, j)
<1>1. Len(s) \in Nat /\ i \in Nat \ {0} /\ j \in Nat
  OBVIOUS
<1>2. \A k \in i .. j : s[k] \in D
  BY <1>1
<1>3. i \in Int /\ j \in Int
  BY <1>1
<1>4. /\ a \in Seq(D)
      /\ Len(a) = IF i <= j THEN j - i + 1 ELSE 0
      /\ \A k \in 1 .. j - i + 1 : a[k] = s[i + k - 1]
  BY <1>2, <1>3, SubSeqProperties
<1>5. Len(a) = j - i + 1
  BY <1>1, <1>4
<1>6. \A k \in 1 .. j - i + 1 : i + k - 1 = i - 1 + k
  BY <1>1
<1> HIDE DEF a
<1> QED BY <1>4, <1>5, <1>6 DEF IsPart, a

LEMMA OneOf ==
  ASSUME NEW D, NEW s \in Seq(D), NEW i \in 1 .. Len(s)
  PROVE  IsPart(<<s[i]>>, D, s, i - 1, 1)
<1>1. s[i] \in D /\ i \in Nat
  OBVIOUS
<1>2. <<s[i]>> \in Seq(D) /\ Len(<<s[i]>>) = 1 /\ <<s[i]>>[1] = s[i]
  BY <1>1
<1>3. \A k \in 1 .. 1 : k = 1 /\ i - 1 + k = i
  BY <1>1
<1> QED BY <1>2, <1>3 DEF IsPart

(* Two parts that meet are one.                                            *)
LEMMA Joined ==
  ASSUME NEW D, NEW s \in Seq(D), NEW p \in Nat, NEW m \in Nat, NEW n \in Nat,
         NEW a, NEW b, IsPart(a, D, s, p, m), IsPart(b, D, s, p + m, n)
  PROVE  IsPart(a \o b, D, s, p, m + n)
<1> DEFINE u == a \o b
<1>1. a \in Seq(D) /\ b \in Seq(D) /\ Len(a) = m /\ Len(b) = n
  BY DEF IsPart
<1>2. u \in Seq(D) /\ Len(u) = m + n
  BY <1>1, ConcatProperties
<1>3. ASSUME NEW k \in 1 .. m + n PROVE u[k] = s[p + k]
  <2>1. u[k] = IF k <= m THEN a[k] ELSE b[k - m]
    <3>1. k \in 1 .. Len(a) + Len(b)
      BY <1>1
    <3>2. u[k] = IF k <= Len(a) THEN a[k] ELSE b[k - Len(a)]
      BY <1>1, <3>1, ConcatProperties
    <3> QED BY <1>1, <3>2
  <2> HIDE DEF u
  <2>2. CASE k <= m
    <3>1. k \in 1 .. m
      BY <2>2
    <3> QED BY <2>1, <2>2, <3>1 DEF IsPart
  <2>3. CASE ~ (k <= m)
    <3>1. k - m \in 1 .. n /\ p + m + (k - m) = p + k
      BY <2>3
    <3> QED BY <2>1, <2>3, <3>1 DEF IsPart
  <2> QED BY <2>2, <2>3
<1> QED BY <1>2, <1>3 DEF IsPart

LEMMA WholeLine ==
  ASSUME NEW D, NEW s \in Seq(D), NEW a, IsPart(a, D, s, 0, Len(s))
  PROVE  s = a
<1>1. a \in Seq(D) /\ Len(a) = Len(s) /\ \A k \in 1 .. Len(s) : a[k] = s[0 + k]
  BY DEF IsPart
<1>2. \A k \in 1 .. Len(s) : a[k] = s[k]
  BY <1>1
<1> QED BY <1>1, <1>2, SameText

(* Word is what stands before the next space.                              *)
LEMMA WordIs ==
  ASSUME NEW D, NEW s \in Seq(D), NEW i \in 1 .. Len(s) + 1
  PROVE  \E l \in 0 .. Len(s) + 1 - i :
           /\ IsPart(Word(s, i), D, s, i - 1, l)
           /\ i + l = Len(s) + 1 \/ s[i + l] = " "
           /\ ~ Contains(Word(s, i), " ")
<1> DEFINE n == Len(s)
           P(e) == /\ e = Len(s) + 1 \/ s[e] = " "
                   /\ \A k \in i .. e - 1 : s[k] # " "
           c == CHOOSE e \in i .. Len(s) + 1 : P(e)
           w == SubSeq(s, i, c - 1)
<1>1. n \in Nat /\ i \in Nat \ {0}
  OBVIOUS
<1>2. PICK e : EndAt(s, n, i, " ", e)
  BY <1>1, EndExists
<1>3. e \in i .. Len(s) + 1 /\ P(e)
  BY <1>2 DEF EndAt
<1>4. Word(s, i) = w
  BY DEF Word
<1>5. c \in i .. Len(s) + 1 /\ P(c)
  <2> HIDE DEF P
  <2> QED BY <1>3
<1> HIDE DEF c
<1>6. c - 1 \in i - 1 .. Len(s) /\ c - 1 - i + 1 = c - i /\ c - i \in 0 .. Len(s) + 1 - i
      /\ i + (c - i) = c
  <2> HIDE DEF P, n
  <2>1. c \in i .. n + 1 /\ i <= n + 1
    BY <1>5 DEF n
  <2>2. c - 1 \in i - 1 .. n /\ c - 1 - i + 1 = c - i /\ c - i \in 0 .. n + 1 - i
        /\ i + (c - i) = c
    BY <1>1, <2>1
  <2> QED BY <2>2 DEF n
<1>7. IsPart(w, D, s, i - 1, c - i)
  BY <1>6, PartOf
<1>8. ~ Contains(w, " ")
  <2>1. \A k \in 1 .. c - i : w[k] = s[i - 1 + k] /\ i - 1 + k \in i .. c - 1
    <3>1. \A k \in 1 .. c - i : w[k] = s[i - 1 + k]
      BY <1>7 DEF IsPart
    <3>2. c \in Nat
      <4> HIDE DEF P
      <4> QED BY <1>1, <1>5
    <3>3. \A k \in 1 .. c - i : i - 1 + k \in i .. c - 1
      BY <1>1, <3>2
    <3> QED BY <3>1, <3>3
  <2>2. Len(w) = c - i
    BY <1>7 DEF IsPart
  <2> HIDE DEF w
  <2>3. \A k \in 1 .. Len(w) : w[k] # " "
    BY <1>5, <2>1, <2>2
  <2> QED BY <2>3 DEF Contains
<1> HIDE DEF w
<1> QED BY <1>4, <1>5, <1>6, <1>7, <1>8

(* The parts that interprete makes of a line are what users mean by it.     *)
LEMMA LineMeant ==
  ASSUME NEW D, NEW s \in Seq(D)
  PROVE  Means(s, interprete(s))
<1> DEFINE n == Len(s)
           c == Word(s, 1)
           j == Len(c) + 2
           target == Word(s, j)
           r == interprete(s)
           sp == <<" ">>
<1>1. n \in Nat /\ 1 \in 1 .. n + 1
  OBVIOUS
<1>2. PICK l \in 0 .. n : /\ IsPart(c, D, s, 0, l)
                          /\ 1 + l = n + 1 \/ s[1 + l] = " "
                          /\ ~ Contains(c, " ")
  <2>1. n + 1 - 1 = n /\ 1 - 1 = 0
    BY <1>1
  <2>2. \E l \in 0 .. n + 1 - 1 :
          /\ IsPart(c, D, s, 1 - 1, l)
          /\ 1 + l = n + 1 \/ s[1 + l] = " "
          /\ ~ Contains(c, " ")
    BY <1>1, WordIs
  <2> HIDE DEF n, c
  <2> QED BY <2>1, <2>2
<1>3. Len(c) = l /\ j = l + 2 /\ j \in Nat
  <2> HIDE DEF c, n
  <2>1. Len(c) = l
    BY <1>2 DEF IsPart
  <2> QED BY <1>1, <2>1
<1>4. r = IF j > n + 1 THEN Call("standard", c, <<>>, <<>>)
          ELSE IF j = n + 1 THEN Call("none", c, <<>>, <<>>)
          ELSE IF target = <<"/">> /\ j < n THEN Call("pipe", c, Rest(s, j + 2), <<>>)
          ELSE IF Rest(s, j) = <<"&">> THEN Call("background", c, <<>>, <<>>)
          ELSE Call("argument", c, target, Rest(s, j + Len(target) + 1))
  BY DEF interprete
<1> HIDE DEF c, j, target, r, n
<1>5. l < n => IsPart(sp, D, s, l, 1)
  <2> SUFFICES ASSUME l < n PROVE IsPart(sp, D, s, l, 1)
    OBVIOUS
  <2>1. l + 1 \in 1 .. n /\ l + 1 - 1 = l /\ 1 + l = l + 1 /\ 1 + l # n + 1
    BY <1>1
  <2>2. s[l + 1] = " "
    BY <1>2, <2>1
  <2>3. IsPart(<<s[l + 1]>>, D, s, l + 1 - 1, 1)
    BY <2>1, OneOf DEF n
  <2> QED BY <2>1, <2>2, <2>3
<1>6. l < n => IsPart(c \o sp, D, s, 0, l + 1)
  <2> SUFFICES ASSUME l < n PROVE IsPart(c \o sp, D, s, 0, l + 1)
    OBVIOUS
  <2>1. 0 + l = l /\ l \in Nat
    BY <1>1
  <2> HIDE DEF sp
  <2> QED BY <1>2, <1>5, <2>1, Joined
<1>7. CASE j > n + 1
  <2>1. r = Call("standard", c, <<>>, <<>>)
    BY <1>4, <1>7
  <2>2. l = n
    BY <1>1, <1>3, <1>7
  <2>3. s = c
    BY <1>2, <2>2, WholeLine DEF n
  <2>4. r.handler = "standard" /\ r.command = c
    BY <2>1 DEF Call
  <2> QED BY <1>2, <2>3, <2>4 DEF Means, r
<1>8. CASE j = n + 1
  <2>1. r = Call("none", c, <<>>, <<>>)
    BY <1>1, <1>4, <1>8
  <2>2. l + 1 = n /\ l < n
    BY <1>1, <1>3, <1>8
  <2>3. s = c \o sp
    BY <1>6, <2>2, WholeLine DEF n
  <2>4. r.handler = "none" /\ r.command = c
    BY <2>1 DEF Call
  <2> QED BY <1>2, <2>3, <2>4 DEF Means, r
<1>9. CASE j \in 1 .. n
  <2>1. l < n /\ ~ (j > n + 1) /\ j # n + 1 /\ j \in 1 .. n + 1 /\ j - 1 = l + 1
    BY <1>1, <1>3, <1>9
  <2>2. PICK m \in 0 .. n + 1 - j : /\ IsPart(target, D, s, j - 1, m)
                                    /\ j + m = n + 1 \/ s[j + m] = " "
                                    /\ ~ Contains(target, " ")
    BY <2>1, WordIs DEF target, n
  <2>3. Len(target) = m
    BY <2>2 DEF IsPart
  <2>4. CASE target = <<"/">> /\ j < n
    <3> DEFINE b == Rest(s, j + 2)
               k == n - j - 1
    <3>1. r = Call("pipe", c, b, <<>>)
      BY <1>4, <2>1, <2>4
    <3>2. m = 1 /\ s[j] = "/"
      <4>1. Len(<<"/">>) = 1 /\ <<"/">>[1] = "/"
        OBVIOUS
      <4>2. m = 1
        BY <2>3, <2>4, <4>1
      <4>3. target[1] = s[j - 1 + 1]
        <5>1. 1 \in 1 .. m
          BY <4>2
        <5> QED BY <2>2, <5>1 DEF IsPart
      <4>4. j - 1 + 1 = j
        BY <1>9, <1>1
      <4> QED BY <2>4, <4>1, <4>2, <4>3, <4>4
    <3>3. s[j + 1] = " " /\ s[l + 1] = " " /\ j + 1 # n + 1 /\ l + 3 = j + 1
      <4>1. j + 1 # n + 1 /\ l + 3 = j + 1 /\ 1 + l # n + 1 /\ 1 + l = l + 1
        BY <1>1, <1>3, <2>1, <2>4
      <4>2. s[j + 1] = " "
        BY <2>2, <3>2, <4>1
      <4>3. s[l + 1] = " "
        BY <1>2, <4>1
      <4> QED BY <4>1, <4>2, <4>3
    <3>4. /\ j + 2 \in 1 .. n + 1 /\ n \in j + 2 - 1 .. n /\ j + 2 - 1 = l + 3
          /\ n - (j + 2) + 1 = k /\ k \in Nat /\ l + 3 + k = n /\ l + 3 \in Nat
      BY <1>1, <1>3, <1>9, <2>4
    <3>5. IsPart(b, D, s, l + 3, k)
      <4>1. IsPart(SubSeq(s, j + 2, n), D, s, j + 2 - 1, n - (j + 2) + 1)
        <5>2. PICK i \in Nat : i = j + 2
          BY <1>3
        <5>1. i \in 1 .. Len(s) + 1 /\ n \in i - 1 .. Len(s)
          BY <3>4, <5>2 DEF n
        <5>3. IsPart(SubSeq(s, i, n), D, s, i - 1, n - i + 1)
          BY <5>1, PartOf
        <5> QED BY <1>1, <1>3, <5>2, <5>3
      <4> QED BY <3>4, <4>1 DEF Rest, n
    <3> DEFINE mid == <<" ", "/", " ">>
    <3>6. IsPart(mid, D, s, l, 3)
      <4>1. l + 1 \in 1 .. n /\ l + 2 \in 1 .. n /\ l + 3 \in 1 .. n
        BY <1>1, <1>3, <1>9, <2>4
      <4>2. " " \in D /\ "/" \in D
        <5>1. s[l + 1] \in D /\ s[j] \in D
          BY <1>9, <4>1 DEF n
        <5> QED BY <3>2, <3>3, <5>1
      <4>3. mid \in Seq(D) /\ Len(mid) = 3 /\ mid[1] = " " /\ mid[2] = "/" /\ mid[3] = " "
        <5>1. mid \in Seq(D)
          <6>1. ASSUME NEW x \in D, NEW y \in D PROVE <<x, y, x>> \in Seq(D)
            OBVIOUS
          <6> QED BY <4>2, <6>1
        <5>2. Len(mid) = 3
          OBVIOUS
        <5>3. mid[1] = " " /\ mid[2] = "/" /\ mid[3] = " "
          OBVIOUS
        <5> QED BY <5>1, <5>2, <5>3
      <4>4. mid[1] = s[l + 1] /\ mid[2] = s[l + 2] /\ mid[3] = s[l + 3]
        BY <1>3, <3>2, <3>3, <4>3
      <4>5. \A i \in 1 .. 3 : i = 1 \/ i = 2 \/ i = 3
        OBVIOUS
      <4> HIDE DEF mid
      <4> QED BY <4>3, <4>4, <4>5 DEF IsPart
    <3> HIDE DEF mid, b, k
    <3>7. IsPart(c \o mid, D, s, 0, l + 3)
      <4>1. 0 + l = l /\ l \in Nat /\ 3 \in Nat /\ 0 \in Nat
        BY <1>1
      <4> QED BY <1>2, <3>6, <4>1, Joined
    <3>8. IsPart((c \o mid) \o b, D, s, 0, l + 3 + k)
      <4>1. 0 + (l + 3) = l + 3 /\ 0 \in Nat
        BY <1>1
      <4> QED BY <3>4, <3>5, <3>7, <4>1, Joined
    <3>9. s = (c \o mid) \o b
      BY <3>4, <3>8, WholeLine DEF n
    <3>10. r.handler = "pipe" /\ r.command = c /\ r.target = b
      BY <3>1 DEF Call
    <3> QED BY <1>2, <3>9, <3>10 DEF Means, r, mid
  <2>5. IsPart(Rest(s, j), D, s, l + 1, n - (l + 1))
    <3>1. n \in j - 1 .. n /\ n - j + 1 = n - (l + 1)
      BY <1>1, <1>3, <1>9
    <3>2. IsPart(SubSeq(s, j, n), D, s, j - 1, n - j + 1)
      BY <2>1, <3>1, PartOf DEF n
    <3> QED BY <2>1, <3>1, <3>2 DEF Rest, n
  <2>6. CASE ~ (target = <<"/">> /\ j < n) /\ Rest(s, j) = <<"&">>
    <3>1. r = Call("background", c, <<>>, <<>>)
      BY <1>4, <2>1, <2>6
    <3>2. n - (l + 1) \in Nat /\ 0 + (l + 1) = l + 1 /\ l + 1 \in Nat /\ l + 1 + (n - (l + 1)) = n
          /\ 0 \in Nat
      BY <1>1, <2>1
    <3>3. IsPart((c \o sp) \o Rest(s, j), D, s, 0, n)
      <4> HIDE DEF sp
      <4>1. IsPart((c \o sp) \o Rest(s, j), D, s, 0, l + 1 + (n - (l + 1)))
        BY <1>6, <2>1, <2>5, <3>2, Joined
      <4> QED BY <3>2, <4>1
    <3>4. s = (c \o sp) \o <<"&">>
      BY <2>6, <3>3, WholeLine DEF n
    <3>5. r.handler = "background" /\ r.command = c
      BY <3>1 DEF Call
    <3> QED BY <1>2, <3>4, <3>5 DEF Means, r
  <2>7. CASE ~ (target = <<"/">> /\ j < n) /\ Rest(s, j) # <<"&">>
    <3> DEFINE b == Rest(s, j + Len(target) + 1)
               u == (c \o sp) \o target
    <3>1. r = Call("argument", c, target, b)
      BY <1>4, <2>1, <2>7
    <3>2. IsPart(u, D, s, 0, l + 1 + m)
      <4>1. 0 + (l + 1) = l + 1 /\ l + 1 \in Nat /\ m \in Nat /\ 0 \in Nat
        BY <1>1, <2>1
      <4> HIDE DEF sp
      <4> QED BY <1>6, <2>1, <2>2, <4>1, Joined
    <3>3. s = u \/ s = u \o (sp \o b)
      <4>1. CASE j + m = n + 1
        <5>1. l + 1 + m = n
          BY <1>1, <1>3, <4>1
        <5> HIDE DEF u
        <5> QED BY <3>2, <5>1, WholeLine DEF n
      <4>2. CASE j + m # n + 1
        <5> DEFINE k == n - (j + m)
        <5>1. /\ j + m \in 1 .. n /\ s[j + m] = " " /\ j + m + 1 \in 1 .. n + 1
              /\ n \in j + m + 1 - 1 .. n /\ j + m - 1 = l + 1 + m /\ j + m + 1 - 1 = l + 1 + m + 1
              /\ n - (j + m + 1) + 1 = k /\ k \in Nat /\ l + 1 + m \in Nat /\ 1 + k \in Nat
              /\ l + 1 + m + (1 + k) = n
          <6>1. m \in 0 .. n + 1 - j /\ l \in 0 .. n /\ j = l + 2
            BY <1>3
          <6>2. s[j + m] = " "
            BY <2>2, <4>2
          <6>3. /\ j + m \in 1 .. n /\ j + m + 1 \in 1 .. n + 1
                /\ n \in j + m + 1 - 1 .. n /\ j + m - 1 = l + 1 + m
                /\ j + m + 1 - 1 = l + 1 + m + 1
            BY <1>1, <1>9, <4>2, <6>1
          <6>4. /\ n - (j + m + 1) + 1 = k /\ k \in Nat /\ l + 1 + m \in Nat /\ 1 + k \in Nat
                /\ l + 1 + m + (1 + k) = n
            BY <1>1, <1>9, <4>2, <6>1
          <6> QED BY <6>2, <6>3, <6>4
        <5>2. IsPart(sp, D, s, l + 1 + m, 1)
          <6>1. IsPart(<<s[j + m]>>, D, s, j + m - 1, 1)
            <7>2. PICK i \in Nat : i = j + m
              BY <1>1, <1>3, <1>9
            <7>4. i \in 1 .. n
              BY <1>1, <1>3, <5>1, <7>2
            <7>1. i \in 1 .. Len(s)
              BY <7>4 DEF n
            <7>3. IsPart(<<s[i]>>, D, s, i - 1, 1)
              BY <7>1, OneOf
            <7> QED BY <1>1, <1>3, <7>2, <7>3
          <6> QED BY <5>1, <6>1
        <5>3. IsPart(b, D, s, l + 1 + m + 1, k)
          <6>1. IsPart(SubSeq(s, j + m + 1, n), D, s, j + m + 1 - 1, n - (j + m + 1) + 1)
            <7>2. PICK i \in Nat : i = j + m + 1
              BY <1>1, <1>3, <1>9
            <7>5. m \in 0 .. n + 1 - j
              OBVIOUS
            <7>4. i \in 1 .. n + 1 /\ n \in i - 1 .. n
              BY <1>1, <1>3, <1>9, <4>2, <7>2, <7>5
            <7>1. i \in 1 .. Len(s) + 1 /\ n \in i - 1 .. Len(s)
              BY <7>4 DEF n
            <7>3. IsPart(SubSeq(s, i, n), D, s, i - 1, n - i + 1)
              BY <7>1, PartOf
            <7> QED BY <1>1, <1>3, <7>2, <7>3
          <6> QED BY <2>3, <5>1, <6>1 DEF Rest, n
        <5> HIDE DEF k, b, u, sp
        <5>4. IsPart(sp \o b, D, s, l + 1 + m, 1 + k)
          BY <5>1, <5>2, <5>3, Joined
        <5>5. IsPart(u \o (sp \o b), D, s, 0, l + 1 + m + (1 + k))
          <6> DEFINE x == l + 1 + m
          <6>2. x \in Nat
            BY <5>1
          <6> HIDE DEF x
          <6>3. 0 + x = x /\ 0 \in Nat
            BY <6>2
          <6>1. 0 + (l + 1 + m) = l + 1 + m /\ 0 \in Nat
            BY <6>3 DEF x
          <6> QED BY <3>2, <5>1, <5>4, <6>1, Joined
        <5> QED BY <5>1, <5>5, WholeLine DEF n
      <4> QED BY <4>1, <4>2
    <3>4. s = u \o <<>> \/ s = u \o (sp \o b)
      <4>1. u \in Seq(D)
        BY <3>2 DEF IsPart
      <4> HIDE DEF u, b
      <4>2. u \o <<>> = u
        BY <4>1
      <4> QED BY <3>3, <4>2
    <3>5. ~ (target = <<"/">> /\ n > l + 2)
      BY <1>1, <1>3, <2>7
    <3>6. ~ (target = <<"&">> /\ n = l + 2)
      <4> SUFFICES ASSUME target = <<"&">>, n = l + 2 PROVE FALSE
        OBVIOUS
      <4>1. m = 1 /\ n - (l + 1) = 1 /\ j - 1 = l + 1
        <5>1. Len(<<"&">>) = 1
          OBVIOUS
        <5> QED BY <1>1, <1>3, <2>3, <5>1
      <4>2. IsPart(target, D, s, l + 1, 1) /\ IsPart(Rest(s, j), D, s, l + 1, 1)
        BY <2>2, <2>5, <4>1
      <4>3. target = Rest(s, j)
        <5>1. /\ target \in Seq(D) /\ Rest(s, j) \in Seq(D)
              /\ Len(target) = 1 /\ Len(Rest(s, j)) = 1
              /\ \A i \in 1 .. 1 : target[i] = s[l + 1 + i] /\ Rest(s, j)[i] = s[l + 1 + i]
          BY <4>2 DEF IsPart
        <5>2. \A i \in 1 .. Len(target) : target[i] = Rest(s, j)[i]
          BY <5>1
        <5> QED BY <5>1, <5>2, SameText
      <4> QED BY <2>7, <4>3
    <3>7. r.handler = "argument" /\ r.command = c /\ r.target = target /\ r.arg = b
      BY <3>1 DEF Call
    <3> DEFINE T == {<<>>, sp \o r.arg}
    <3>8. s \in {r.command \o sp \o r.target \o t : t \in T}
      <4>1. \E t \in T : s = u \o t
        <5>1. <<>> \in T /\ sp \o b \in T
          BY <3>7
        <5> HIDE DEF T, u, b
        <5> QED BY <3>4, <5>1
      <4> HIDE DEF T
      <4> QED BY <3>7, <4>1
    <3> HIDE DEF b, u, T
    <3> QED BY <1>2, <1>3, <2>2, <3>5, <3>6, <3>7, <3>8 DEF Means, r, T, n
  <2> QED BY <2>4, <2>6, <2>7
<1> QED BY <1>1, <1>3, <1>7, <1>8, <1>9

(* What the handlers get, and when there is a first argument.              *)
LEMMA Arguments ==
  ASSUME NEW D, NEW s \in Seq(D)
  PROVE  /\ interprete(s).target \in Seq(D) /\ interprete(s).arg \in Seq(D)
         /\ interprete(s).handler = "argument" /\ SingleSpaces(s) =>
              interprete(s).target # <<>>
<1> DEFINE n == Len(s)
           c == Word(s, 1)
           j == Len(c) + 2
           target == Word(s, j)
           r == interprete(s)
<1>1. n \in Nat /\ 1 \in 1 .. n + 1
  OBVIOUS
<1>2. PICK l \in 0 .. n : IsPart(c, D, s, 0, l) /\ (1 + l = n + 1 \/ s[1 + l] = " ")
  <2>1. n + 1 - 1 = n /\ 1 - 1 = 0
    BY <1>1
  <2>2. \E l \in 0 .. n + 1 - 1 :
          /\ IsPart(c, D, s, 1 - 1, l)
          /\ 1 + l = n + 1 \/ s[1 + l] = " "
          /\ ~ Contains(c, " ")
    BY <1>1, WordIs
  <2> HIDE DEF n, c
  <2> QED BY <2>1, <2>2
<1>3. Len(c) = l /\ j = l + 2 /\ j \in Nat /\ l \in Nat
  <2> HIDE DEF c, n
  <2>1. Len(c) = l
    BY <1>2 DEF IsPart
  <2> QED BY <1>1, <2>1
<1>4. r = IF j > n + 1 THEN Call("standard", c, <<>>, <<>>)
          ELSE IF j = n + 1 THEN Call("none", c, <<>>, <<>>)
          ELSE IF target = <<"/">> /\ j < n THEN Call("pipe", c, Rest(s, j + 2), <<>>)
          ELSE IF Rest(s, j) = <<"&">> THEN Call("background", c, <<>>, <<>>)
          ELSE Call("argument", c, target, Rest(s, j + Len(target) + 1))
  BY DEF interprete
<1> HIDE DEF c, j, target, r, n
<1>5. \A h, a, b, x : LET p == Call(h, a, b, x) IN p.handler = h /\ p.target = b /\ p.arg = x
  BY DEF Call
<1>6. <<>> \in Seq(D)
  OBVIOUS
<1>7. \A i \in Nat \ {0} : Rest(s, i) \in Seq(D)
  <2> SUFFICES ASSUME NEW i \in Nat \ {0} PROVE SubSeq(s, i, n) \in Seq(D)
    BY DEF Rest, n
  <2>1. \A k \in i .. n : s[k] \in D
    BY <1>1 DEF n
  <2> QED BY <1>1, <2>1, SubSeqProperties
<1>11. ASSUME NEW h, h \in {"standard", "none", "pipe", "background"},
              NEW b \in Seq(D), r = Call(h, c, b, <<>>)
       PROVE  /\ interprete(s).target \in Seq(D) /\ interprete(s).arg \in Seq(D)
              /\ interprete(s).handler # "argument"
  <2>1. r.handler = h /\ r.target = b /\ r.arg = <<>>
    BY <1>5, <1>11
  <2>2. h # "argument"
    BY <1>11
  <2> QED BY <1>6, <1>11, <2>1, <2>2 DEF r
<1>8. CASE j > n + 1
  <2>1. r = Call("standard", c, <<>>, <<>>)
    BY <1>4, <1>8
  <2> QED BY <1>6, <1>11, <2>1
<1>9. CASE j = n + 1
  <2>1. ~ (j > n + 1)
    BY <1>1, <1>9
  <2>2. r = Call("none", c, <<>>, <<>>)
    BY <1>4, <1>9, <2>1
  <2> QED BY <1>6, <1>11, <2>2
<1>10. CASE ~ (j > n + 1) /\ j # n + 1
  <2>1. j \in 1 .. n /\ j \in 1 .. n + 1 /\ j - 1 = l + 1 /\ j \in 2 .. n
        /\ 1 + l # n + 1 /\ 1 + l = j - 1 /\ j + 2 \in Nat \ {0}
    BY <1>1, <1>3, <1>10
  <2>2. CASE target = <<"/">> /\ j < n
    <3>1. r = Call("pipe", c, Rest(s, j + 2), <<>>)
      BY <1>4, <1>10, <2>2
    <3>2. Rest(s, j + 2) \in Seq(D)
      BY <1>7, <2>1
    <3> QED BY <1>11, <3>1, <3>2
  <2>3. CASE ~ (target = <<"/">> /\ j < n) /\ Rest(s, j) = <<"&">>
    <3>1. r = Call("background", c, <<>>, <<>>)
      BY <1>4, <1>10, <2>3
    <3> QED BY <1>6, <1>11, <3>1
  <2>4. CASE ~ (target = <<"/">> /\ j < n) /\ Rest(s, j) # <<"&">>
    <3>1. r = Call("argument", c, target, Rest(s, j + Len(target) + 1))
      BY <1>4, <1>10, <2>4
    <3>2. PICK m \in 0 .. n + 1 - j : /\ IsPart(target, D, s, j - 1, m)
                                      /\ j + m = n + 1 \/ s[j + m] = " "
                                      /\ ~ Contains(target, " ")
      BY <2>1, WordIs DEF target, n
    <3>3. target \in Seq(D) /\ Len(target) = m
      BY <3>2 DEF IsPart
    <3>4. m \in Nat /\ j + Len(target) + 1 \in Nat \ {0}
      BY <1>1, <1>3, <3>3
    <3>5. Rest(s, j + Len(target) + 1) \in Seq(D)
      BY <1>7, <3>4
    <3>6. ASSUME SingleSpaces(s), target = <<>> PROVE FALSE
      <4>1. m = 0
        BY <3>3, <3>6
      <4>2. j + m = j /\ j # n + 1
        BY <1>3, <1>10, <4>1
      <4>3. s[j] = " "
        BY <3>2, <4>2
      <4>4. s[j - 1] = " "
        BY <1>2, <2>1
      <4> QED BY <2>1, <3>6, <4>3, <4>4 DEF SingleSpaces, n
    <3> QED BY <1>5, <3>1, <3>3, <3>5, <3>6 DEF r
  <2> QED BY <2>2, <2>3, <2>4
<1> QED BY <1>8, <1>9, <1>10

(* Numerals have no spaces at their end.                                   *)
LEMMA NumeralTrimmed ==
  ASSUME NEW D, NEW s \in Seq(D), isNumber(s)
  PROVE  Trimmed(s) = s
<1>1. Len(s) \in Nat /\ DOMAIN s = 1 .. Len(s)
  OBVIOUS
<1>2. \A k \in 1 .. Len(s) : s[k] # " "
  <2> SUFFICES ASSUME NEW k \in 1 .. Len(s) PROVE s[k] # " "
    OBVIOUS
  <2>1. PICK i \in 1 .. 10 : s[k] = Digit[i]
    BY <1>1 DEF isNumber
  <2> QED BY <2>1, Digits
<1>3. LastAt(s, Len(s), Len(s))
  <2>1. Len(s) \in 0 .. Len(s) /\ Len(s) + 1 .. Len(s) = {} /\ (Len(s) = 0 \/ Len(s) \in 1 .. Len(s))
    BY <1>1
  <2> QED BY <1>2, <2>1 DEF LastAt
<1>4. LastAt(s, Len(s), Until(s, Len(s)))
  BY <1>1, UntilLast
<1>5. Until(s, Len(s)) = Len(s)
  BY <1>1, <1>3, <1>4, LastUnique
<1>6. Trimmed(s) = SubSeq(s, 1, Until(s, Len(s)))
  BY DEF Trimmed, Until
<1>7. SubSeq(s, 1, Len(s)) = s
  OBVIOUS
<1> QED BY <1>5, <1>6, <1>7

-----------------------------------------------------------------------------
(* What the handlers do *)

\* What runs in the background reads no keys.
KeepsKeys(e) ==
  e.does = "run" /\ e.background =>
    ~ \E w \in DOMAIN Command : e.name = Command[w].name /\ Is(w, "foreground")

\* An effect without a number.
Plain(e) == KeepsKeys(e) /\ e.does \notin {"kill", "nice"} /\ e.number = 0

\* One with the number that target or arg is.
Numbered(e, target, arg) ==
  /\ KeepsKeys(e)
  /\ \E x \in {target, arg} :
       isNumber(x) /\ e.number = myAtoi(x) /\ (x = target \/ x # <<>>)

LEMMA SaysPlain ==
  ASSUME NEW text, text \notin {"run", "kill", "nice"}
  PROVE  /\ DOMAIN Says(text) = {1} /\ Says(text)[1].does = text
         /\ Plain(Says(text)[1])
<1> DEFINE e == [does |-> text, name |-> "", background |-> FALSE, number |-> 0]
<1>1. Says(text) = <<e>>
  BY DEF Says
<1>2. e.does = text /\ e.number = 0
  OBVIOUS
<1> HIDE DEF e
<1>3. DOMAIN <<e>> = {1} /\ <<e>>[1] = e
  OBVIOUS
<1>4. Plain(e)
  BY <1>2 DEF Plain, KeepsKeys
<1> QED BY <1>1, <1>2, <1>3, <1>4

LEMMA RunsPlain ==
  ASSUME NEW word, NEW background \in BOOLEAN, Known(word),
         background => ~ Is(word, "foreground")
  PROVE  LET r == Runs(word, background) IN
         /\ DOMAIN r = {1} /\ r[1].does = "run" /\ r[1].background = background
         /\ Plain(r[1])
<1> DEFINE e == [does |-> "run", name |-> Command[word].name, background |-> background, number |-> 0]
<1>1. Runs(word, background) = <<e>>
  BY DEF Runs
<1>2. e.does = "run" /\ e.number = 0 /\ e.background = background /\ e.name = Command[word].name
  OBVIOUS
<1> HIDE DEF e
<1>3. DOMAIN <<e>> = {1} /\ <<e>>[1] = e
  OBVIOUS
<1>4. ASSUME background, NEW w \in DOMAIN Command, e.name = Command[w].name, Is(w, "foreground")
      PROVE  FALSE
  <2>1. w = word
    BY <1>2, <1>4, CommandAssumption DEF Known
  <2> QED BY <1>4, <2>1
<1>5. "run" \notin {"kill", "nice"}
  OBVIOUS
<1>6. Plain(e)
  BY <1>2, <1>4, <1>5 DEF Plain, KeepsKeys
<1> QED BY <1>1, <1>2, <1>3, <1>6

LEMMA StandardPlain ==
  ASSUME NEW word, NEW background \in BOOLEAN
  PROVE  LET r == standard_command_handler(word, background) IN
         DOMAIN r = {1} /\ Plain(r[1])
<1> DEFINE r == standard_command_handler(word, background)
<1>1. CASE ~ Is(word, "program")
  <2>1. r = Says("command not found")
    BY <1>1 DEF standard_command_handler
  <2> HIDE DEF r
  <2>2. "command not found" \notin {"run", "kill", "nice"}
    OBVIOUS
  <2> QED BY <2>1, <2>2, SaysPlain DEF r
<1>2. CASE Is(word, "program") /\ background /\ Is(word, "foreground")
  <2>1. r = Says("requires user input")
    BY <1>2 DEF standard_command_handler
  <2> HIDE DEF r
  <2>2. "requires user input" \notin {"run", "kill", "nice"}
    OBVIOUS
  <2> QED BY <2>1, <2>2, SaysPlain DEF r
<1>3. CASE Is(word, "program") /\ ~ (background /\ Is(word, "foreground"))
  <2>1. r = Runs(word, background)
    BY <1>3 DEF standard_command_handler
  <2>2. Known(word)
    BY <1>3 DEF Is
  <2> HIDE DEF r
  <2> QED BY <1>3, <2>1, <2>2, RunsPlain DEF r
<1> QED BY <1>1, <1>2, <1>3

(* Both sides of a pipe run, or none.                                      *)
LEMMA PipePlain ==
  ASSUME NEW app, NEW target
  PROVE  LET r == pipe_command_handler(app, target) IN
         /\ \A k \in DOMAIN r : Plain(r[k])
         /\ (\E k \in DOMAIN r : r[k].does = "run") =>
              /\ DOMAIN r = {1, 2} /\ \A k \in {1, 2} : r[k].does = "run"
              /\ r[1].background /\ ~ r[2].background
<1> DEFINE r == pipe_command_handler(app, target)
<1>1. CASE ~ Is(app, "output")
  <2>1. r = Says("left not allowed")
    BY <1>1 DEF pipe_command_handler
  <2> HIDE DEF r
  <2>2. "left not allowed" \notin {"run", "kill", "nice"}
    OBVIOUS
  <2>3. DOMAIN r = {1} /\ r[1].does = "left not allowed" /\ Plain(r[1])
    BY <2>1, <2>2, SaysPlain
  <2> QED BY <2>2, <2>3 DEF r
<1>2. CASE Is(app, "output") /\ ~ Is(target, "input")
  <2>1. r = Says("right not allowed")
    BY <1>2 DEF pipe_command_handler
  <2> HIDE DEF r
  <2>2. "right not allowed" \notin {"run", "kill", "nice"}
    OBVIOUS
  <2>3. DOMAIN r = {1} /\ r[1].does = "right not allowed" /\ Plain(r[1])
    BY <2>1, <2>2, SaysPlain
  <2> QED BY <2>2, <2>3 DEF r
<1>3. CASE Is(app, "output") /\ Is(target, "input")
  <2> DEFINE a == Runs(app, TRUE)
             b == Runs(target, FALSE)
  <2>1. Known(app) /\ Is(app, "program") /\ ~ Is(app, "foreground")
    BY <1>3, CommandAssumption DEF Is, Known
  <2>2. Known(target) /\ Is(target, "program")
    BY <1>3, CommandAssumption DEF Is, Known
  <2>3. r = a \o b
    BY <1>3, <2>1, <2>2 DEF pipe_command_handler, standard_command_handler
  <2>4. DOMAIN a = {1} /\ a[1].does = "run" /\ a[1].background = TRUE /\ Plain(a[1])
    BY <2>1, RunsPlain
  <2>5. DOMAIN b = {1} /\ b[1].does = "run" /\ b[1].background = FALSE /\ Plain(b[1])
    BY <2>2, RunsPlain
  <2>6. \A x, y : DOMAIN (<<x>> \o <<y>>) = {1, 2} /\ (<<x>> \o <<y>>)[1] = x /\ (<<x>> \o <<y>>)[2] = y
    OBVIOUS
  <2>7. \A w, t : Runs(w, t) = <<Runs(w, t)[1]>>
    BY DEF Runs
  <2>8. a = <<a[1]>> /\ b = <<b[1]>>
    BY <2>7
  <2> HIDE DEF a, b, r
  <2>9. DOMAIN r = {1, 2} /\ r[1] = a[1] /\ r[2] = b[1]
    <3> DEFINE x == a[1]
               y == b[1]
    <3>1. r = <<x>> \o <<y>>
      BY <2>3, <2>8
    <3> HIDE DEF x, y
    <3>2. DOMAIN r = {1, 2} /\ r[1] = x /\ r[2] = y
      BY <2>6, <3>1
    <3> QED BY <3>2 DEF x, y
  <2> QED BY <2>4, <2>5, <2>9 DEF r
<1> QED BY <1>1, <1>2, <1>3

LEMMA DoesNumbered ==
  ASSUME NEW word, NEW target, NEW arg, NEW x \in {target, arg}, isNumber(x), x = target \/ x # <<>>
  PROVE  Numbered(Does(word, myAtoi(x))[1], target, arg)
<1> DEFINE e == [does |-> Command[word].name, name |-> "", background |-> FALSE,
                 number |-> myAtoi(x)]
<1>1. Does(word, myAtoi(x))[1] = e
  BY DEF Does
<1>2. e.background = FALSE /\ e.number = myAtoi(x)
  OBVIOUS
<1> HIDE DEF e
<1> QED BY <1>1, <1>2 DEF Numbered, KeepsKeys

LEMMA ArgumentEffects ==
  ASSUME NEW word, NEW target, NEW arg
  PROVE  LET r == argument_command_handler(word, target, arg) IN
         \A k \in DOMAIN r : Plain(r[k]) \/ Numbered(r[k], target, arg)
<1> DEFINE r == argument_command_handler(word, target, arg)
<1>1. \A w, t : DOMAIN Does(w, t) = {1} /\ Does(w, t) = <<Does(w, t)[1]>>
  BY DEF Does
<1>2. ASSUME NEW text, text \notin {"run", "kill", "nice"}, r = Says(text)
      PROVE  \A k \in DOMAIN r : Plain(r[k]) \/ Numbered(r[k], target, arg)
  <2> HIDE DEF r
  <2>1. DOMAIN r = {1} /\ Plain(r[1])
    BY <1>2, SaysPlain
  <2> QED BY <2>1
<1>3. CASE Is(word, "number")
  <2>1. CASE isNumber(target)
    <3>1. r = Does(word, myAtoi(target))
      BY <1>3, <2>1 DEF argument_command_handler
    <3>2. Numbered(Does(word, myAtoi(target))[1], target, arg)
      BY <2>1, DoesNumbered
    <3> HIDE DEF r
    <3> QED BY <1>1, <3>1, <3>2 DEF r
  <2>2. CASE ~ isNumber(target)
    <3>1. r = Says("not a valid argument")
      BY <1>3, <2>2 DEF argument_command_handler
    <3> HIDE DEF r
    <3> QED BY <1>2, <3>1 DEF r
  <2> QED BY <2>1, <2>2
<1>4. CASE ~ Is(word, "number") /\ Is(word, "two numbers")
  <2>1. CASE arg # <<>> /\ isNumber(target) /\ isNumber(arg)
    <3> DEFINE a == Does(word, myAtoi(target))
               b == Does(word, myAtoi(arg))
    <3>1. r = a \o b
      BY <1>4, <2>1 DEF argument_command_handler
    <3>2. Numbered(a[1], target, arg) /\ Numbered(b[1], target, arg)
      BY <2>1, DoesNumbered
    <3>3. a = <<a[1]>> /\ b = <<b[1]>>
      BY <1>1
    <3>4. \A x, y : DOMAIN (<<x>> \o <<y>>) = {1, 2} /\ (<<x>> \o <<y>>)[1] = x /\ (<<x>> \o <<y>>)[2] = y
      OBVIOUS
    <3> HIDE DEF a, b, r
    <3>5. DOMAIN r = {1, 2} /\ r[1] = a[1] /\ r[2] = b[1]
      <4> DEFINE x == a[1]
                 y == b[1]
      <4>1. r = <<x>> \o <<y>>
        BY <3>1, <3>3
      <4> HIDE DEF x, y
      <4>2. DOMAIN r = {1, 2} /\ r[1] = x /\ r[2] = y
        BY <3>4, <4>1
      <4> QED BY <4>2 DEF x, y
    <3> QED BY <3>2, <3>5 DEF r
  <2>2. CASE ~ (arg # <<>> /\ isNumber(target) /\ isNumber(arg))
    <3>1. r = Says("no argument")
      BY <1>4, <2>2 DEF argument_command_handler
    <3> HIDE DEF r
    <3> QED BY <1>2, <3>1 DEF r
  <2> QED BY <2>1, <2>2
<1>5. CASE ~ Is(word, "number") /\ ~ Is(word, "two numbers")
  <2>1. r = Says("command not found")
    BY <1>5 DEF argument_command_handler
  <2> HIDE DEF r
  <2> QED BY <1>2, <2>1 DEF r
<1> QED BY <1>3, <1>4, <1>5

\* What Interprets leaves of a line.
DidOf(s) == [line |-> s, call |-> interprete(s), effects |-> Handled(interprete(s))]

(* Every handler but that for arguments has no number.                     *)
LEMMA Effects ==
  ASSUME NEW D, NEW s \in Seq(D)
  PROVE  LET call == interprete(s) IN
         \A k \in DOMAIN Handled(call) :
           LET e == Handled(call)[k] IN
           Plain(e) \/ (call.handler = "argument" /\ Numbered(e, call.target, call.arg))
<1> DEFINE call == interprete(s)
           r == Handled(call)
<1>1. CASE call.handler = "standard"
  <2>1. r = standard_command_handler(call.command, FALSE)
    BY <1>1 DEF Handled
  <2>2. DOMAIN r = {1} /\ Plain(r[1])
    BY <2>1, StandardPlain
  <2> QED BY <2>2
<1>2. CASE call.handler = "background"
  <2>1. r = standard_command_handler(call.command, TRUE)
    BY <1>2 DEF Handled
  <2>2. DOMAIN r = {1} /\ Plain(r[1])
    BY <2>1, StandardPlain
  <2> QED BY <2>2
<1>3. CASE call.handler = "pipe"
  <2>1. r = pipe_command_handler(call.command, call.target)
    BY <1>3 DEF Handled
  <2>2. \A k \in DOMAIN r : Plain(r[k])
    BY <2>1, PipePlain
  <2> QED BY <2>2
<1>4. CASE call.handler = "argument"
  <2>1. r = argument_command_handler(call.command, call.target, call.arg)
    BY <1>4 DEF Handled
  <2>2. \A k \in DOMAIN r : Plain(r[k]) \/ Numbered(r[k], call.target, call.arg)
    BY <2>1, ArgumentEffects
  <2> QED BY <1>4, <2>2
<1>5. CASE call.handler \notin {"standard", "background", "pipe", "argument"}
  <2>1. r = Says("no argument")
    BY <1>5 DEF Handled
  <2>2. "no argument" \notin {"run", "kill", "nice"}
    OBVIOUS
  <2>3. DOMAIN r = {1} /\ Plain(r[1])
    BY <2>1, <2>2, SaysPlain
  <2> QED BY <2>3
<1> QED BY <1>1, <1>2, <1>3, <1>4, <1>5

LEMMA LineExecuted ==
  ASSUME NEW D, NEW s \in Seq(D)
  PROVE  AsMeant(DidOf(s))
<1> DEFINE d == DidOf(s)
           call == interprete(s)
           r == Handled(call)
           numerals == {Trimmed(x) : x \in {call.target, call.arg}}
<1>1. d.line = s /\ d.call = call /\ d.effects = r
  BY DEF DidOf
<1>2. Means(s, call)
  BY LineMeant
<1>3. call.handler = "pipe" /\ (\E k \in DOMAIN r : r[k].does = "run") =>
        /\ DOMAIN r = {1, 2} /\ \A k \in {1, 2} : r[k].does = "run"
        /\ r[1].background /\ ~ r[2].background
  <2>1. call.handler = "pipe" => r = pipe_command_handler(call.command, call.target)
    BY DEF Handled
  <2> QED BY <2>1, PipePlain
<1>4. \A k \in DOMAIN r : Plain(r[k]) \/ (call.handler = "argument" /\ Numbered(r[k], call.target, call.arg))
  BY Effects
<1>5. /\ call.target \in Seq(D) /\ call.arg \in Seq(D)
      /\ call.handler = "argument" /\ SingleSpaces(s) => call.target # <<>>
  BY Arguments
<1> HIDE DEF d, call, r
<1>6. \A k \in DOMAIN r : KeepsKeys(r[k])
  BY <1>4 DEF Plain, Numbered
<1>7. ASSUME NEW k \in DOMAIN r, r[k].does \in {"kill", "nice"}, SingleSpaces(s)
      PROVE  \E n \in numerals :
               isNumber(n) /\ n # <<>> /\ (Value(n) <= INT_MAX => r[k].number = Value(n))
  <2>1. call.handler = "argument" /\ Numbered(r[k], call.target, call.arg)
    BY <1>4, <1>7 DEF Plain
  <2>2. PICK x \in {call.target, call.arg} :
          isNumber(x) /\ r[k].number = myAtoi(x) /\ (x = call.target \/ x # <<>>)
    BY <2>1 DEF Numbered
  <2>3. x # <<>> /\ x \in Seq(D)
    BY <1>5, <1>7, <2>1, <2>2
  <2>4. Trimmed(x) = x
    BY <2>2, <2>3, NumeralTrimmed
  <2>5. x \in numerals
    BY <2>2, <2>4
  <2>6. Value(x) <= INT_MAX => r[k].number = Value(x)
    BY <2>2, <2>3, AtoiIsValue
  <2> QED BY <2>2, <2>3, <2>5, <2>6
<1> QED BY <1>1, <1>2, <1>3, <1>6, <1>7 DEF AsMeant, KeepsKeys, d

LEMMA NumbersFit ==
  ASSUME NEW D, NEW s \in Seq(D), NEW k \in DOMAIN DidOf(s).effects,
         DidOf(s).effects[k].number >= 0
  PROVE  DidOf(s).effects[k].number \in 0 .. INT_MAX
<1> DEFINE call == interprete(s)
           e == Handled(call)[k]
<1>1. DidOf(s).effects = Handled(call)
  BY DEF DidOf
<1>2. Plain(e) \/ Numbered(e, call.target, call.arg)
  BY <1>1, Effects
<1>3. call.target \in Seq(D) /\ call.arg \in Seq(D)
  BY Arguments
<1> HIDE DEF call, e
<1>4. e.number \in - INT_MAX - 1 .. INT_MAX
  <2>1. CASE Plain(e)
    BY <2>1, TextAssumption DEF Plain
  <2>2. CASE Numbered(e, call.target, call.arg)
    BY <1>3, <2>2, AtoiIsValue DEF Numbered
  <2> QED BY <1>2, <2>1, <2>2
<1>5. e.number >= 0
  BY <1>1 DEF e
<1>6. e.number \in 0 .. INT_MAX
  BY <1>4, <1>5, TextAssumption
<1> QED BY <1>1, <1>6 DEF e

-----------------------------------------------------------------------------
(* What was done is a line that was typed. *)

DidInv == did = <<>> \/ \E s \in Seq(Characters) : did = <<DidOf(s)>>

LEMMA DidInductive == ShellInv /\ DidInv /\ [Next]_vars => DidInv'
<1> SUFFICES ASSUME ShellInv, DidInv, [Next]_vars PROVE DidInv'
  OBVIOUS
<1>1. ASSUME did' = did PROVE DidInv'
  BY <1>1 DEF DidInv
<1>2. ASSUME did' = <<>> PROVE DidInv'
  BY <1>2 DEF DidInv
<1>3. ASSUME Interprets PROVE DidInv'
  <2>1. did' = <<DidOf(string)>>
    BY <1>3 DEF Interprets, DidOf
  <2> QED BY <2>1 DEF DidInv, ShellInv
<1>4. CASE UNCHANGED vars
  BY <1>1, <1>4 DEF vars
<1>5. ASSUME NEW key, PressShift(key) PROVE DidInv'
  BY <1>1, <1>5 DEF PressShift
<1>6. ASSUME NEW key, PressKey(key) PROVE DidInv'
  BY <1>1, <1>6 DEF PressKey
<1>7. CASE ShellStarts
  BY <1>1, <1>7 DEF ShellStarts
<1>8. CASE Prompts
  BY <1>2, <1>8 DEF Prompts
<1>9. CASE Edits
  BY <1>1, <1>9 DEF Edits
<1>10. CASE CommandEnds
  BY <1>2, <1>10 DEF CommandEnds
<1> QED BY <1>3, <1>4, <1>5, <1>6, <1>7, <1>8, <1>9, <1>10 DEF Next

LEMMA DidAlways == Spec => []DidInv
<1>1. Init => KeysInv /\ ShellInv /\ DidInv
  BY KeysInit, ShellInit DEF Init, DidInv
<1>2. (KeysInv /\ ShellInv /\ DidInv) /\ [Next]_vars => (KeysInv /\ ShellInv /\ DidInv)'
  BY KeysInductive, ShellInductive, DidInductive
<1> QED BY <1>1, <1>2, PTL DEF Spec

(* The line that was typed is taken apart as users mean it: for lines of   *)
(* any length, any table of commands and any width of an int, the handler  *)
(* that interprete chooses gets the parts of the line, pipes run both      *)
(* sides or none, nothing that reads keys runs in the background, and kill *)
(* and nice get the numbers of the line (shell.c:74-344).                  *)
THEOREM ExecutesWhatIsShownHolds == Spec => []ExecutesWhatIsShown
<1>1. DidInv => ExecutesWhatIsShown
  <2> SUFFICES ASSUME DidInv, NEW i \in DOMAIN did PROVE AsMeant(did[i])
    BY DEF ExecutesWhatIsShown
  <2>1. PICK s \in Seq(Characters) : did = <<DidOf(s)>>
    BY DEF DidInv
  <2>2. did[i] = DidOf(s)
    BY <2>1
  <2> QED BY <2>2, LineExecuted
<1> QED BY <1>1, DidAlways, PTL

(* A number that myPrintf writes and myAtoi reads is the same, for every   *)
(* number that a command gets and any width of an int, as long as its      *)
(* digits fit in the buffer of myPrintf (stdlib.c:78-116 and 231-240).     *)
THEOREM NumbersSurviveHolds == Spec => []NumbersSurvive
<1>1. DidInv => NumbersSurvive
  <2> SUFFICES ASSUME DidInv, NEW i \in DOMAIN did, NEW k \in DOMAIN did[i].effects,
                      did[i].effects[k].number >= 0
               PROVE  myAtoi(Tail(myPrintf(<<" ", "%d">>, <<did[i].effects[k].number>>))) =
                        did[i].effects[k].number
    BY DEF NumbersSurvive
  <2>1. PICK s \in Seq(Characters) : did = <<DidOf(s)>>
    BY DEF DidInv
  <2>2. did[i] = DidOf(s)
    BY <2>1
  <2>3. did[i].effects[k].number \in 0 .. INT_MAX
    BY <2>2, NumbersFit
  <2> QED BY <2>3, ReadBack
<1> QED BY <1>1, DidAlways, PTL

=============================================================================
