-------------------------------- MODULE Text --------------------------------
(***************************************************************************)
(* What the kernel and the programs do with text: numbers (stdlib.c,       *)
(* strings.c, uintToBase), printf, and the shell's way to take a line      *)
(* apart (shell.c:283-344).  Text is a sequence of characters without the  *)
(* 0 at its end.                                                           *)
(***************************************************************************)
EXTENDS Integers, Sequences, SequencesExt

CONSTANTS
  INT_MAX,      \* the largest int, 2^31 - 1 in the code
  PRINT_SIZE    \* stdlib.c:6, BUFFER_SIZE, 60 in the code

Digit == <<"0", "1", "2", "3", "4", "5", "6", "7", "8", "9",
           "A", "B", "C", "D", "E", "F">>

DigitOf(c) == (CHOOSE k \in 1 .. 10 : Digit[k] = c) - 1

\* uintToBase: digits from the last to the first, then reversed.
InBase(value, base) ==
  LET from[v \in 0 .. value] ==
        (IF v < base THEN <<>> ELSE from[v \div base]) \o <<Digit[1 + (v % base)]>>
  IN  from[value]

\* Mutated form of toString: the digits are left in the order in which they
\* come.
toStringBackwards(num, resp) ==
  LET text == Reverse(InBase(num, 10)) IN
  [i \in DOMAIN resp |->
     IF i <= Len(text) THEN text[i]
     ELSE IF i = Len(text) + 1 /\ num # 0 THEN "nul" ELSE resp[i]]

\* toString into a buffer, a function on 1 .. n that is 0 where nothing was
\* written yet.  There is no 0 after the number zero.
toString(num, resp) ==
  LET text == InBase(num, 10) IN
  [i \in DOMAIN resp |->
     IF i <= Len(text) THEN text[i]
     ELSE IF i = Len(text) + 1 /\ num # 0 THEN "nul" ELSE resp[i]]

\* The characters from place i of a buffer up to the first 0.
StringAt(buffer, i) ==
  LET end == CHOOSE e \in i .. Len(buffer) + 1 :
               /\ e = Len(buffer) + 1 \/ buffer[e] = "nul"
               /\ \A k \in i .. e - 1 : buffer[k] # "nul"
  IN  SubSeq(buffer, i, end - 1)

\* myPrintf with the numbers of its %d in order: resp and the index into it
\* are the same for all of them.  "%d" is one character here.
myPrintf(format, numbers) ==
  LET start == [out |-> <<>>, n |-> 1, index |-> 1,
                resp |-> [i \in 1 .. PRINT_SIZE |-> "nul"]]
      number(s) == LET resp == toString(numbers[s.n], s.resp)
                       shown == StringAt(resp, s.index)
                   IN  [out |-> s.out \o shown, n |-> s.n + 1, resp |-> resp,
                        index |-> s.index + Len(shown)]
      upto[k \in 0 .. Len(format)] ==
        IF k = 0 THEN start
        ELSE IF format[k] = "%d" THEN number(upto[k - 1])
        ELSE [upto[k - 1] EXCEPT !.out = Append(@, format[k])]
  IN  upto[Len(format)].out

isNumber(s) == \A i \in DOMAIN s : \E k \in 1 .. 10 : s[i] = Digit[k]

\* An int is kept in its width: 2^32 values, half of them negative.
Int32(k) == ((k + INT_MAX + 1) % (2 * (INT_MAX + 1))) - INT_MAX - 1

myAtoi(s) ==
  LET upto[k \in 0 .. Len(s)] ==
        IF k = 0 THEN 0 ELSE Int32(8 * upto[k - 1] + 2 * upto[k - 1] + DigitOf(s[k]))
  IN  upto[Len(s)]

\* The digits of every int have a place in resp, and the 0 after them.
ASSUME TextAssumption ==
  /\ INT_MAX \in Nat /\ PRINT_SIZE \in Nat
  /\ \A n \in 0 .. INT_MAX : Len(InBase(n, 10)) < PRINT_SIZE

-----------------------------------------------------------------------------
(* A line of the shell *)

\* The word at place i: what comes before the next space.
Word(s, i) ==
  LET end == CHOOSE e \in i .. Len(s) + 1 :
               /\ e = Len(s) + 1 \/ s[e] = " "
               /\ \A k \in i .. e - 1 : s[k] # " "
  IN  SubSeq(s, i, end - 1)

Rest(s, i) == SubSeq(s, i, Len(s))

Call(handler, command, target, arg) ==
  [handler |-> handler, command |-> command, target |-> target, arg |-> arg]

\* Which handler gets which parts of the line.
interprete(s) ==
  LET c == Word(s, 1)
      j == Len(c) + 2
      target == Word(s, j)
  IN  IF j > Len(s) + 1 THEN Call("standard", c, <<>>, <<>>)
      ELSE IF j = Len(s) + 1 THEN Call("none", c, <<>>, <<>>)
      ELSE IF target = <<"/">> /\ j < Len(s) THEN Call("pipe", c, Rest(s, j + 2), <<>>)
      ELSE IF Rest(s, j) = <<"&">> THEN Call("background", c, <<>>, <<>>)
      ELSE Call("argument", c, target, Rest(s, j + Len(target) + 1))

-----------------------------------------------------------------------------
(* What the above should be *)

\* The value of a numeral.
Value(s) ==
  LET upto[k \in 0 .. Len(s)] == IF k = 0 THEN 0 ELSE 10 * upto[k - 1] + DigitOf(s[k])
  IN  upto[Len(s)]

\* r is how a user means line s: "command", "command &", "left / right",
\* "command target" or "command target arg".
Means(s, r) ==
  LET sp == <<" ">> IN
  /\ ~ Contains(r.command, " ") /\ (r.handler = "argument" => ~ Contains(r.target, " "))
  /\ CASE r.handler = "standard" -> s = r.command
       [] r.handler = "none" -> s = r.command \o sp
       [] r.handler = "background" -> s = r.command \o sp \o <<"&">>
       [] r.handler = "pipe" -> s = r.command \o <<" ", "/", " ">> \o r.target
       [] r.handler = "argument" ->
            /\ s \in {r.command \o sp \o r.target \o t : t \in {<<>>, sp \o r.arg}}
            /\ ~ (r.target = <<"/">> /\ Len(s) > Len(r.command) + 2)
            /\ ~ (r.target = <<"&">> /\ Len(s) = Len(r.command) + 2)

=============================================================================
