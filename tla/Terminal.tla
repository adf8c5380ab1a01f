------------------------------ MODULE Terminal ------------------------------
(***************************************************************************)
(* From the keys to the command: the keyboard buffer (keyboard.c), the     *)
(* console, and the shell's line editor and dispatch (shell.c).            *)
(*                                                                         *)
(* A key is an interrupt and comes at any time.  The shell runs with       *)
(* interrupts on, one step of its loop at a time; nobody else writes on    *)
(* the screen while it edits a line.                                       *)
(***************************************************************************)
EXTENDS Text

CONSTANTS
  SCREEN_WIDTH, SCREEN_HEIGHT, CHAR_WIDTH, CHAR_HEIGHT,
  BIG_FONT_SIZE,         \* write.c:6, 15 in the code
  CLOCK_X, CLOCK_Y,      \* time.c:70, (20, 240) in the code
  CLOCK_LENGTH,          \* characters of the time of day, 8 in the code
  KEYBOARD_SIZE,         \* keyboard.h:1, BUFFER_SIZE, 257 in the code
  LINE_SIZE,             \* shell.c:12, BUFFER_SIZE, 255 in the code
  unshifted_keys,        \* what keys mean: functions on the same set of keys
  shifted_keys,
  Pressed,               \* bound: which of them are pressed, by value of shift
  Command,               \* commands the shell knows: a function from words
  MaxTyped,              \* bound: characters of a line, typed ahead included
  MaxAskew,              \* bound: the same when the prompt is out of place
  MaxOutput,             \* bound: what a program writes
  Workload               \* what users do besides, see Habits

\* Lines longer than the shell's buffer are typed.
Habits == {"LongLine"}

Con == INSTANCE Console WITH Blank <- " "

Kind == {"program", "foreground", "output", "input", "number", "two numbers"}

ASSUME TerminalAssumption ==
  /\ {SCREEN_WIDTH, SCREEN_HEIGHT, CHAR_WIDTH, CHAR_HEIGHT} \subseteq Nat \ {0}
  /\ SCREEN_WIDTH >= 2 * CHAR_WIDTH /\ SCREEN_HEIGHT >= CHAR_HEIGHT
  /\ KEYBOARD_SIZE \in Nat \ {0, 1, 2} /\ LINE_SIZE \in Nat \ {0}
  /\ MaxTyped \in Nat /\ MaxAskew \in Nat /\ MaxOutput \in Nat
  \* No key that prints means 0.
  /\ unshifted_keys \in [DOMAIN unshifted_keys -> STRING \ {"nul"}]
  /\ shifted_keys \in [DOMAIN unshifted_keys -> STRING \ {"nul"}]
  /\ Pressed \in [{0, 1} -> SUBSET DOMAIN unshifted_keys]
  /\ Command \in [DOMAIN Command -> [name : STRING, kinds : SUBSET Kind]]
  /\ Workload \subseteq Habits

\* 768 lines of dots are 48 lines of text, and the digital clock begins with
\* one of them.  Its 8 characters of 120 by 240 dots from (20, 240) on end
\* before the right edge and above the lower one.
ASSUME ScreenAssumption ==
  /\ {BIG_FONT_SIZE, CLOCK_LENGTH} \subseteq Nat \ {0} /\ {CLOCK_X, CLOCK_Y} \subseteq Nat
  /\ \E n \in 1 .. SCREEN_HEIGHT : SCREEN_HEIGHT = n * CHAR_HEIGHT
  /\ \E n \in 0 .. CLOCK_Y : CLOCK_Y = n * CHAR_HEIGHT
  /\ CLOCK_X + CLOCK_LENGTH * (CHAR_WIDTH * BIG_FONT_SIZE) + BIG_FONT_SIZE - 1 < SCREEN_WIDTH
  /\ CLOCK_Y + CHAR_HEIGHT * BIG_FONT_SIZE <= SCREEN_HEIGHT

\* Commands start programs of different names; what stands in a pipe is a
\* program, and the one on the left of it needs no keys.
ASSUME CommandAssumption ==
  /\ \A v, w \in DOMAIN Command : Command[v].name = Command[w].name => v = w
  /\ \A w \in DOMAIN Command : LET kinds == Command[w].kinds IN
       /\ "output" \in kinds \/ "input" \in kinds => "program" \in kinds
       /\ "output" \in kinds => "foreground" \notin kinds

VARIABLES
  shift,          \* keyboard.c: 0 or 1
  buffer,         \* keyboard.c: BUFFER_SIZE characters, "nul" where empty
  buffer_index,
  typed,          \* history: keys pressed and not yet read, the first one first
  ahead,          \* history: keys were pressed that the buffer does not keep in order
  con,            \* the console
  string,         \* shell.c: the line, as far as it is typed
  pc,             \* where the shell is
  at,             \* history: where the prompt begins, which scrolls up with the line
  did             \* history: what the last line was and what came of it

keyboard == <<shift, buffer, buffer_index, typed, ahead>>
vars == <<shift, buffer, buffer_index, typed, ahead, con, string, pc, at, did>>

-----------------------------------------------------------------------------
(* keyboard.c *)

Places == 0 .. KEYBOARD_SIZE - 1

EmptyBuffer == [i \in Places |-> "nul"]

ShiftedLeft(b) == [i \in Places |-> IF i = KEYBOARD_SIZE - 1 THEN "nul" ELSE b[i + 1]]

\* shiftBufferRight and the new character.
Inserted(b, k, c) == [i \in Places |-> IF i < k THEN b[i] ELSE IF i = k THEN c ELSE b[i - 1]]

Full == buffer[KEYBOARD_SIZE - 2] # "nul"

Pending == Cardinality({i \in Places : buffer[i] # "nul"})

\* Mutated form of addtoBuffer: the last place is used too.
addWithoutRoom(c) ==
  /\ buffer' = Inserted(buffer, buffer_index, c)
  /\ buffer_index' = (buffer_index + 1) % KEYBOARD_SIZE

\* A full buffer loses its first character, and the next one goes where
\* that was.
addtoBuffer(c) ==
  LET k == IF Full THEN 0 ELSE buffer_index
  IN  /\ buffer' = Inserted(IF Full THEN ShiftedLeft(buffer) ELSE buffer, k, c)
      /\ buffer_index' = k + 1

\* Mutated form of getFirstInBuffer: the others stay where they are.
getInPlace ==
  /\ buffer' = [buffer EXCEPT ![0] = "nul"]
  /\ buffer_index' = 0
  /\ typed' = RemoveFirst(typed, buffer[0])
  /\ ahead' = (ahead /\ Pending > 1)

\* getFirstInBuffer moves the others up; buffer_index is back at the start.
getFirstInBuffer ==
  /\ buffer' = ShiftedLeft(buffer)
  /\ buffer_index' = 0
  /\ typed' = RemoveFirst(typed, buffer[0])
  /\ ahead' = (ahead /\ Pending > 1)

\* The prompt is where the shell takes it to be.
PromptInPlace == at = <<0, SCREEN_HEIGHT - CHAR_HEIGHT>>

MayType ==
  /\ Len(string) + Pending < IF PromptInPlace THEN MaxTyped ELSE MaxAskew
  /\ "LongLine" \in Workload \/ Len(string) + Pending < LINE_SIZE - 1

PressShift(key) ==
  /\ MayType
  /\ key \in {"LSHIFT_PRESS", "LSHIFT_RELEASE", "CAPSLOCK"}
  /\ shift' = CASE key = "LSHIFT_PRESS" -> 1
                [] key = "LSHIFT_RELEASE" -> 0
                [] OTHER -> 1 - shift
  /\ UNCHANGED <<buffer, buffer_index, typed, ahead, con, string, pc, at, did>>

\* What a key means.
Meaning(key) == IF shift = 0 THEN unshifted_keys[key] ELSE shifted_keys[key]

\* The bounds of MayType leave a line that has reached them to be erased.
PressKey(key) ==
  /\ key \in Pressed[shift]
  /\ MayType \/ (Meaning(key) = "BACKSPACE" /\ Pending = 0)
  /\ LET c == Meaning(key) IN
       /\ addtoBuffer(c)
       /\ typed' = Append(IF Full THEN RemoveFirst(typed, buffer[0]) ELSE typed, c)
  /\ ahead' = (ahead \/ Pending # buffer_index \/ Full)
  /\ UNCHANGED <<shift, con, string, pc, at, did>>

-----------------------------------------------------------------------------
(* shell.c: the line *)

ShellStarts ==
  /\ pc = "start"
  /\ con' = Con!setCursor(con, 0, SCREEN_HEIGHT - CHAR_HEIGHT)
  /\ pc' = "prompt"
  /\ UNCHANGED <<keyboard, string, at, did>>

Prompt == <<"u", "s", "e", "r", "$", ":", " ">>

Prompts ==
  /\ pc = "prompt"
  /\ at' = <<con.x, con.y>>
  /\ con' = Con!print(con, Prompt, Len(Prompt))
  /\ pc' = "edit"
  /\ did' = <<>>
  /\ UNCHANGED <<keyboard, string>>

\* Where the prompt is after a character was printed on the console c.
PromptAfter(c) == IF Con!Scrolls(c, 1) THEN <<at[1], at[2] - CHAR_HEIGHT>> ELSE at

\* Mutated form of Erase: the cursor goes back, the character stays.
EraseNothing ==
  IF string = <<>> THEN UNCHANGED <<string, con, at>>
  ELSE /\ UNCHANGED at
       /\ string' = SubSeq(string, 1, Len(string) - 1)
       /\ con' = Con!setCursor(con, CHAR_WIDTH * (Len(string) + 6), SCREEN_HEIGHT - CHAR_HEIGHT)

\* Backspace: a space over the last character; the place is counted from
\* the left edge of the last line of the screen.
Erase ==
  IF string = <<>> THEN UNCHANGED <<string, con, at>>
  ELSE LET place(c) == Con!setCursor(c, CHAR_WIDTH * (Len(string) - 1 + 7),
                                     SCREEN_HEIGHT - CHAR_HEIGHT)
       IN  /\ string' = SubSeq(string, 1, Len(string) - 1)
           /\ con' = place(Con!printChar(place(con), " "))
           /\ at' = PromptAfter(place(con))

\* One round of the loop of shell: the first key of the buffer, if any.
Edits ==
  /\ pc = "edit"
  /\ getFirstInBuffer
  /\ LET c == buffer[0] IN
       CASE c = "\n" \/ (Len(string) = LINE_SIZE) ->
              pc' = "run" /\ UNCHANGED <<string, con, at>>
         [] c = "BACKSPACE" /\ Len(string) < LINE_SIZE -> Erase /\ UNCHANGED pc
         [] c = "nul" /\ Len(string) < LINE_SIZE -> UNCHANGED <<string, con, at, pc>>
         [] OTHER -> /\ string' = Append(string, c)
                     /\ con' = Con!printChar(con, c)
                     /\ at' = PromptAfter(con)
                     /\ UNCHANGED pc
  /\ UNCHANGED <<shift, did>>

-----------------------------------------------------------------------------
(* shell.c: the command *)

Known(word) == word \in DOMAIN Command

Is(word, kind) == Known(word) /\ kind \in Command[word].kinds

Says(text) == <<[does |-> text, name |-> "", background |-> FALSE, number |-> 0]>>

Runs(word, background) ==
  <<[does |-> "run", name |-> Command[word].name, background |-> background, number |-> 0]>>

\* Mutated form of standard_command_handler: everything runs in the
\* background if it is asked to.
RunsAll(word, background) ==
  IF Is(word, "program") THEN Runs(word, background) ELSE Says("command not found")

\* Programs that want the keyboard do not run in the background.
standard_command_handler(word, background) ==
  IF ~ Is(word, "program") THEN Says("command not found")
  ELSE IF background /\ Is(word, "foreground") THEN Says("requires user input")
  ELSE Runs(word, background)

\* Left of the pipe in the background, right of it in the foreground.
pipe_command_handler(app, target) ==
  IF ~ Is(app, "output") THEN Says("left not allowed")
  ELSE IF ~ Is(target, "input") THEN Says("right not allowed")
  ELSE standard_command_handler(app, TRUE) \o standard_command_handler(target, FALSE)

Does(word, number) ==
  <<[does |-> Command[word].name, name |-> "", background |-> FALSE, number |-> number]>>

argument_command_handler(word, target, arg) ==
  IF Is(word, "number")
  THEN IF isNumber(target) THEN Does(word, myAtoi(target)) ELSE Says("not a valid argument")
  ELSE IF Is(word, "two numbers")
  THEN IF arg # <<>> /\ isNumber(target) /\ isNumber(arg)
       THEN Does(word, myAtoi(target)) \o Does(word, myAtoi(arg)) ELSE Says("no argument")
  ELSE Says("command not found")

Handled(call) ==
  CASE call.handler = "standard" -> standard_command_handler(call.command, FALSE)
    [] call.handler = "background" -> standard_command_handler(call.command, TRUE)
    [] call.handler = "pipe" -> pipe_command_handler(call.command, call.target)
    [] call.handler = "argument" ->
         argument_command_handler(call.command, call.target, call.arg)
    [] OTHER -> Says("no argument")

\* What stands on the last line right of the prompt, without the blanks at
\* its end.
Shown ==
  LET text == [k \in 1 .. (SCREEN_WIDTH \div CHAR_WIDTH) |-> con.line[(k - 1) * CHAR_WIDTH]]
      last == CHOOSE n \in 0 .. Len(text) :
                /\ n = 0 \/ text[n] # " "
                /\ \A k \in n + 1 .. Len(text) : text[k] = " "
  IN  SubSeq(text, Len(Prompt) + 1, last)

Interprets ==
  /\ pc = "run"
  /\ LET call == interprete(string) IN
       did' = <<[line |-> string, call |-> call, effects |-> Handled(call)]>>
  /\ con' = Con!newLine(con)
  /\ string' = <<>>
  /\ pc' = "output"
  /\ UNCHANGED <<keyboard, at>>

BlackScreen(c) == [c EXCEPT !.line = Con!EmptyLine]

\* The digital clock paints the screen black, writes the time in big
\* characters until it is stopped, and goes back to the last line.
digitalClock(c) ==
  LET time[k \in 0 .. CLOCK_LENGTH] ==
        IF k = 0 THEN Con!setCursor(BlackScreen(c), CLOCK_X, CLOCK_Y)
        ELSE Con!printBigChar(time[k - 1], "#", BIG_FONT_SIZE)
  IN  Con!setCursor(BlackScreen(time[CLOCK_LENGTH]), 0, SCREEN_HEIGHT - CHAR_HEIGHT)

\* What programs write.
Outputs(c) == {Con!printChar(c, "#"), Con!newLine(c), digitalClock(c)}

\* The output of the command, and the shell's prompt after it.
Written ==
  LET upto[n \in 0 .. MaxOutput] ==
        IF n = 0 THEN {con} ELSE upto[n - 1] \cup UNION {Outputs(c) : c \in upto[n - 1]}
  IN  upto[MaxOutput]

CommandEnds ==
  /\ pc = "output"
  /\ con' \in Written
  /\ pc' = "prompt"
  /\ did' = <<>>
  /\ UNCHANGED <<keyboard, string, at>>

Init ==
  /\ shift = 0 /\ buffer = EmptyBuffer /\ buffer_index = 0 /\ typed = <<>> /\ ahead = FALSE
  /\ con = Con!clearScreen
  /\ string = <<>> /\ pc = "start" /\ at = <<0, 0>> /\ did = <<>>

Next ==
  \/ \E key \in DOMAIN unshifted_keys \cup {"LSHIFT_PRESS", "LSHIFT_RELEASE", "CAPSLOCK"} :
       PressShift(key) \/ PressKey(key)
  \/ ShellStarts \/ Prompts \/ Edits \/ Interprets \/ CommandEnds

Spec == Init /\ [][Next]_vars

-----------------------------------------------------------------------------
(* Properties *)

\* What there is to be seen on the screen.
Characters == {" ", "#"} \cup Range(Prompt) \cup Range(unshifted_keys) \cup Range(shifted_keys)

TypeOK ==
  /\ shift \in {0, 1} /\ buffer_index \in Places
  /\ string \in Seq(Characters) /\ Len(string) <= LINE_SIZE
  /\ pc \in {"start", "prompt", "edit", "run", "output"}
  /\ con.line \in [Con!Columns -> Characters]

\* The keyboard buffer is a string in every moment: its last place is empty,
\* as the comment in addtoBuffer asks, and there is no gap before the end.
BufferIsString ==
  /\ buffer[KEYBOARD_SIZE - 1] = "nul"
  /\ \A i \in Places \ {0} : buffer[i] # "nul" => buffer[i - 1] # "nul"

Content == [k \in 1 .. Pending |-> buffer[k - 1]]

\* Keys are read in the order in which they were pressed as long as nobody
\* types while what was typed before is half read, or types more than the
\* buffer holds; and in any case none is doubled or lost, but for the one
\* that a full buffer gives up.
KeysInOrder ==
  /\ ~ ahead => Content = typed
  /\ ToBag(Content) = ToBag(typed)

\* Nothing is drawn outside of the screen, where it would be in the next
\* row of pixels or behind the frame buffer, whatever was written before.
DrawsInside == TypeOK /\ con.right < SCREEN_WIDTH /\ con.bottom < SCREEN_HEIGHT

\* The prompt is where the shell thinks it is and the line is not longer than
\* the screen is wide, nor has been.
LineFits ==
  /\ PromptInPlace
  /\ CHAR_WIDTH * (Len(Prompt) + Len(string) + 1) <= SCREEN_WIDTH

Trimmed(s) ==
  SubSeq(s, 1, CHOOSE n \in 0 .. Len(s) :
    /\ n = 0 \/ s[n] # " "
    /\ \A k \in n + 1 .. Len(s) : s[k] = " ")

\* While a line is edited the screen shows what the shell has in its buffer, as
\* far as it fits.
EchoMatches == pc \in {"edit", "run"} /\ LineFits => Shown = Trimmed(string)

SingleSpaces(s) == \A k \in 2 .. Len(s) : ~ (s[k - 1] = " " /\ s[k] = " ")

\* Line, call and effects belong together.
AsMeant(d) ==
  LET numerals == {Trimmed(s) : s \in {d.call.target, d.call.arg}} IN
  /\ Means(d.line, d.call)
  /\ d.call.handler = "pipe" /\ (\E k \in DOMAIN d.effects : d.effects[k].does = "run") =>
       /\ DOMAIN d.effects = {1, 2} /\ \A k \in {1, 2} : d.effects[k].does = "run"
       /\ d.effects[1].background /\ ~ d.effects[2].background
  /\ \A k \in DOMAIN d.effects :
       LET e == d.effects[k] IN
       /\ e.does = "run" /\ e.background =>
            ~ \E w \in DOMAIN Command : e.name = Command[w].name /\ Is(w, "foreground")
       /\ e.does \in {"kill", "nice"} /\ SingleSpaces(d.line) =>
            \E n \in numerals :
              isNumber(n) /\ n # <<>> /\ (Value(n) <= INT_MAX => e.number = Value(n))

\* What is executed is the line that EchoMatches is about, taken apart as users
\* mean it: a pipe starts its left side in the background and nothing when a side is
\* not fit for it, programs that read keys never run in the background, and
\* the numbers are the ones that were typed.
ExecutesWhatIsShown == \A i \in DOMAIN did : AsMeant(did[i])

\* A number that myPrintf wrote is the number again when it is typed, as
\* the message of malloc asks users to do.
NumbersSurvive ==
  \A i \in DOMAIN did : \A k \in DOMAIN did[i].effects :
    LET n == did[i].effects[k].number IN
    n >= 0 => myAtoi(Tail(myPrintf(<<" ", "%d">>, <<n>>))) = n

=============================================================================
