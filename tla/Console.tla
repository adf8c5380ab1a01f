------------------------------ MODULE Console ------------------------------
(***************************************************************************)
(* The text console (naiveConsole.c): a cursor in pixels, what is written  *)
(* on the last line of the screen, the one the shell edits, and the right  *)
(* and bottom ends of what was ever drawn.  Every operator takes the       *)
(* console and gives the console afterwards.                               *)
(*                                                                         *)
(* Colours and shapes are left out: a character is in the column where its *)
(* left edge is.                                                           *)
(***************************************************************************)
EXTENDS Naturals

CONSTANTS
  SCREEN_WIDTH, SCREEN_HEIGHT,   \* of the video mode, 1024 by 768
  CHAR_WIDTH, CHAR_HEIGHT,       \* font.h:1-2, 8 by 16 in the code
  Blank                          \* a space, or nothing written yet

LAST_LINE == SCREEN_HEIGHT - CHAR_HEIGHT

Columns == 0 .. SCREEN_WIDTH - 1

EmptyLine == [x \in Columns |-> Blank]

setCursor(con, x, y) == [con EXCEPT !.x = x, !.y = y]

\* The last thing the kernel does to the console before it starts the shell.
clearScreen == [x |-> 0, y |-> 0, line |-> EmptyLine, right |-> 0, bottom |-> 0]

\* n times scrollUp: the last line is new.
Scrolled(con, n) == IF n = 0 THEN con ELSE [con EXCEPT !.line = EmptyLine]

\* Mutated form of Wrapped: the line is one character longer.
WrappedLate(con, size) ==
  IF con.x <= SCREEN_WIDTH THEN con
  ELSE IF con.y + CHAR_HEIGHT * size >= SCREEN_HEIGHT
  THEN setCursor(Scrolled(con, size), 0, SCREEN_HEIGHT - CHAR_HEIGHT * size)
  ELSE setCursor(con, 0, con.y + CHAR_HEIGHT * size)

\* No room for a character of that size: on to the next line, which may take
\* scrolling.
Wrapped(con, size) ==
  IF con.x + CHAR_WIDTH * size < SCREEN_WIDTH THEN con
  ELSE IF con.y + CHAR_HEIGHT * size >= SCREEN_HEIGHT
  THEN setCursor(Scrolled(con, size), 0, SCREEN_HEIGHT - CHAR_HEIGHT * size)
  ELSE setCursor(con, 0, con.y + CHAR_HEIGHT * size)

\* Going on to the next line takes scrolling.
Scrolls(con, size) ==
  con.x + CHAR_WIDTH * size >= SCREEN_WIDTH /\ con.y + CHAR_HEIGHT * size >= SCREEN_HEIGHT

\* A big character may fit in the line and not in what is left below.
Raised(con, size) ==
  IF con.y + CHAR_HEIGHT * size <= SCREEN_HEIGHT THEN con
  ELSE setCursor(Scrolled(con, size), con.x, SCREEN_HEIGHT - CHAR_HEIGHT * size)

AtLeast(m, n) == IF m < n THEN n ELSE m

\* The dots of a character begin one dot right of the cursor.
Inked(con, size) ==
  [con EXCEPT !.right = AtLeast(@, con.x + CHAR_WIDTH * size + size - 1),
              !.bottom = AtLeast(@, con.y + CHAR_HEIGHT * size - 1)]

Drawn(con, c, size) ==
  [Inked(con, size) EXCEPT !.x = @ + CHAR_WIDTH * size,
     !.line = IF con.y + CHAR_HEIGHT * size > LAST_LINE /\ con.x \in Columns
              THEN [@ EXCEPT ![con.x] = c] ELSE @]

printChar(con, c) == Drawn(Wrapped(con, 1), c, 1)

printBigChar(con, c, size) == Drawn(Raised(Wrapped(con, size), size), c, size)

\* print, printFormat: the text is a function on 1 .. n.
print(con, text, n) ==
  LET after[k \in 0 .. n] == IF k = 0 THEN con ELSE printChar(after[k - 1], text[k])
  IN  after[n]

\* The cursor goes right until it is in the next line, and back one column.
newLine(con) ==
  IF con.y < LAST_LINE THEN setCursor(con, 0, con.y + CHAR_HEIGHT)
                       ELSE setCursor(Scrolled(con, 1), 0, LAST_LINE)

=============================================================================
