----------------------------- MODULE MCTerminal -----------------------------
(* Instances of Terminal for TLC.                                          *)
EXTENDS Terminal

KeySet == {"6", "7", "space", "back", "enter"}

Unshifted ==
  [k \in KeySet |-> CASE k = "space" -> " " [] k = "back" -> "BACKSPACE"
                     [] k = "enter" -> "\n" [] OTHER -> k]

Shifted ==
  [k \in KeySet |-> CASE k = "6" -> "&" [] k = "7" -> "/" [] OTHER -> Unshifted[k]]

PressedKeys == <<KeySet, {"6", "7"}>>

PressedAt == [s \in {0, 1} |-> PressedKeys[s + 1]]

(* Commands with names of one or two characters. *)
Commands ==
  (<<"6", "6">> :> [name |-> "ps", kinds |-> {"program", "output"}]) @@
  (<<"6">> :> [name |-> "filter_vowels", kinds |-> {"program", "input"}]) @@
  (<<"6", "7">> :> [name |-> "prodcons", kinds |-> {"program", "foreground"}]) @@
  (<<"/">> :> [name |-> "digitalclock", kinds |-> {"program", "foreground", "input"}]) @@
  (<<"7">> :> [name |-> "kill", kinds |-> {"number"}]) @@
  (<<"&">> :> [name |-> "nice", kinds |-> {"two numbers"}])

=============================================================================
