------------------------------ MODULE Hotkeys -------------------------------
(***************************************************************************)
(* What a combo of the config means: Parse and parseKey of                 *)
(* internal/hotkey.  A combo is the sequence of its words, as they are     *)
(* once the text has been split at "+", trimmed and made lower case.       *)
(***************************************************************************)
EXTENDS Naturals, Sequences

Spelling ==
  [ModCtrl   |-> {"ctrl", "control"},
   ModShift  |-> {"shift"},
   ModOption |-> {"opt", "option", "alt"},
   ModCmd    |-> {"cmd", "command"}]

Modifier == DOMAIN Spelling

Letter == {"a", "b", "c", "d", "e", "f", "g", "h", "i", "j", "k", "l", "m",
           "n", "o", "p", "q", "r", "s", "t", "u", "v", "w", "x", "y", "z"}
Digit  == {"0", "1", "2", "3", "4", "5", "6", "7", "8", "9"}
Named  == {"space", "esc", "return", "tab", "left", "right", "up", "down",
           "f1", "f2", "f3", "f4", "f5"}
Key    == Letter \cup Digit \cup Named

(* Two keys have two names.                                                 *)
KeyOf(w) ==
  CASE w = "escape" -> "esc"
    [] w = "enter"  -> "return"
    [] OTHER        -> w

IsModifier(w) == \E m \in Modifier : w \in Spelling[m]

(* All but the last word are modifiers, at least one of them.               *)
WellFormed(words) ==
  /\ Len(words) >= 2
  /\ \A i \in 1..(Len(words) - 1) : IsModifier(words[i])
  /\ KeyOf(words[Len(words)]) \in Key

(* What Parse hands to the hotkey library: the key, and a modifier for each *)
(* of the other words, in their order and with their repetitions.           *)
Parsed == [mods : Seq(Modifier), key : Key]

Parse(words) ==
  LET n == Len(words)
  IN [mods |-> [i \in 1..(n - 1) |-> CHOOSE m \in Modifier : words[i] \in Spelling[m]],
      key  |-> KeyOf(words[n])]
=============================================================================
