----------------------------- MODULE MCCardReader -----------------------------
(* Swipes: a card whose check byte looks like a new line and one whose check *)
(* byte looks like an end, with an end and without; a text that is found     *)
(* whole and kept cut as the last token, and one that is found cut, as the   *)
(* card of the first.                                                        *)
EXTENDS CardReader

MCMessages ==
    { [bytes |-> Frame(5) \o <<End>>, token |-> <<5>>],
      [bytes |-> Frame(5), token |-> <<5>>],
      [bytes |-> Frame(6), token |-> <<6>>],
      [bytes |-> <<6, 7, Newline>>, token |-> <<6, 7>>],
      [bytes |-> <<6, 7, 4, Newline>>, token |-> <<6, 7, 4>>] }

\* A prompt that the card reader has too.
MCPlatformPrompts == {<<"unavailable", ShortGap>>}
=============================================================================
