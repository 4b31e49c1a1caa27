------------------------------- MODULE MCBlink -------------------------------
(* What fish adds, on a screen of three places: character 1 when it is lit, *)
(* 2 when it is not; length 0 and a place beyond the screen too.    *)
EXTENDS Blink

Blinker(l, on_length, off_length) ==
  [location |-> l, on_char |-> 1, off_char |-> 2, on_length |-> on_length, off_length |-> off_length]

Usual  == {Blinker(1, 2, 1), Blinker(2, 0, 1), Blinker(3, 1, 1)}
Corner == Usual \cup {Blinker(0, 1, 1)}
Slow   == {Blinker(1, 5, 1)}
=============================================================================
