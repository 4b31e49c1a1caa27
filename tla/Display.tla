------------------------------- MODULE Display -------------------------------
(***************************************************************************)
(* What the kernel promises of the screens: every terminal has a screen of  *)
(* its own with a place to write at.  A character goes there and moves it   *)
(* on, to the next row at the end of a row, and the screen scrolls at the   *)
(* end of the last; keys move the place, insert and rub out.  Whether the   *)
(* terminal is on the monitor makes no difference.                         *)
(***************************************************************************)
EXTENDS Integers

CONSTANTS NUM_PROCESSES, NUM_COLS, NUM_ROWS, Chars

Terms == 0 .. NUM_PROCESSES - 1
Cells == 0 .. NUM_ROWS * NUM_COLS - 1
Nul == "nul"
Space == "space"
NL == "nl"

VARIABLES cells,   \* cells[t][i]: the character in cell i of terminal t's screen
          x, y     \* where terminal t writes next

vars == <<cells, x, y>>

Init == /\ cells = [t \in Terms |-> [i \in Cells |-> Nul]]
        /\ x = [t \in Terms |-> 0] /\ y = [t \in Terms |-> 0]

Scrolled(page) == [i \in Cells |-> IF i + NUM_COLS \in Cells THEN page[i + NUM_COLS] ELSE Nul]

(* A screen with its place to write at. *)
Of(t) == [page |-> cells[t], x |-> x[t], y |-> y[t]]
Becomes(t, s) == /\ cells' = [cells EXCEPT ![t] = s.page]
                 /\ x' = [x EXCEPT ![t] = s.x] /\ y' = [y EXCEPT ![t] = s.y]

Place(s) == NUM_COLS * s.y + s.x
At(page, place) == [page |-> page, x |-> place % NUM_COLS, y |-> place \div NUM_COLS]

(* Writing goes on at a place that may be past the last cell. *)
GoOn(page, place) ==
  IF place \in Cells THEN At(page, place)
  ELSE [page |-> Scrolled(page), x |-> 0, y |-> NUM_ROWS - 1]

Put(s, c) == IF c = NL THEN GoOn(s.page, NUM_COLS * (s.y + 1))
             ELSE GoOn([s.page EXCEPT ![Place(s)] = c], Place(s) + 1)

Left(s)  == IF Place(s) = 0 THEN s ELSE At(s.page, Place(s) - 1)
Right(s) == IF Place(s) + 1 \in Cells THEN At(s.page, Place(s) + 1) ELSE s

(* The text from the place on makes room for c. *)
Insert(s, c) ==
  GoOn([i \in Cells |-> CASE i < Place(s) -> s.page[i]
                          [] i = Place(s) -> c
                          [] i > Place(s) -> s.page[i - 1]], Place(s) + 1)

(* The character before the place is taken away. *)
RubOut(s, c) == LET back == Left(s) IN [back EXCEPT !.page[Place(back)] = c]

Drawn(s, i, c) == [s EXCEPT !.page[i] = c]
Cleared == [page |-> [i \in Cells |-> Space], x |-> 0, y |-> 0]

Next == \E t \in Terms :
  \/ \E c \in Chars \cup {NL} : Becomes(t, Put(Of(t), c))
  \/ \E i \in Cells, c \in Chars : Becomes(t, Drawn(Of(t), i, c))
  \/ \E c \in Chars : Becomes(t, Insert(Of(t), c))
  \/ \E c \in {Nul, Space} : \/ Becomes(t, RubOut(Of(t), c))
                            \/ Becomes(t, Left(Put(Of(t), c)))
  \/ Becomes(t, Left(Of(t))) \/ Becomes(t, Right(Of(t)))
  \/ Becomes(t, Cleared)

Spec == Init /\ [][Next]_vars
=============================================================================
