---------------------------- MODULE ScreenProofs -----------------------------
(***************************************************************************)
(* The screens for any number of terminals and screens of any size: every   *)
(* terminal has the screen of its own that Display promises, although all   *)
(* share one monitor and one page-table entry.                              *)
(***************************************************************************)
EXTENDS Screen, TLAPS

(* What the refinement needs: background lines shorter than a row, the user *)
(* inserting in the last row only, and a screen of more than one cell.      *)
(* ScreenLongLine.cfg and ScreenInsert.cfg show what happens without the    *)
(* first two.                                                               *)
GoodLines == /\ LongLines = FALSE
             /\ InsertRows \subseteq {NUM_ROWS - 1}
             /\ NUM_ROWS * NUM_COLS > 1

Content == Chars \cup {Nul, Space}

(* The active terminal's page is the one mapped. *)
MapInv == mapped = PageOf(current_active_process)
Inv == TypeOK /\ MapInv

(* The screen of a page, and a view of it as Display has it. *)
Visible(pg) == [i \in Shown |-> pg[i]]
Abs(v) == [page |-> Visible(v.pg), x |-> v.x, y |-> v.y]

Views == [pg : [Cells -> Content], x : 0 .. NUM_COLS - 1, y : 0 .. NUM_ROWS - 1]

(* The record with these fields. *)
V(pg, x, y) == [pg |-> pg, x |-> x, y |-> y]
-----------------------------------------------------------------------------
(* Places. *)

(* The constants. *)
LEMMA ConstantFacts ==
  /\ NUM_PROCESSES \in Nat \ {0} /\ NUM_COLS \in Nat \ {0} /\ NUM_ROWS \in Nat \ {0}
  /\ NUM_ROWS * NUM_COLS \in Nat /\ NUM_COLS * NUM_ROWS = NUM_ROWS * NUM_COLS
  /\ Shown \subseteq Cells /\ Shown \subseteq Nat /\ NL \notin Content
  /\ Promise!Cells = Shown /\ Promise!Terms = Terms
  /\ Promise!NL = NL /\ Promise!Nul = Nul /\ Promise!Space = Space
<1>1. NUM_COLS \in Nat \ {0} /\ NUM_ROWS \in Nat \ {0} /\ Spare \in Nat /\ NUM_PROCESSES \in Nat \ {0}
  BY ScreenConstants
<1>2. NUM_ROWS * NUM_COLS \in Nat /\ NUM_COLS * NUM_ROWS = NUM_ROWS * NUM_COLS
  BY <1>1
<1> DEFINE n == NUM_ROWS * NUM_COLS
<1>3. n \in Nat
  BY <1>2
<1> HIDE DEF n
<1>4. 0 .. n - 1 \subseteq 0 .. n + Spare - 1 /\ 0 .. n - 1 \subseteq Nat
  BY <1>1, <1>3
<1>5. NL \notin Content
  BY ScreenConstants DEF Content, NL, Nul, Space
<1>6. QED
  BY <1>1, <1>2, <1>4, <1>5
  DEF n, Shown, Cells, Terms, NL, Nul, Space, Promise!Cells, Promise!Terms, Promise!NL, Promise!Nul, Promise!Space

(* A product grows with its second factor. *)
LEMMA Rows ==
  ASSUME NEW C \in Nat \ {0}, NEW y \in Nat, NEW z \in Nat, y < z
  PROVE  C * y \in Nat /\ C * z \in Nat /\ C * y + C <= C * z
<1>1. PICK d \in Nat : z = y + 1 + d
  <2>1. z - y - 1 \in Nat /\ z = y + 1 + (z - y - 1)
    OBVIOUS
  <2>2. QED
    BY <2>1
<1>2. C * z = C * y + C + C * d /\ C * d >= 0
  BY <1>1
<1>3. C * y \in Nat /\ C * z \in Nat /\ C * d \in Nat
  BY <1>1
<1>4. QED
  BY <1>2, <1>3

(* Quotient and remainder of a place are its row and column. *)
LEMMA PlaceParts ==
  ASSUME NEW y \in Nat, NEW x \in 0 .. NUM_COLS - 1
  PROVE  /\ NUM_COLS * y + x \in Nat
         /\ (NUM_COLS * y + x) % NUM_COLS = x /\ (NUM_COLS * y + x) \div NUM_COLS = y
<1> DEFINE C == NUM_COLS
           n == C * y + x
           q == n \div C
           r == n % C
<1>0. C \in Nat \ {0} /\ x \in 0 .. C - 1
  BY ConstantFacts
<1>1. n \in Nat /\ n = C * y + x /\ C * y \in Nat
  BY <1>0
<1> HIDE DEF n
<1>2. n = C * q + r /\ q \in Nat /\ r \in 0 .. C - 1
  BY <1>0, <1>1
<1> HIDE DEF q, r, C
<1>3. ~ (q < y)
  <2>1. ASSUME q < y PROVE FALSE
    <3>1. C * q \in Nat /\ C * q + C <= C * y
      BY <1>0, <1>2, <2>1, Rows
    <3>2. QED
      BY <1>0, <1>1, <1>2, <3>1
  <2>2. QED
    BY <2>1
<1>4. ~ (y < q)
  <2>1. ASSUME y < q PROVE FALSE
    <3>1. C * q \in Nat /\ C * y + C <= C * q
      BY <1>0, <1>2, <2>1, Rows
    <3>2. QED
      BY <1>0, <1>1, <1>2, <3>1
  <2>2. QED
    BY <2>1
<1>5. q = y
  BY <1>2, <1>3, <1>4
<1>6. r = x
  BY <1>0, <1>1, <1>2, <1>5
<1>7. QED
  BY <1>1, <1>5, <1>6 DEF n, q, r, C

(* The places of the rows shown are the cells shown. *)
LEMMA PlaceShown ==
  ASSUME NEW y \in Nat, NEW x \in 0 .. NUM_COLS - 1
  PROVE  NUM_COLS * y + x \in Shown <=> y < NUM_ROWS
<1> DEFINE C == NUM_COLS
           R == NUM_ROWS
<1>0. C \in Nat \ {0} /\ R \in Nat \ {0} /\ x \in 0 .. C - 1 /\ C * R \in Nat /\ C * y \in Nat
  BY ConstantFacts
<1>1. Shown = 0 .. C * R - 1
  BY ConstantFacts DEF Shown
<1> HIDE DEF C, R
<1>2. CASE y < R
  <2>1. C * y + C <= C * R
    BY <1>0, <1>2, Rows
  <2>2. QED
    BY <1>0, <1>1, <1>2, <2>1 DEF C, R
<1>3. CASE ~ (y < R)
  <2>1. C * R <= C * y
    <3>1. CASE y = R
      BY <1>0, <3>1
    <3>2. CASE R < y
      BY <1>0, <3>2, Rows
    <3>3. QED
      BY <1>0, <1>3, <3>1, <3>2
  <2>2. QED
    BY <1>0, <1>1, <1>3, <2>1 DEF C, R
<1>4. QED
  BY <1>2, <1>3

(* Display's going on at row y, column x. *)
LEMMA GoOnPlace ==
  ASSUME NEW pg, NEW y \in Nat, NEW x \in 0 .. NUM_COLS - 1
  PROVE  Promise!GoOn(pg, NUM_COLS * y + x) =
           IF y < NUM_ROWS THEN [page |-> pg, x |-> x, y |-> y]
           ELSE [page |-> Promise!Scrolled(pg), x |-> 0, y |-> NUM_ROWS - 1]
<1>1. NUM_COLS * y + x \in Promise!Cells <=> y < NUM_ROWS
  BY PlaceShown, ConstantFacts
<1>2. (NUM_COLS * y + x) % NUM_COLS = x /\ (NUM_COLS * y + x) \div NUM_COLS = y
  BY PlaceParts
<1> DEFINE n == NUM_COLS * y + x
<1>3. (n \in Promise!Cells <=> y < NUM_ROWS) /\ n % NUM_COLS = x /\ n \div NUM_COLS = y
  BY <1>1, <1>2
<1> HIDE DEF n
<1>4. Promise!GoOn(pg, n) = IF y < NUM_ROWS THEN [page |-> pg, x |-> x, y |-> y]
                            ELSE [page |-> Promise!Scrolled(pg), x |-> 0, y |-> NUM_ROWS - 1]
  BY <1>3, Zenon DEF Promise!GoOn, Promise!At
<1>5. QED
  BY <1>4 DEF n

(* Scrolling, seen through the screen. *)
LEMMA ScrolledVisible ==
  ASSUME NEW pg \in [Cells -> Content]
  PROVE  /\ ScrolledPage(pg) \in [Cells -> Content]
         /\ Visible(ScrolledPage(pg)) = Promise!Scrolled(Visible(pg))
<1>1. ScrolledPage(pg) \in [Cells -> Content]
  BY ConstantFacts DEF ScrolledPage, Content
<1>2. ASSUME NEW i \in Shown
      PROVE  ScrolledPage(pg)[i] = IF i + NUM_COLS \in Shown THEN Visible(pg)[i + NUM_COLS] ELSE Nul
  BY ConstantFacts DEF ScrolledPage, Visible
<1>3. Promise!Scrolled(Visible(pg)) =
        [i \in Shown |-> IF i + NUM_COLS \in Shown THEN Visible(pg)[i + NUM_COLS] ELSE Nul]
  BY ConstantFacts, Zenon DEF Promise!Scrolled
<1>4. Visible(ScrolledPage(pg)) =
        [i \in Shown |-> IF i + NUM_COLS \in Shown THEN Visible(pg)[i + NUM_COLS] ELSE Nul]
  <2> DEFINE s == ScrolledPage(pg)
             w == Visible(pg)
  <2>1. \A i \in Shown : s[i] = IF i + NUM_COLS \in Shown THEN w[i + NUM_COLS] ELSE Nul
    BY <1>2
  <2> HIDE DEF s, w
  <2>2. [i \in Shown |-> s[i]] = [i \in Shown |-> IF i + NUM_COLS \in Shown THEN w[i + NUM_COLS] ELSE Nul]
    BY <2>1
  <2>3. QED
    BY <2>2 DEF Visible, s, w
<1>5. QED
  BY <1>1, <1>3, <1>4

(* Where a view writes. *)
LEMMA ViewPlace ==
  ASSUME NEW v \in Views
  PROVE  /\ v.pg \in [Cells -> Content] /\ v.x \in 0 .. NUM_COLS - 1 /\ v.y \in 0 .. NUM_ROWS - 1
         /\ v.x \in Nat /\ v.y \in Nat /\ v.y < NUM_ROWS /\ v = V(v.pg, v.x, v.y)
         /\ NUM_COLS * v.y + v.x \in Shown /\ NUM_COLS * v.y + v.x \in Cells
         /\ Promise!Place(Abs(v)) = NUM_COLS * v.y + v.x
<1>1. /\ v.pg \in [Cells -> Content] /\ v.x \in 0 .. NUM_COLS - 1 /\ v.y \in 0 .. NUM_ROWS - 1
      /\ v = V(v.pg, v.x, v.y)
  BY DEF Views, V
<1>2. v.x \in Nat /\ v.y \in Nat /\ v.y < NUM_ROWS
  BY <1>1, ConstantFacts
<1>3. NUM_COLS * v.y + v.x \in Shown
  BY <1>1, <1>2, PlaceShown
<1>4. Promise!Place(Abs(v)) = NUM_COLS * v.y + v.x
  BY DEF Promise!Place, Abs
<1>5. QED
  BY <1>1, <1>2, <1>3, <1>4, ConstantFacts

(* A character written, seen through the screen. *)
LEMMA WrittenVisible ==
  ASSUME NEW pg \in [Cells -> Content], NEW n \in Shown, NEW c \in Content
  PROVE  /\ [pg EXCEPT ![n] = c] \in [Cells -> Content]
         /\ Visible([pg EXCEPT ![n] = c]) = [Visible(pg) EXCEPT ![n] = c]
<1>1. [pg EXCEPT ![n] = c] \in [Cells -> Content]
  BY ConstantFacts
<1>2. ASSUME NEW i \in Shown PROVE [pg EXCEPT ![n] = c][i] = IF i = n THEN c ELSE pg[i]
  BY ConstantFacts
<1>3. QED
  BY <1>1, <1>2 DEF Visible

(* The view a character leaves, when the row wraps as Display says. *)
LEMMA EmitAbs ==
  ASSUME NEW v \in Views, NEW c \in Content \cup {NL}, NEW wraps \in BOOLEAN,
         c # NL => (wraps <=> v.x + 1 >= NUM_COLS), c = NL => ~ wraps
  PROVE  Emit(v, c, wraps) \in Views /\ Abs(Emit(v, c, wraps)) = Promise!Put(Abs(v), c)
<1> DEFINE C == NUM_COLS
           R == NUM_ROWS
           n == NUM_COLS * v.y + v.x
           pg2 == [v.pg EXCEPT ![n] = c]
<1>0. /\ v.pg \in [Cells -> Content] /\ v.x \in 0 .. C - 1 /\ v.y \in 0 .. R - 1
      /\ v.x \in Nat /\ v.y \in Nat /\ v.y < R /\ n \in Shown /\ n \in Cells
      /\ Promise!Place(Abs(v)) = n
  BY ViewPlace
<1>1. C \in Nat \ {0} /\ R \in Nat \ {0} /\ 0 \in 0 .. C - 1 /\ R - 1 \in 0 .. R - 1
  BY ConstantFacts
<1>2. Abs(v).page = Visible(v.pg) /\ Abs(v).y = v.y /\ Promise!NL = NL
  BY ConstantFacts DEF Abs
<1>3. ASSUME NEW p \in [Cells -> Content], NEW a \in 0 .. C - 1, NEW b \in 0 .. R - 1
      PROVE  V(p, a, b) \in Views /\ Abs(V(p, a, b)) = [page |-> Visible(p), x |-> a, y |-> b]
  BY DEF V, Views, Abs
<1>4. ASSUME NEW p \in [Cells -> Content]
      PROVE  /\ V(ScrolledPage(p), 0, R - 1) \in Views
             /\ Abs(V(ScrolledPage(p), 0, R - 1)) =
                   [page |-> Promise!Scrolled(Visible(p)), x |-> 0, y |-> R - 1]
  <2>1. ScrolledPage(p) \in [Cells -> Content] /\ Visible(ScrolledPage(p)) = Promise!Scrolled(Visible(p))
    BY ScrolledVisible
  <2>2. QED
    BY <1>1, <1>3, <2>1
<1>5. CASE c = NL
  <2> DEFINE row == v.y + 1
  <2>1. Emit(v, c, wraps) = IF row >= R THEN V(ScrolledPage(v.pg), 0, R - 1) ELSE V(v.pg, 0, row)
    <3>1. v.y + 1 + 0 = v.y + 1
      BY <1>0
    <3>2. QED
      BY <1>5, <3>1 DEF Emit, ColumnAfter, V
  <2>2. Promise!Put(Abs(v), c) = Promise!GoOn(Visible(v.pg), C * row + 0)
    <3>1. C * row \in Nat /\ C * row + 0 = C * row
      BY <1>0, <1>1
    <3>2. QED
      BY <1>2, <1>5, <3>1 DEF Promise!Put
  <2>3. row \in Nat /\ (row >= R <=> ~ (row < R))
    BY <1>0, <1>1
  <2>4. Promise!GoOn(Visible(v.pg), C * row + 0) =
          IF row < R THEN [page |-> Visible(v.pg), x |-> 0, y |-> row]
          ELSE [page |-> Promise!Scrolled(Visible(v.pg)), x |-> 0, y |-> R - 1]
    BY <1>1, <2>3, GoOnPlace
  <2>5. row < R => row \in 0 .. R - 1
    BY <1>0, <1>1
  <2> HIDE DEF row
  <2>6. CASE row < R
    BY <1>0, <1>1, <1>3, <2>1, <2>2, <2>3, <2>4, <2>5, <2>6
  <2>7. CASE ~ (row < R)
    BY <1>0, <1>4, <2>1, <2>2, <2>3, <2>4, <2>7
  <2>8. QED
    BY <2>6, <2>7
<1>6. CASE c # NL
  <2>0. c \in Content
    BY <1>6
  <2>1. pg2 \in [Cells -> Content] /\ Visible(pg2) = [Visible(v.pg) EXCEPT ![n] = c]
    BY <1>0, <2>0, WrittenVisible
  <2>2. Promise!Put(Abs(v), c) = Promise!GoOn(Visible(pg2), n + 1)
    BY <1>0, <1>2, <1>6, <2>1 DEF Promise!Put
  <2>3. Emit(v, c, wraps) =
          LET row == v.y + (IF wraps THEN 1 ELSE 0)
          IN IF row >= R THEN V(ScrolledPage(pg2), 0, R - 1) ELSE V(pg2, IF wraps THEN 0 ELSE v.x + 1, row)
    <3>1. v.y + 0 = v.y
      BY <1>0
    <3>2. QED
      BY <1>0, <1>6, <3>1 DEF Emit, ColumnAfter, V
  <2> HIDE DEF pg2
  <2>4. CASE ~ wraps
    <3>1. v.x + 1 \in 0 .. C - 1 /\ v.y + 0 = v.y /\ ~ (v.y >= R)
      BY <1>0, <1>1, <1>6, <2>4
    <3>2. Emit(v, c, wraps) = V(pg2, v.x + 1, v.y)
      BY <2>3, <2>4, <3>1
    <3>3. n + 1 = C * v.y + (v.x + 1)
      BY <1>0, <1>1
    <3>4. Promise!GoOn(Visible(pg2), C * v.y + (v.x + 1)) = [page |-> Visible(pg2), x |-> v.x + 1, y |-> v.y]
      BY <1>0, <3>1, GoOnPlace
    <3>5. QED
      BY <1>0, <1>3, <2>1, <2>2, <3>1, <3>2, <3>3, <3>4
  <2>5. CASE wraps
    <3> DEFINE row == v.y + 1
    <3>1. v.x + 1 = C /\ row \in Nat /\ (row >= R <=> ~ (row < R)) /\ (row < R => row \in 0 .. R - 1)
      BY <1>0, <1>1, <1>6, <2>5
    <3>2. Emit(v, c, wraps) = IF row >= R THEN V(ScrolledPage(pg2), 0, R - 1) ELSE V(pg2, 0, row)
      BY <2>3, <2>5
    <3>3. n + 1 = C * row + 0
      BY <1>0, <1>1, <3>1
    <3>4. Promise!GoOn(Visible(pg2), C * row + 0) =
            IF row < R THEN [page |-> Visible(pg2), x |-> 0, y |-> row]
            ELSE [page |-> Promise!Scrolled(Visible(pg2)), x |-> 0, y |-> R - 1]
      BY <1>1, <3>1, GoOnPlace
    <3> HIDE DEF row
    <3>5. CASE row < R
      BY <1>1, <1>3, <2>1, <2>2, <3>1, <3>2, <3>3, <3>4, <3>5
    <3>6. CASE ~ (row < R)
      BY <1>4, <2>1, <2>2, <3>1, <3>2, <3>3, <3>4, <3>6
    <3>7. QED
      BY <3>5, <3>6
  <2>6. QED
    BY <2>4, <2>5
<1>7. QED
  BY <1>5, <1>6
-----------------------------------------------------------------------------
(* Every operation on a view is the one Display names. *)

(* putc, on the monitor. *)
LEMMA PutcAbs ==
  ASSUME NEW v \in Views, NEW c \in Content \cup {NL}
  PROVE  putc(v, c) \in Views /\ Abs(putc(v, c)) = Promise!Put(Abs(v), c)
<1> DEFINE wraps == ColumnAfter(v, c) >= NUM_COLS
<1>1. wraps \in BOOLEAN /\ putc(v, c) = Emit(v, c, wraps)
  BY DEF putc
<1>2. c # NL => (wraps <=> v.x + 1 >= NUM_COLS)
  BY DEF ColumnAfter
<1>3. c = NL => ~ wraps
  BY ConstantFacts DEF ColumnAfter
<1> HIDE DEF wraps
<1>4. QED
  BY <1>1, <1>2, <1>3, EmitAbs

(* mt_putc, in the background, on a line shorter than a row: the column of  *)
(* the terminal on the monitor never asks for a new row.                    *)
LEMMA HiddenPutcAbs ==
  ASSUME TypeOK, NEW v \in Views, NEW c \in Content \cup {NL}, c = NL \/ v.x + 1 < NUM_COLS
  PROVE  mt_putc(v, c) \in Views /\ Abs(mt_putc(v, c)) = Promise!Put(Abs(v), c)
<1>1. ~ (screen_x[current_terminal] >= NUM_COLS)
  <2>1. screen_x[current_terminal] \in 0 .. NUM_COLS - 1
    BY DEF TypeOK
  <2>2. QED
    BY <2>1, ConstantFacts
<1>2. mt_putc(v, c) = Emit(v, c, FALSE)
  <2>1. (screen_x[current_terminal] >= NUM_COLS) = FALSE
    BY <1>1
  <2>2. QED
    BY <2>1, Zenon DEF mt_putc
<1>3. v.x \in Nat /\ (c # NL => (FALSE <=> v.x + 1 >= NUM_COLS)) /\ FALSE \in BOOLEAN
  BY ViewPlace, ConstantFacts
<1>4. QED
  BY <1>2, <1>3, EmitAbs

(* Row and column of a place, and back. *)
LEMMA AtPlace ==
  ASSUME NEW pg, NEW y \in Nat, NEW x \in 0 .. NUM_COLS - 1
  PROVE  Promise!At(pg, NUM_COLS * y + x) = [page |-> pg, x |-> x, y |-> y]
  BY PlaceParts DEF Promise!At

(* The place of what Display has at a place. *)
LEMMA PlaceOfAt ==
  ASSUME NEW pg, NEW n \in Nat
  PROVE  Promise!Place(Promise!At(pg, n)) = n /\ Promise!At(pg, n).page = pg
<1>1. NUM_COLS * (n \div NUM_COLS) + (n % NUM_COLS) = n
  BY ConstantFacts
<1>2. QED
  BY <1>1 DEF Promise!Place, Promise!At

(* A view with another row and column. *)
LEMMA RowChanged ==
  ASSUME NEW v \in Views, NEW a
  PROVE  /\ [v EXCEPT !.x = a, !.y = @ - 1] = V(v.pg, a, v.y - 1)
         /\ [v EXCEPT !.x = a, !.y = @ + 1] = V(v.pg, a, v.y + 1)
<1>1. ASSUME NEW b PROVE [v EXCEPT !.x = a, !.y = b] = V(v.pg, a, b)
  <2> DEFINE w == [v EXCEPT !.x = a]
  <2>1. w = V(v.pg, a, v.y)
    BY DEF Views, V
  <2> HIDE DEF w
  <2>2. [w EXCEPT !.y = b] = V(v.pg, a, b)
    BY <2>1 DEF V
  <2>3. QED
    BY <2>2 DEF w
<1>2. QED
  BY <1>1

(* The cursor to the left. *)
LEMMA LeftAbs ==
  ASSUME NEW v \in Views
  PROVE  move_left(v) \in Views /\ Abs(move_left(v)) = Promise!Left(Abs(v))
<1> DEFINE C == NUM_COLS
           n == NUM_COLS * v.y + v.x
<1>0. /\ v.pg \in [Cells -> Content] /\ v.x \in 0 .. C - 1 /\ v.y \in 0 .. NUM_ROWS - 1
      /\ v.x \in Nat /\ v.y \in Nat /\ v = V(v.pg, v.x, v.y) /\ Promise!Place(Abs(v)) = n
      /\ C \in Nat \ {0} /\ NUM_ROWS \in Nat \ {0} /\ Abs(v).page = Visible(v.pg)
  BY ViewPlace, ConstantFacts DEF Abs
<1>1. ASSUME NEW a \in 0 .. C - 1, NEW b \in 0 .. NUM_ROWS - 1, n # 0, n - 1 = C * b + a,
             move_left(v) = V(v.pg, a, b)
      PROVE  move_left(v) \in Views /\ Abs(move_left(v)) = Promise!Left(Abs(v))
  <2>1. V(v.pg, a, b) \in Views /\ Abs(V(v.pg, a, b)) = [page |-> Visible(v.pg), x |-> a, y |-> b]
    BY <1>0 DEF V, Views, Abs
  <2>2. b \in Nat
    BY <1>0
  <2>3. Promise!At(Visible(v.pg), C * b + a) = [page |-> Visible(v.pg), x |-> a, y |-> b]
    BY <2>2, AtPlace
  <2>4. Promise!Left(Abs(v)) = Promise!At(Visible(v.pg), n - 1)
    BY <1>0, <1>1 DEF Promise!Left
  <2>5. QED
    BY <1>1, <2>1, <2>3, <2>4
<1>2. CASE v.x > 0
  <2>1. move_left(v) = V(v.pg, v.x - 1, v.y)
    BY <1>0, <1>2 DEF move_left, V
  <2>2. C * v.y \in Nat
    BY <1>0
  <2>3. n # 0 /\ n - 1 = C * v.y + (v.x - 1) /\ v.x - 1 \in 0 .. C - 1
    BY <1>0, <1>2, <2>2
  <2>4. QED
    BY <1>0, <1>1, <2>1, <2>3
<1>3. CASE v.x = 0 /\ v.y > 0
  <2>1. move_left(v) = V(v.pg, C - 1, v.y - 1)
    <3>1. move_left(v) = [v EXCEPT !.x = C - 1, !.y = @ - 1]
      BY <1>0, <1>3 DEF move_left
    <3>2. QED
      BY <3>1, RowChanged
  <2>2. v.y - 1 \in Nat /\ C * (v.y - 1) \in Nat /\ C * v.y = C * (v.y - 1) + C
    BY <1>0, <1>3
  <2>3. n # 0 /\ n - 1 = C * (v.y - 1) + (C - 1) /\ C - 1 \in 0 .. C - 1 /\ v.y - 1 \in 0 .. NUM_ROWS - 1
    BY <1>0, <1>3, <2>2
  <2>4. QED
    BY <1>0, <1>1, <2>1, <2>3
<1>4. CASE v.x = 0 /\ v.y = 0
  <2>1. n = 0 /\ move_left(v) = v
    BY <1>0, <1>4 DEF move_left
  <2>2. QED
    BY <1>0, <2>1 DEF Promise!Left
<1>5. QED
  BY <1>0, <1>2, <1>3, <1>4

(* The cursor to the right. *)
LEMMA RightAbs ==
  ASSUME NEW v \in Views
  PROVE  move_right(v) \in Views /\ Abs(move_right(v)) = Promise!Right(Abs(v))
<1> DEFINE C == NUM_COLS
           R == NUM_ROWS
           n == NUM_COLS * v.y + v.x
<1>0. /\ v.pg \in [Cells -> Content] /\ v.x \in 0 .. C - 1 /\ v.y \in 0 .. R - 1
      /\ v.x \in Nat /\ v.y \in Nat /\ v.y < R /\ v = V(v.pg, v.x, v.y) /\ Promise!Place(Abs(v)) = n
      /\ C \in Nat \ {0} /\ R \in Nat \ {0} /\ Abs(v).page = Visible(v.pg)
      /\ Promise!Cells = Shown
  BY ViewPlace, ConstantFacts DEF Abs
<1>1. ASSUME NEW a \in 0 .. C - 1, NEW b \in 0 .. R - 1, n + 1 = C * b + a,
             move_right(v) = V(v.pg, a, b)
      PROVE  move_right(v) \in Views /\ Abs(move_right(v)) = Promise!Right(Abs(v))
  <2>1. V(v.pg, a, b) \in Views /\ Abs(V(v.pg, a, b)) = [page |-> Visible(v.pg), x |-> a, y |-> b]
    BY <1>0 DEF V, Views, Abs
  <2>2. b \in Nat /\ b < R
    BY <1>0
  <2>3. Promise!At(Visible(v.pg), C * b + a) = [page |-> Visible(v.pg), x |-> a, y |-> b]
    BY <2>2, AtPlace
  <2>4. n + 1 \in Shown
    BY <1>1, <2>2, PlaceShown
  <2>5. Promise!Right(Abs(v)) = Promise!At(Visible(v.pg), n + 1)
    BY <1>0, <2>4 DEF Promise!Right
  <2>6. QED
    BY <1>1, <2>1, <2>3, <2>5
<1>2. CASE v.x < C - 1
  <2>1. move_right(v) = V(v.pg, v.x + 1, v.y)
    BY <1>0, <1>2 DEF move_right, V
  <2>2. C * v.y \in Nat
    BY <1>0
  <2>3. n + 1 = C * v.y + (v.x + 1) /\ v.x + 1 \in 0 .. C - 1
    BY <1>0, <1>2, <2>2
  <2>4. QED
    BY <1>0, <1>1, <2>1, <2>3
<1>3. CASE v.x = C - 1
  <2>1. v.y + 1 \in Nat /\ C * v.y \in Nat /\ C * (v.y + 1) = C * v.y + C /\ 0 \in 0 .. C - 1
    BY <1>0
  <2>2. n + 1 = C * (v.y + 1) + 0
    BY <1>0, <1>3, <2>1
  <2>3. CASE v.y < R - 1
    <3>1. move_right(v) = V(v.pg, 0, v.y + 1)
      <4>1. move_right(v) = [v EXCEPT !.x = 0, !.y = @ + 1]
        BY <1>0, <1>3, <2>3 DEF move_right
      <4>2. QED
        BY <4>1, RowChanged
    <3>2. v.y + 1 \in 0 .. R - 1
      BY <1>0, <2>3
    <3>3. QED
      BY <1>1, <2>1, <2>2, <3>1, <3>2
  <2>4. CASE ~ (v.y < R - 1)
    <3>1. move_right(v) = v /\ ~ (v.y + 1 < R)
      BY <1>0, <1>3, <2>4 DEF move_right
    <3>2. n + 1 \notin Shown
      BY <2>1, <2>2, <3>1, PlaceShown
    <3>3. QED
      BY <1>0, <3>1, <3>2 DEF Promise!Right
  <2>5. QED
    BY <2>3, <2>4
<1>4. QED
  BY <1>0, <1>2, <1>3

(* A character written where the next place is still on the screen, and the *)
(* cursor back on it.                                                       *)
LEMMA LeftOfPut ==
  ASSUME NEW w \in Views, NEW c \in Content, Promise!Place(Abs(w)) + 1 \in Shown
  PROVE  Promise!Left(Promise!Put(Abs(w), c)) = [Abs(w) EXCEPT !.page[Promise!Place(Abs(w))] = c]
<1> DEFINE n == Promise!Place(Abs(w))
           pg2 == [Visible(w.pg) EXCEPT ![n] = c]
<1>0. /\ n = NUM_COLS * w.y + w.x /\ n \in Nat /\ w.y \in Nat /\ w.x \in 0 .. NUM_COLS - 1
      /\ Promise!Cells = Shown /\ Promise!NL = NL /\ c # NL
  BY ViewPlace, ConstantFacts
<1>1. Abs(w).page = Visible(w.pg) /\ Abs(w) = [page |-> Visible(w.pg), x |-> w.x, y |-> w.y]
  BY DEF Abs
<1>2. n + 1 \in Shown
  OBVIOUS
<1> HIDE DEF n
<1>3. Promise!Put(Abs(w), c) = Promise!At(pg2, n + 1)
  BY <1>0, <1>1, <1>2 DEF Promise!Put, Promise!GoOn, n
<1>4. Promise!Place(Promise!At(pg2, n + 1)) = n + 1 /\ Promise!At(pg2, n + 1).page = pg2
  <2>1. n + 1 \in Nat
    BY <1>0
  <2>2. QED
    BY <2>1, PlaceOfAt
<1> HIDE DEF pg2
<1>5. Promise!Left(Promise!At(pg2, n + 1)) = Promise!At(pg2, n)
  <2>1. n + 1 # 0 /\ (n + 1) - 1 = n
    BY <1>0
  <2>2. QED
    BY <1>4, <2>1 DEF Promise!Left
<1>6. Promise!At(pg2, n) = [page |-> pg2, x |-> w.x, y |-> w.y]
  BY <1>0, AtPlace
<1>7. [Abs(w) EXCEPT !.page[n] = c] = [page |-> pg2, x |-> w.x, y |-> w.y]
  BY <1>1 DEF pg2
<1>8. QED
  BY <1>3, <1>5, <1>6, <1>7 DEF n

(* Backspace after the first character. *)
LEMMA RubOutAbs ==
  ASSUME GoodLines, NEW v \in Views, NEW c \in {Nul, Space}
  PROVE  LET w == move_left(putc(move_left(v), c)) IN
         w \in Views /\ Abs(w) = Promise!RubOut(Abs(v), c)
<1> DEFINE b == move_left(v)
           back == Promise!Left(Abs(v))
<1>0. c \in Content /\ c \in Content \cup {NL}
  BY DEF Content
<1>1. b \in Views /\ Abs(b) = back
  BY LeftAbs
<1>2. Promise!Place(back) + 1 \in Shown
  <2> DEFINE n == Promise!Place(Abs(v))
  <2>1. n \in Shown /\ n \in Nat
    BY ViewPlace, ConstantFacts
  <2>2. CASE n = 0
    <3>1. back = Abs(v)
      BY <2>2 DEF Promise!Left
    <3>2. 0 + 1 \in Shown
      BY ConstantFacts DEF GoodLines, Shown
    <3>3. QED
      BY <2>2, <3>1, <3>2
  <2>3. CASE n # 0
    <3>1. n - 1 \in Nat /\ (n - 1) + 1 = n
      BY <2>1, <2>3
    <3>2. back = Promise!At(Abs(v).page, n - 1)
      BY <2>3 DEF Promise!Left
    <3> HIDE DEF n, back
    <3>3. Promise!Place(back) = n - 1
      BY <3>1, <3>2, PlaceOfAt
    <3>4. QED
      BY <2>1, <3>1, <3>3
  <2>4. QED
    BY <2>2, <2>3
<1> HIDE DEF b
<1>3. putc(b, c) \in Views /\ Abs(putc(b, c)) = Promise!Put(Abs(b), c)
  BY <1>0, <1>1, PutcAbs
<1>4. move_left(putc(b, c)) \in Views /\ Abs(move_left(putc(b, c))) = Promise!Left(Promise!Put(Abs(b), c))
  BY <1>3, LeftAbs
<1>5. Promise!Left(Promise!Put(Abs(b), c)) = [Abs(b) EXCEPT !.page[Promise!Place(Abs(b))] = c]
  BY <1>0, <1>1, <1>2, LeftOfPut
<1>6. Promise!RubOut(Abs(v), c) = [back EXCEPT !.page[Promise!Place(back)] = c]
  BY DEF Promise!RubOut
<1>7. QED
  BY <1>1, <1>4, <1>5, <1>6 DEF b

(* scoot_text in the last row moves the cells after the cursor. *)
LEMMA ScootLast ==
  ASSUME NEW v \in Views, v.y = NUM_ROWS - 1
  PROVE  /\ scoot_text(v) \in Views /\ scoot_text(v).x = v.x /\ scoot_text(v).y = v.y
         /\ \A i \in Shown : scoot_text(v).pg[i] =
               IF i > NUM_COLS * v.y + v.x THEN v.pg[i - 1] ELSE v.pg[i]
<1> DEFINE C == NUM_COLS
           R == NUM_ROWS
           n == C * v.y + v.x
           pg2 == [i \in Cells |->
                     LET r == i \div NUM_COLS  k == i % NUM_COLS
                     IN CASE i \notin Shown                   -> v.pg[i]
                          [] i \in Shown /\ r > v.y /\ k <= 1  -> v.pg[NUM_COLS * r - 1]
                          [] i \in Shown /\ r > v.y /\ k > 1   -> v.pg[i - 1]
                          [] i \in Shown /\ r = v.y /\ k > v.x -> v.pg[i - 1]
                          [] OTHER                            -> v.pg[i]]
<1>0. /\ v.pg \in [Cells -> Content] /\ v.x \in 0 .. C - 1 /\ v.y \in 0 .. R - 1
      /\ v.x \in Nat /\ v.y \in Nat /\ v = V(v.pg, v.x, v.y) /\ n \in Shown
      /\ C \in Nat \ {0} /\ R \in Nat \ {0} /\ Shown \subseteq Cells /\ Shown \subseteq Nat
  BY ViewPlace, ConstantFacts
<1>1. scoot_text(v) = V(pg2, v.x, v.y)
  <2>1. scoot_text(v) = [v EXCEPT !.pg = pg2]
    BY DEF scoot_text
  <2> HIDE DEF pg2
  <2>2. [v EXCEPT !.pg = pg2] = V(pg2, v.x, v.y)
    BY DEF Views, V
  <2>3. QED
    BY <2>1, <2>2
<1>2. ASSUME NEW i \in Shown
      PROVE  /\ i \div C \in Nat /\ i % C \in 0 .. C - 1 /\ i = C * (i \div C) + (i % C)
             /\ ~ (i \div C > v.y)
             /\ i > n <=> i \div C = v.y /\ i % C > v.x
  <2> DEFINE r == i \div C
             k == i % C
  <2>1. i \in Nat
    BY <1>0
  <2>2. r \in Nat /\ k \in 0 .. C - 1 /\ i = C * r + k
    BY <1>0, <2>1
  <2> HIDE DEF r, k
  <2>3. r < R
    BY <2>2, PlaceShown
  <2>4. ~ (r > v.y)
    BY <1>0, <2>2, <2>3
  <2>5. i > n <=> r = v.y /\ k > v.x
    <3>1. CASE r = v.y
      <4>1. C * v.y \in Nat
        BY <1>0
      <4>2. QED
        BY <1>0, <2>2, <3>1, <4>1
    <3>2. CASE r < v.y
      <4>1. C * r \in Nat /\ C * v.y \in Nat /\ C * r + C <= C * v.y
        BY <1>0, <2>2, <3>2, Rows
      <4>2. QED
        BY <1>0, <2>2, <3>2, <4>1
    <3>3. QED
      BY <1>0, <2>2, <2>4, <3>1, <3>2
  <2>6. QED
    BY <2>2, <2>4, <2>5 DEF r, k
<1>3. ASSUME NEW i \in Shown PROVE pg2[i] = IF i > n THEN v.pg[i - 1] ELSE v.pg[i]
  <2>1. i \in Cells
    BY <1>0
  <2>2. ~ (i \div C > v.y) /\ (i > n <=> i \div C = v.y /\ i % C > v.x)
    BY <1>2
  <2> HIDE DEF n
  <2>3. QED
    BY <2>1, <2>2
<1>4. ASSUME NEW i \in Cells PROVE pg2[i] \in Content
  <2>1. CASE i \notin Shown
    BY <1>0, <2>1
  <2>2. CASE i \in Shown
    <3>1. i > n => i - 1 \in Shown
      <4>1. i \in Nat /\ n \in Nat
        BY <1>0, <2>2
      <4>2. ASSUME i > n PROVE i - 1 \in Nat
        BY <4>1, <4>2
      <4>3. QED
        BY <2>2, <4>1, <4>2, ConstantFacts DEF Shown
    <3>2. pg2[i] = IF i > n THEN v.pg[i - 1] ELSE v.pg[i]
      BY <1>3, <2>2
    <3> HIDE DEF pg2, n
    <3>3. QED
      BY <1>0, <2>2, <3>1, <3>2
  <2>3. QED
    BY <2>1, <2>2
<1>5. pg2 \in [Cells -> Content]
  <2>1. pg2 = [i \in Cells |-> pg2[i]]
    OBVIOUS
  <2> HIDE DEF pg2
  <2>2. QED
    BY <1>4, <2>1
<1> HIDE DEF pg2
<1>6. scoot_text(v) \in Views /\ scoot_text(v).x = v.x /\ scoot_text(v).y = v.y /\ scoot_text(v).pg = pg2
  BY <1>0, <1>1, <1>5 DEF V, Views
<1>7. QED
  BY <1>3, <1>6

(* A character inserted in the last row. *)
LEMMA InsertAbs ==
  ASSUME NEW v \in Views, v.y = NUM_ROWS - 1, NEW c \in Chars
  PROVE  LET w == putc(scoot_text(v), c) IN
         w \in Views /\ Abs(w) = Promise!Insert(Abs(v), c)
<1> DEFINE s == scoot_text(v)
           n == NUM_COLS * v.y + v.x
           f == [i \in Shown |-> CASE i < n -> Abs(v).page[i]
                                   [] i = n -> c
                                   [] i > n -> Abs(v).page[i - 1]]
<1>0. s \in Views /\ s.x = v.x /\ s.y = v.y
      /\ \A i \in Shown : s.pg[i] = IF i > n THEN v.pg[i - 1] ELSE v.pg[i]
  BY ScootLast
<1>1. /\ c \in Content /\ c \in Content \cup {NL} /\ c # NL /\ Promise!NL = NL
      /\ n \in Shown /\ n \in Nat /\ Shown \subseteq Nat /\ Promise!Cells = Shown
  BY ViewPlace, ConstantFacts DEF Content
<1> HIDE DEF s, n
<1>2. putc(s, c) \in Views /\ Abs(putc(s, c)) = Promise!Put(Abs(s), c)
  BY <1>0, <1>1, PutcAbs
<1>3. Promise!Place(Abs(s)) = n /\ Promise!Place(Abs(v)) = n
  BY <1>0 DEF Promise!Place, Abs, n
<1>4. Promise!Put(Abs(s), c) = Promise!GoOn([Visible(s.pg) EXCEPT ![n] = c], n + 1)
  BY <1>1, <1>3 DEF Promise!Put, Abs
<1>5. Promise!Insert(Abs(v), c) = Promise!GoOn(f, n + 1)
  BY <1>1, <1>3 DEF Promise!Insert
<1>6. [Visible(s.pg) EXCEPT ![n] = c] = f
  <2> DEFINE g == [Visible(s.pg) EXCEPT ![n] = c]
  <2>1. g = [i \in Shown |-> g[i]] /\ \A i \in Shown : g[i] = IF i = n THEN c ELSE s.pg[i]
    BY DEF Visible
  <2>2. ASSUME NEW i \in Shown
        PROVE  g[i] = CASE i < n -> Abs(v).page[i] [] i = n -> c [] i > n -> Abs(v).page[i - 1]
    <3>0. i \in Nat
      BY <1>1
    <3>1. CASE i < n
      <4>1. ~ (i > n) /\ i # n
        BY <1>1, <3>0, <3>1
      <4>2. g[i] = v.pg[i] /\ Abs(v).page[i] = v.pg[i]
        BY <1>0, <2>1, <4>1 DEF Abs, Visible
      <4> HIDE DEF g
      <4>3. QED
        BY <3>1, <4>1, <4>2
    <3>2. CASE i = n
      <4>1. ~ (i > n) /\ ~ (i < n) /\ g[i] = c
        BY <1>1, <2>1, <3>2
      <4> HIDE DEF g
      <4>2. QED
        BY <3>2, <4>1
    <3>3. CASE i > n
      <4>1. i - 1 \in Shown /\ ~ (i < n) /\ i # n
        <5>1. i - 1 \in Nat /\ ~ (i < n) /\ i # n
          BY <1>1, <3>0, <3>3
        <5>2. QED
          BY <3>0, <5>1, ConstantFacts DEF Shown
      <4>2. g[i] = v.pg[i - 1] /\ Abs(v).page[i - 1] = v.pg[i - 1]
        BY <1>0, <2>1, <3>3, <4>1 DEF Abs, Visible
      <4> HIDE DEF g
      <4>3. QED
        BY <3>3, <4>1, <4>2
    <3>4. QED
      BY <1>1, <3>0, <3>1, <3>2, <3>3
  <2> HIDE DEF g
  <2>3. g = f
    BY <2>1, <2>2
  <2>4. QED
    BY <2>3 DEF g
<1>7. QED
  BY <1>2, <1>4, <1>5, <1>6 DEF s

(* scoot_text keeps a page a page, in whatever row. *)
LEMMA ScootViews ==
  ASSUME NEW v \in Views
  PROVE  scoot_text(v) \in Views
<1> DEFINE C == NUM_COLS
           pg2 == [i \in Cells |->
                     LET r == i \div NUM_COLS  k == i % NUM_COLS
                     IN CASE i \notin Shown                   -> v.pg[i]
                          [] i \in Shown /\ r > v.y /\ k <= 1  -> v.pg[NUM_COLS * r - 1]
                          [] i \in Shown /\ r > v.y /\ k > 1   -> v.pg[i - 1]
                          [] i \in Shown /\ r = v.y /\ k > v.x -> v.pg[i - 1]
                          [] OTHER                            -> v.pg[i]]
<1>0. /\ v.pg \in [Cells -> Content] /\ v.x \in 0 .. C - 1 /\ v.y \in 0 .. NUM_ROWS - 1
      /\ v.x \in Nat /\ v.y \in Nat
      /\ C \in Nat \ {0} /\ Shown \subseteq Cells /\ Shown \subseteq Nat
  BY ViewPlace, ConstantFacts
<1>1. scoot_text(v) = V(pg2, v.x, v.y)
  <2>1. scoot_text(v) = [v EXCEPT !.pg = pg2]
    BY DEF scoot_text
  <2> HIDE DEF pg2
  <2>2. [v EXCEPT !.pg = pg2] = V(pg2, v.x, v.y)
    BY DEF Views, V
  <2>3. QED
    BY <2>1, <2>2
<1>2. ASSUME NEW i \in Cells PROVE pg2[i] \in Content
  <2> DEFINE r == i \div C
             k == i % C
  <2>1. CASE i \notin Shown
    BY <1>0, <2>1
  <2>2. CASE i \in Shown
    <3>1. i \in Nat /\ r \in Nat /\ k \in 0 .. C - 1 /\ i = C * r + k
      BY <1>0, <2>2
    <3>2. ASSUME NEW j \in Nat, j <= i PROVE v.pg[j] \in Content
      <4>1. j \in Shown
        BY <2>2, <3>1, <3>2, ConstantFacts DEF Shown
      <4>2. QED
        BY <1>0, <4>1
    <3>3. i > 0 => v.pg[i - 1] \in Content
      <4>1. ASSUME i > 0 PROVE i - 1 \in Nat /\ i - 1 <= i
        BY <3>1, <4>1
      <4>2. QED
        BY <3>2, <4>1
    <3>4. r > v.y => i > 0 /\ v.pg[C * r - 1] \in Content
      <4>1. ASSUME r > v.y PROVE C * r >= C /\ C * r \in Nat
        <5>1. 0 < r /\ 0 \in Nat /\ C * 0 = 0
          BY <1>0, <3>1, <4>1
        <5>2. C * 0 + C <= C * r /\ C * r \in Nat
          BY <1>0, <3>1, <5>1, Rows
        <5>3. QED
          BY <1>0, <5>1, <5>2
      <4>2. ASSUME r > v.y PROVE i > 0 /\ C * r - 1 \in Nat /\ C * r - 1 <= i
        <5> HIDE DEF r, k
        <5>1. QED
          BY <1>0, <3>1, <4>1, <4>2
      <4>3. QED
        BY <3>2, <4>2
    <3>5. k > v.x => i > 0
      <4>1. C * r \in Nat
        BY <1>0, <3>1
      <4> HIDE DEF r, k
      <4>2. QED
        BY <1>0, <3>1, <4>1
    <3>6. v.pg[i] \in Content
      BY <3>1, <3>2
    <3>7. pg2[i] \in {v.pg[i], v.pg[i - 1], v.pg[C * r - 1]}
          /\ (pg2[i] = v.pg[i] \/ (r > v.y /\ pg2[i] = v.pg[C * r - 1])
              \/ ((r > v.y \/ k > v.x) /\ pg2[i] = v.pg[i - 1]))
      BY <2>2
    <3> HIDE DEF pg2, r, k
    <3>8. QED
      BY <3>3, <3>4, <3>5, <3>6, <3>7
  <2>3. QED
    BY <2>1, <2>2
<1>3. pg2 \in [Cells -> Content]
  <2>1. pg2 = [i \in Cells |-> pg2[i]]
    OBVIOUS
  <2> HIDE DEF pg2
  <2>2. QED
    BY <1>2, <2>1
<1> HIDE DEF pg2
<1>4. QED
  BY <1>0, <1>1, <1>3 DEF V, Views
-----------------------------------------------------------------------------
(* The pages. *)

(* No two terminals share a page. *)
LEMMA PagesApart ==
  ASSUME TypeOK, NEW t \in Terms, NEW u \in Terms
  PROVE  /\ PageOf(t) \in 0 .. NUM_PROCESSES /\ PageOf(current_terminal) = Real
         /\ PageOf(t) = PageOf(u) => t = u
  BY ConstantFacts DEF PageOf, Real, Terms, TypeOK

(* What a terminal shows is a view, and Display's screen of that terminal. *)
LEMMA ViewOf ==
  ASSUME TypeOK, NEW t \in Terms
  PROVE  View(t, PageOf(t)) \in Views /\ Promise!Of(t) = Abs(View(t, PageOf(t)))
<1>1. page[PageOf(t)] \in [Cells -> Content] /\ screen_x[t] \in 0 .. NUM_COLS - 1 /\ screen_y[t] \in 0 .. NUM_ROWS - 1
  BY PagesApart DEF TypeOK, Content
<1>2. View(t, PageOf(t)) = V(page[PageOf(t)], screen_x[t], screen_y[t])
  BY DEF View, V
<1>3. View(t, PageOf(t)) \in Views
  BY <1>1, <1>2 DEF V, Views
<1>4. Promise!Of(t) = [page |-> Visible(page[PageOf(t)]), x |-> screen_x[t], y |-> screen_y[t]]
  BY DEF Promise!Of, Visible
<1>5. Abs(View(t, PageOf(t))) = [page |-> Visible(page[PageOf(t)]), x |-> screen_x[t], y |-> screen_y[t]]
  BY DEF Abs, View
<1>6. QED
  BY <1>3, <1>4, <1>5

(* A step that gives a terminal's page a new view keeps the invariant. *)
LEMMA ShowInv ==
  ASSUME Inv, NEW t \in Terms, NEW v \in Views, Show(t, PageOf(t), v), Others
  PROVE  Inv'
<1>0. PageOf(t) \in 0 .. NUM_PROCESSES /\ TypeOK /\ MapInv
  BY PagesApart DEF Inv
<1>1. v.pg \in [Cells -> Content] /\ v.x \in 0 .. NUM_COLS - 1 /\ v.y \in 0 .. NUM_ROWS - 1
  BY DEF Views
<1>2. page' \in [0 .. NUM_PROCESSES -> [Cells -> Content]]
  <2>1. page' = [page EXCEPT ![PageOf(t)] = v.pg] /\ page \in [0 .. NUM_PROCESSES -> [Cells -> Content]]
    BY <1>0 DEF Show, TypeOK, Content
  <2>2. QED
    BY <1>0, <1>1, <2>1
<1>3. screen_x' \in [Terms -> 0 .. NUM_COLS - 1] /\ screen_y' \in [Terms -> 0 .. NUM_ROWS - 1]
  BY <1>0, <1>1 DEF Show, TypeOK
<1>4. TypeOK'
  BY <1>0, <1>2, <1>3 DEF TypeOK, Content, Others
<1>5. MapInv'
  BY <1>0 DEF MapInv, PageOf, Others
<1>6. QED
  BY <1>4, <1>5 DEF Inv

(* And changes Display's screen of that terminal alone. *)
LEMMA ShowPromise ==
  ASSUME Inv, NEW t \in Terms, NEW v \in Views, Show(t, PageOf(t), v), Others
  PROVE  Promise!Becomes(t, Abs(v))
<1>0. /\ PageOf(t) \in 0 .. NUM_PROCESSES /\ TypeOK /\ UNCHANGED current_terminal
      /\ page' = [page EXCEPT ![PageOf(t)] = v.pg] /\ page \in [0 .. NUM_PROCESSES -> [Cells -> Content]]
      /\ screen_x' = [screen_x EXCEPT ![t] = v.x] /\ screen_y' = [screen_y EXCEPT ![t] = v.y]
  BY PagesApart DEF Inv, Show, Others, TypeOK, Content
<1>1. ASSUME NEW u \in Terms PROVE page'[PageOf(u)] = IF u = t THEN v.pg ELSE page[PageOf(u)]
  <2>1. PageOf(u) \in 0 .. NUM_PROCESSES /\ (PageOf(u) = PageOf(t) => u = t)
    BY <1>0, PagesApart
  <2>2. QED
    BY <1>0, <2>1
<1>2. [u \in Terms |-> [i \in Shown |-> page'[PageOf(u)][i]]]
        = [[u \in Terms |-> [i \in Shown |-> page[PageOf(u)][i]]] EXCEPT ![t] = Visible(v.pg)]
  <2>1. ASSUME NEW u \in Terms
        PROVE  [i \in Shown |-> page'[PageOf(u)][i]]
                 = IF u = t THEN Visible(v.pg) ELSE [i \in Shown |-> page[PageOf(u)][i]]
    BY <1>1 DEF Visible
  <2>2. QED
    BY <2>1
<1>3. [u \in Terms |-> [i \in Shown |-> page[PageOf(u)][i]]]'
        = [[u \in Terms |-> [i \in Shown |-> page[PageOf(u)][i]]] EXCEPT ![t] = Visible(v.pg)]
  BY <1>0, <1>2 DEF PageOf
<1>4. Abs(v).page = Visible(v.pg) /\ Abs(v).x = v.x /\ Abs(v).y = v.y
  BY DEF Abs
<1>5. QED
  BY <1>0, <1>3, <1>4 DEF Promise!Becomes
-----------------------------------------------------------------------------
(* Every step, as a new view of one terminal's page or a change of pages.   *)

(* What an action makes of a terminal: a view, which Display's operation    *)
(* makes too.                                                               *)
Paints(t, v) == t \in Terms /\ v \in Views /\ Show(t, PageOf(t), v) /\ Others

(* A program draws through vidmap: the page mapped is its own. *)
LEMMA DrawPaints ==
  ASSUME Inv, NEW i \in DrawCells, NEW c \in Chars,
         page' = [page EXCEPT ![mapped][i] = c],
         UNCHANGED <<mapped, current_terminal, current_active_process, screen_x, screen_y>>
  PROVE  \E v : /\ Paints(current_active_process, v)
                /\ Abs(v) = Promise!Drawn(Promise!Of(current_active_process), i, c)
<1> DEFINE t == current_active_process
           w == View(t, PageOf(t))
           v == V([w.pg EXCEPT ![i] = c], w.x, w.y)
<1>0. /\ TypeOK /\ t \in Terms /\ mapped = PageOf(t) /\ PageOf(t) \in 0 .. NUM_PROCESSES
      /\ i \in Shown /\ c \in Content /\ page \in [0 .. NUM_PROCESSES -> [Cells -> Content]]
      /\ screen_x \in [Terms -> 0 .. NUM_COLS - 1] /\ screen_y \in [Terms -> 0 .. NUM_ROWS - 1]
  BY PagesApart, ScreenConstants DEF Inv, MapInv, TypeOK, Content, Shown
<1>1. w \in Views /\ Promise!Of(t) = Abs(w)
  BY <1>0, ViewOf
<1>2. w.pg = page[PageOf(t)] /\ w.x = screen_x[t] /\ w.y = screen_y[t]
  BY DEF View
<1> HIDE DEF t, w
<1>3. /\ [w.pg EXCEPT ![i] = c] \in [Cells -> Content]
      /\ Visible([w.pg EXCEPT ![i] = c]) = [Visible(w.pg) EXCEPT ![i] = c]
  BY <1>0, <1>1, WrittenVisible DEF Views
<1>4. v \in Views /\ v.pg = [w.pg EXCEPT ![i] = c] /\ v.x = w.x /\ v.y = w.y
  BY <1>1, <1>3 DEF V, Views
<1>5. page' = [page EXCEPT ![PageOf(t)] = [w.pg EXCEPT ![i] = c]]
  BY <1>0, <1>2
<1>6. screen_x' = [screen_x EXCEPT ![t] = w.x] /\ screen_y' = [screen_y EXCEPT ![t] = w.y]
  BY <1>0, <1>2
<1>7. Paints(t, v)
  <2> HIDE DEF v
  <2>1. QED
    BY <1>0, <1>4, <1>5, <1>6 DEF Paints, Show, Others
<1>8. Abs(v) = Promise!Drawn(Abs(w), i, c)
  <2>1. Abs(v) = [page |-> [Visible(w.pg) EXCEPT ![i] = c], x |-> w.x, y |-> w.y]
    BY <1>3, <1>4 DEF Abs
  <2>2. Abs(w) = [page |-> Visible(w.pg), x |-> w.x, y |-> w.y]
    BY DEF Abs
  <2> HIDE DEF v
  <2>3. QED
    BY <2>1, <2>2 DEF Promise!Drawn
<1>9. QED
  BY <1>1, <1>7, <1>8 DEF t

(* Ctrl-L. *)
LEMMA ClearPaints ==
  ASSUME Inv, term_clear
  PROVE  \E v : Paints(current_terminal, v) /\ Abs(v) = Promise!Cleared
<1> DEFINE t == current_terminal
           pg == [i \in Cells |-> IF i \in Shown THEN Space ELSE page[Real][i]]
           v == V(pg, 0, 0)
<1>0. /\ TypeOK /\ t \in Terms /\ Real = PageOf(t) /\ Real \in 0 .. NUM_PROCESSES
      /\ page \in [0 .. NUM_PROCESSES -> [Cells -> Content]]
  BY PagesApart DEF Inv, TypeOK, Content
<1>1. pg \in [Cells -> Content] /\ Visible(pg) = [i \in Shown |-> Space]
  BY <1>0, ConstantFacts DEF Visible, Content
<1>2. page' = [page EXCEPT ![Real] = pg]
  BY <1>0 DEF term_clear
<1> HIDE DEF pg
<1>3. v \in Views /\ v.pg = pg /\ v.x = 0 /\ v.y = 0
  BY <1>1, ConstantFacts DEF V, Views
<1>4. Abs(v) = Promise!Cleared
  BY <1>1, <1>3, ConstantFacts DEF Abs, Promise!Cleared
<1>5. Paints(t, v)
  <2> HIDE DEF v
  <2>1. QED
    BY <1>0, <1>2, <1>3 DEF Paints, Show, Others, term_clear
<1>6. QED
  BY <1>4, <1>5

(* The steps that change no page's view but which page is whose. *)
LEMMA SwitchKeeps ==
  ASSUME Inv, switch_video \/ Tick
  PROVE  Inv' /\ UNCHANGED Promise!vars
<1>0. /\ TypeOK /\ page \in [0 .. NUM_PROCESSES -> [Cells -> Content]]
      /\ current_terminal \in Terms /\ current_active_process \in Terms
      /\ NUM_PROCESSES \in Nat \ {0}
  BY ConstantFacts DEF Inv, TypeOK, Content
<1> DEFINE Scr(pgs, cur) == [u \in Terms |-> [i \in Shown |-> pgs[IF u = cur THEN Real ELSE u][i]]]
<1>1. /\ Promise!vars = <<Scr(page, current_terminal), screen_x, screen_y>>
      /\ Promise!vars' = <<Scr(page', current_terminal'), screen_x', screen_y'>>
  BY DEF Promise!vars, PageOf
<1>2. CASE Tick
  <2>1. current_active_process' \in Terms
    <3>1. current_active_process + 1 \in Nat
      BY <1>0 DEF Terms
    <3>2. (current_active_process + 1) % NUM_PROCESSES \in 0 .. NUM_PROCESSES - 1
      BY <1>0, <3>1
    <3>3. QED
      BY <1>2, <3>2 DEF Tick, Terms
  <2>2. UNCHANGED <<page, current_terminal, screen_x, screen_y>>
        /\ mapped' = set_vmem_table(current_active_process', current_terminal)
    BY <1>2 DEF Tick
  <2>3. MapInv' /\ mapped' \in 0 .. NUM_PROCESSES
    BY <1>0, <2>1, <2>2 DEF MapInv, PageOf, set_vmem_table, Real, Terms
  <2>4. TypeOK'
    BY <1>0, <2>1, <2>2, <2>3 DEF TypeOK
  <2>5. UNCHANGED Promise!vars
    BY <1>1, <2>2
  <2>6. QED
    BY <2>3, <2>4, <2>5 DEF Inv
<1>3. CASE switch_video
  <2>1. PICK t \in Terms :
          /\ t # current_terminal
          /\ page' = [page EXCEPT ![current_terminal] = page[Real], ![Real] = page[t]]
          /\ current_terminal' = t
          /\ mapped' = set_vmem_table(current_active_process, t)
          /\ UNCHANGED <<current_active_process, screen_x, screen_y>>
    BY <1>3 DEF switch_video
  <2>2. /\ Real \in 0 .. NUM_PROCESSES /\ Real \notin Terms /\ Terms \subseteq 0 .. NUM_PROCESSES
    BY <1>0 DEF Real, Terms
  <2>3. /\ page' \in [0 .. NUM_PROCESSES -> [Cells -> Content]]
        /\ page'[Real] = page[t] /\ page'[current_terminal] = page[Real]
        /\ \A u \in Terms : u # current_terminal => page'[u] = page[u]
    <3> DEFINE q == [page EXCEPT ![current_terminal] = page[Real]]
    <3>1. /\ q \in [0 .. NUM_PROCESSES -> [Cells -> Content]]
          /\ q[current_terminal] = page[Real] /\ \A u \in 0 .. NUM_PROCESSES : u # current_terminal => q[u] = page[u]
      BY <1>0, <2>2
    <3>2. page' = [q EXCEPT ![Real] = page[t]]
      BY <2>1
    <3> HIDE DEF q
    <3>3. page[t] \in [Cells -> Content] /\ current_terminal # Real
      BY <1>0, <2>2
    <3>4. QED
      BY <1>0, <2>2, <3>1, <3>2, <3>3
  <2>4. MapInv' /\ mapped' \in 0 .. NUM_PROCESSES
    BY <1>0, <2>1, <2>2 DEF MapInv, PageOf, set_vmem_table
  <2>5. TypeOK'
    BY <1>0, <2>1, <2>3, <2>4 DEF TypeOK, Content
  <2>6. ASSUME NEW u \in Terms
        PROVE  page'[IF u = t THEN Real ELSE u] = page[IF u = current_terminal THEN Real ELSE u]
    <3>1. CASE u = t
      BY <2>1, <2>3, <3>1
    <3>2. CASE u # t /\ u = current_terminal
      BY <2>3, <3>2
    <3>3. CASE u # t /\ u # current_terminal
      BY <2>3, <3>3
    <3>4. QED
      BY <3>1, <3>2, <3>3
  <2>7. Scr(page', t) = Scr(page, current_terminal)
    BY <2>6, Zenon
  <2> HIDE DEF Scr
  <2>8. UNCHANGED Promise!vars
    BY <1>1, <2>1, <2>7
  <2>9. QED
    BY <2>4, <2>5, <2>8 DEF Inv
<1>4. QED
  BY <1>2, <1>3

(* The keys and writes on the monitor. *)
LEMMA MonitorPaints ==
  ASSUME Inv, NEW v \in Views, Show(current_terminal, Real, v), Others
  PROVE  Paints(current_terminal, v)
  BY PagesApart DEF Inv, TypeOK, Paints

(* Every step keeps the types and the mapping. *)
LEMMA InvStep ==
  ASSUME LongLines = FALSE, Inv, [Next]_vars
  PROVE  Inv'
<1>0. TypeOK /\ current_terminal \in Terms /\ current_active_process \in Terms
      /\ PageOf(current_terminal) = Real /\ mapped = PageOf(current_active_process)
  BY PagesApart DEF Inv, TypeOK, MapInv
<1>1. ASSUME NEW t, NEW v, Paints(t, v) PROVE Inv'
  BY <1>1, ShowInv DEF Paints
<1>2. Monitor \in Views
  BY <1>0, ViewOf DEF Monitor
<1>3. Chars \cup {NL} \subseteq Content \cup {NL} /\ {Nul, Space} \subseteq Content \cup {NL}
      /\ Chars \subseteq Content \cup {NL}
  BY DEF Content
<1>4. ASSUME NEW v \in Views, Show(current_terminal, Real, v), Others PROVE Inv'
  BY <1>1, <1>4, MonitorPaints
<1>5. CASE WriteShown
  BY <1>2, <1>3, <1>4, <1>5, PutcAbs DEF WriteShown
<1>6. CASE Echo
  BY <1>2, <1>3, <1>4, <1>6, PutcAbs DEF Echo
<1>7. CASE WriteHidden
  <2>1. PICK c \in Chars \cup {NL} :
          /\ c = NL \/ screen_x[current_active_process] + 1 < NUM_COLS
          /\ Show(current_active_process, mapped, mt_putc(View(current_active_process, mapped), c))
          /\ Others
    BY <1>7 DEF WriteHidden
  <2>2. View(current_active_process, mapped) \in Views
        /\ View(current_active_process, mapped).x = screen_x[current_active_process]
    BY <1>0, ViewOf DEF View
  <2>3. mt_putc(View(current_active_process, mapped), c) \in Views
    BY <1>0, <1>3, <2>1, <2>2, HiddenPutcAbs
  <2>4. QED
    BY <1>0, <1>1, <2>1, <2>3 DEF Paints
<1>8. CASE InsertKey
  <2>1. scoot_text(Monitor) \in Views
    BY <1>2, ScootViews
  <2>2. QED
    BY <1>3, <1>4, <1>8, <2>1, PutcAbs DEF InsertKey
<1>9. CASE BackspaceKey
  <2>1. PICK c \in {Nul, Space} :
          Show(current_terminal, Real, move_left(putc(move_left(Monitor), c))) /\ Others
    BY <1>9 DEF BackspaceKey
  <2>2. move_left(Monitor) \in Views
    BY <1>2, LeftAbs
  <2>3. putc(move_left(Monitor), c) \in Views
    BY <1>3, <2>2, PutcAbs
  <2>4. move_left(putc(move_left(Monitor), c)) \in Views
    BY <2>3, LeftAbs
  <2>5. QED
    BY <1>4, <2>1, <2>4
<1>10. CASE BackspaceFirst
  <2>1. PICK c \in {Nul, Space} :
          Show(current_terminal, Real, move_left(putc(Monitor, c))) /\ Others
    BY <1>10 DEF BackspaceFirst
  <2>2. putc(Monitor, c) \in Views
    BY <1>2, <1>3, PutcAbs
  <2>3. QED
    BY <1>4, <2>1, <2>2, LeftAbs
<1>11. CASE LeftKey
  BY <1>2, <1>4, <1>11, LeftAbs DEF LeftKey
<1>12. CASE RightKey
  BY <1>2, <1>4, <1>12, RightAbs DEF RightKey
<1>13. CASE VidmapDraw
  BY <1>1, <1>13, DrawPaints DEF VidmapDraw
<1>14. CASE term_clear
  BY <1>1, <1>14, ClearPaints
<1>15. CASE switch_video \/ Tick
  BY <1>15, SwitchKeeps
<1>16. CASE UNCHANGED vars
  BY <1>16 DEF Inv, TypeOK, MapInv, PageOf, vars
<1>17. QED
  BY <1>5, <1>6, <1>7, <1>8, <1>9, <1>10, <1>11, <1>12, <1>13, <1>14, <1>15, <1>16 DEF Next

(* The pages are empty at first, and terminal 0 is on the monitor. *)
LEMMA InvInit == Init => Inv /\ Promise!Init
<1> SUFFICES ASSUME Init PROVE Inv /\ Promise!Init
  OBVIOUS
<1>1. NUM_PROCESSES \in Nat \ {0} /\ NUM_COLS \in Nat \ {0} /\ NUM_ROWS \in Nat \ {0} /\ Shown \subseteq Cells
  BY ConstantFacts
<1>2. 0 \in Terms /\ 0 \in 0 .. NUM_COLS - 1 /\ 0 \in 0 .. NUM_ROWS - 1 /\ Real \in 0 .. NUM_PROCESSES
      /\ Terms \subseteq 0 .. NUM_PROCESSES /\ Nul \in Content
  BY <1>1 DEF Terms, Real, Content
<1>3. TypeOK
  BY <1>2 DEF Init, TypeOK, Content
<1>4. MapInv
  BY DEF Init, MapInv, PageOf
<1>5. \A t \in Terms : [i \in Shown |-> page[PageOf(t)][i]] = [i \in Shown |-> Nul]
  BY <1>1, <1>2 DEF Init, PageOf
<1>6. Promise!Init
  BY <1>5, ConstantFacts DEF Init, Promise!Init
<1>7. QED
  BY <1>3, <1>4, <1>6 DEF Inv

(* What one step of Display makes of a screen s. *)
Made(s, w) ==
  \/ \E c \in Chars \cup {NL} : w = Promise!Put(s, c)
  \/ \E i \in Shown, c \in Chars : w = Promise!Drawn(s, i, c)
  \/ \E c \in Chars : w = Promise!Insert(s, c)
  \/ \E c \in {Nul, Space} : w = Promise!RubOut(s, c) \/ w = Promise!Left(Promise!Put(s, c))
  \/ w = Promise!Left(s) \/ w = Promise!Right(s) \/ w = Promise!Cleared

(* A terminal that gets such a screen takes one of Display's steps. *)
LEMMA MadeNext ==
  ASSUME NEW t \in Terms, NEW s, s = Promise!Of(t), NEW w, Made(s, w), Promise!Becomes(t, w)
  PROVE  Promise!Next
<1>0. Promise!Terms = Terms /\ Promise!Cells = Shown /\ Promise!NL = NL /\ Promise!Nul = Nul
      /\ Promise!Space = Space
  BY ConstantFacts
<1>1. CASE \E c \in Chars \cup {NL} : w = Promise!Put(s, c)
  <2>1. PICK c \in Chars \cup {NL} : w = Promise!Put(s, c)
    BY <1>1
  <2>2. Promise!Becomes(t, Promise!Put(Promise!Of(t), c))
    BY <2>1 DEF Promise!Becomes
  <2>3. QED
    BY <1>0, <2>2 DEF Promise!Next
<1>2. CASE \E i \in Shown, c \in Chars : w = Promise!Drawn(s, i, c)
  <2>1. PICK i \in Shown, c \in Chars : w = Promise!Drawn(s, i, c)
    BY <1>2
  <2>2. Promise!Becomes(t, Promise!Drawn(Promise!Of(t), i, c))
    BY <2>1 DEF Promise!Becomes
  <2>3. QED
    BY <1>0, <2>2 DEF Promise!Next
<1>3. CASE \E c \in Chars : w = Promise!Insert(s, c)
  <2>1. PICK c \in Chars : w = Promise!Insert(s, c)
    BY <1>3
  <2>2. Promise!Becomes(t, Promise!Insert(Promise!Of(t), c))
    BY <2>1 DEF Promise!Becomes
  <2>3. QED
    BY <1>0, <2>2 DEF Promise!Next
<1>4. CASE \E c \in {Nul, Space} : w = Promise!RubOut(s, c) \/ w = Promise!Left(Promise!Put(s, c))
  <2>1. PICK c \in {Nul, Space} : w = Promise!RubOut(s, c) \/ w = Promise!Left(Promise!Put(s, c))
    BY <1>4
  <2>2. \/ Promise!Becomes(t, Promise!RubOut(Promise!Of(t), c))
        \/ Promise!Becomes(t, Promise!Left(Promise!Put(Promise!Of(t), c)))
    BY <2>1 DEF Promise!Becomes
  <2>3. QED
    BY <1>0, <2>2 DEF Promise!Next
<1>5. CASE w = Promise!Left(s) \/ w = Promise!Right(s) \/ w = Promise!Cleared
  BY <1>0, <1>5 DEF Promise!Next, Promise!Becomes
<1>6. QED
  BY <1>1, <1>2, <1>3, <1>4, <1>5 DEF Made

(* So does a step that shows a terminal such a view. *)
LEMMA ShowNext ==
  ASSUME Inv, NEW t \in Terms, NEW v \in Views, Show(t, PageOf(t), v), Others,
         Made(Promise!Of(t), Abs(v))
  PROVE  Promise!Next
<1>1. Promise!Becomes(t, Abs(v))
  BY ShowPromise
<1>2. PICK s : s = Promise!Of(t)
  OBVIOUS
<1>3. Made(s, Abs(v))
  BY <1>2
<1>4. QED
  BY <1>1, <1>2, <1>3, MadeNext

(* Shown on the monitor, that terminal is the current one. *)
LEMMA MonitorNext ==
  ASSUME Inv, NEW v \in Views, Show(current_terminal, Real, v), Others,
         Made(Promise!Of(current_terminal), Abs(v))
  PROVE  Promise!Next
<1>1. PICK t \in Terms : t = current_terminal
  BY DEF Inv, TypeOK
<1>2. Show(t, PageOf(t), v)
  BY <1>1, PagesApart DEF Show, Inv
<1>3. Made(Promise!Of(t), Abs(v))
  BY <1>1
<1>4. QED
  BY <1>2, <1>3, ShowNext

(* A program draws on the screen of its own terminal. *)
LEMMA DrawNext ==
  ASSUME Inv, VidmapDraw
  PROVE  Promise!Next
<1>1. PICK i \in DrawCells, c \in Chars :
        /\ page' = [page EXCEPT ![mapped][i] = c]
        /\ UNCHANGED <<mapped, current_terminal, current_active_process, screen_x, screen_y>>
  BY DEF VidmapDraw
<1>2. PICK v : /\ Paints(current_active_process, v)
               /\ Abs(v) = Promise!Drawn(Promise!Of(current_active_process), i, c)
  BY <1>1, DrawPaints
<1>3. PICK t \in Terms : t = current_active_process
  BY DEF Inv, TypeOK
<1>4. v \in Views /\ Show(t, PageOf(t), v) /\ Others
  BY <1>2, <1>3 DEF Paints, Show
<1>5. i \in Shown
  BY ScreenConstants DEF Shown
<1>6. Made(Promise!Of(t), Abs(v))
  BY <1>2, <1>3, <1>5 DEF Made
<1>7. QED
  BY <1>4, <1>6, ShowNext

(* Ctrl-L clears the screen of the terminal on the monitor. *)
LEMMA ClearNext ==
  ASSUME Inv, term_clear
  PROVE  Promise!Next
<1>1. PICK v : Paints(current_terminal, v) /\ Abs(v) = Promise!Cleared
  BY ClearPaints
<1>2. PICK t \in Terms : t = current_terminal
  BY DEF Inv, TypeOK
<1>3. v \in Views /\ Show(t, PageOf(t), v) /\ Others
  BY <1>1, <1>2 DEF Paints, Show
<1>4. Made(Promise!Of(t), Abs(v))
  BY <1>1 DEF Made
<1>5. QED
  BY <1>3, <1>4, ShowNext

(* A program in the background writes on the screen of its own terminal. *)
LEMMA HiddenNext ==
  ASSUME GoodLines, Inv, WriteHidden
  PROVE  Promise!Next
<1>0. TypeOK /\ mapped = PageOf(current_active_process) /\ LongLines = FALSE
  BY DEF Inv, MapInv, GoodLines
<1>1. PICK t \in Terms : t = current_active_process
  BY DEF Inv, TypeOK
<1>2. PICK c \in Chars \cup {NL} :
        /\ c = NL \/ screen_x[t] + 1 < NUM_COLS
        /\ Show(t, mapped, mt_putc(View(t, mapped), c))
        /\ Others
  BY <1>0, <1>1 DEF WriteHidden, Show
<1>3. View(t, mapped) \in Views /\ View(t, mapped).x = screen_x[t]
      /\ Abs(View(t, mapped)) = Promise!Of(t)
  BY <1>0, <1>1, ViewOf DEF View
<1>4. c \in Content \cup {NL}
  BY DEF Content
<1>5. PICK v : v = mt_putc(View(t, mapped), c)
  OBVIOUS
<1>6. v \in Views /\ Abs(v) = Promise!Put(Promise!Of(t), c)
  BY <1>0, <1>2, <1>3, <1>4, <1>5, HiddenPutcAbs
<1>7. Show(t, PageOf(t), v) /\ Others
  BY <1>0, <1>1, <1>2, <1>5 DEF Show
<1>8. Made(Promise!Of(t), Abs(v))
  BY <1>6 DEF Made
<1>9. QED
  BY <1>6, <1>7, <1>8, ShowNext

(* Every step is one of Display's, or changes none of its screens. *)
LEMMA StepPromise ==
  ASSUME GoodLines, Inv, [Next]_vars
  PROVE  [Promise!Next]_(Promise!vars)
<1>0. TypeOK /\ current_terminal \in Terms /\ PageOf(current_terminal) = Real
  BY PagesApart DEF Inv, TypeOK
<1>1. Monitor \in Views /\ Abs(Monitor) = Promise!Of(current_terminal)
  BY <1>0, ViewOf DEF Monitor
<1>2. \A c \in Chars \cup {NL} \cup {Nul, Space} : c \in Content \cup {NL}
  BY DEF Content
<1>3. PICK s : s = Promise!Of(current_terminal)
  OBVIOUS
<1>4. ASSUME NEW v \in Views, Show(current_terminal, Real, v), Others, Made(s, Abs(v))
      PROVE  Promise!Next
  BY <1>3, <1>4, MonitorNext
<1>5. CASE WriteShown \/ Echo
  <2>1. PICK c \in Chars \cup {NL} : Show(current_terminal, Real, putc(Monitor, c)) /\ Others
    BY <1>5 DEF WriteShown, Echo
  <2>2. PICK v : v = putc(Monitor, c)
    OBVIOUS
  <2>3. v \in Views /\ Abs(v) = Promise!Put(s, c)
    BY <1>1, <1>2, <1>3, <2>2, PutcAbs
  <2>4. Show(current_terminal, Real, v) /\ Others
    BY <2>1, <2>2 DEF Show
  <2>5. QED
    BY <1>4, <2>3, <2>4 DEF Made
<1>6. CASE InsertKey
  <2>1. PICK c \in Chars : /\ screen_y[current_terminal] \in InsertRows
                           /\ Show(current_terminal, Real, putc(scoot_text(Monitor), c)) /\ Others
    BY <1>6 DEF InsertKey
  <2>2. Monitor.y = NUM_ROWS - 1
    BY <2>1 DEF GoodLines, Monitor, View
  <2>3. PICK v : v = putc(scoot_text(Monitor), c)
    OBVIOUS
  <2>4. v \in Views /\ Abs(v) = Promise!Insert(s, c)
    BY <1>1, <1>3, <2>2, <2>3, InsertAbs
  <2>5. Show(current_terminal, Real, v) /\ Others
    BY <2>1, <2>3 DEF Show
  <2>6. QED
    BY <1>4, <2>4, <2>5 DEF Made
<1>7. CASE BackspaceKey
  <2>1. PICK c \in {Nul, Space} :
          Show(current_terminal, Real, move_left(putc(move_left(Monitor), c))) /\ Others
    BY <1>7 DEF BackspaceKey
  <2>2. PICK v : v = move_left(putc(move_left(Monitor), c))
    OBVIOUS
  <2>3. v \in Views /\ Abs(v) = Promise!RubOut(s, c)
    BY <1>1, <1>3, <2>2, RubOutAbs
  <2>4. Show(current_terminal, Real, v) /\ Others
    BY <2>1, <2>2 DEF Show
  <2>5. QED
    BY <1>4, <2>3, <2>4 DEF Made
<1>8. CASE BackspaceFirst
  <2>1. PICK c \in {Nul, Space} : Show(current_terminal, Real, move_left(putc(Monitor, c))) /\ Others
    BY <1>8 DEF BackspaceFirst
  <2>2. PICK v : v = move_left(putc(Monitor, c))
    OBVIOUS
  <2>3. putc(Monitor, c) \in Views /\ Abs(putc(Monitor, c)) = Promise!Put(s, c)
    BY <1>1, <1>2, <1>3, PutcAbs
  <2>4. v \in Views /\ Abs(v) = Promise!Left(Promise!Put(s, c))
    BY <2>2, <2>3, LeftAbs
  <2>5. Show(current_terminal, Real, v) /\ Others
    BY <2>1, <2>2 DEF Show
  <2>6. QED
    BY <1>4, <2>4, <2>5 DEF Made
<1>9. CASE LeftKey
  <2>1. PICK v : v = move_left(Monitor)
    OBVIOUS
  <2>2. v \in Views /\ Abs(v) = Promise!Left(s)
    BY <1>1, <1>3, <2>1, LeftAbs
  <2>3. Show(current_terminal, Real, v) /\ Others
    BY <1>9, <2>1 DEF LeftKey, Show
  <2>4. QED
    BY <1>4, <2>2, <2>3 DEF Made
<1>10. CASE RightKey
  <2>1. PICK v : v = move_right(Monitor)
    OBVIOUS
  <2>2. v \in Views /\ Abs(v) = Promise!Right(s)
    BY <1>1, <1>3, <2>1, RightAbs
  <2>3. Show(current_terminal, Real, v) /\ Others
    BY <1>10, <2>1 DEF RightKey, Show
  <2>4. QED
    BY <1>4, <2>2, <2>3 DEF Made
<1>11. CASE WriteHidden
  BY <1>11, HiddenNext
<1>12. CASE VidmapDraw
  BY <1>12, DrawNext
<1>13. CASE term_clear
  BY <1>13, ClearNext
<1>14. CASE switch_video \/ Tick
  BY <1>14, SwitchKeeps
<1>15. CASE UNCHANGED vars
  BY <1>15 DEF vars, Promise!vars, PageOf
<1>16. QED
  BY <1>5, <1>6, <1>7, <1>8, <1>9, <1>10, <1>11, <1>12, <1>13, <1>14, <1>15 DEF Next
-----------------------------------------------------------------------------
(* Pages, rows and columns stay in range for any number of terminals and    *)
(* any size of screen, as long as no background line fills a row: mt_putc   *)
(* looks at another terminal's column before it wraps (lib.c:334).          *)
THEOREM ScreenTypeCorrect ==
  ASSUME LongLines = FALSE
  PROVE  Spec => []TypeOK
<1>1. Init => Inv
  BY InvInit
<1>2. Inv /\ [Next]_vars => Inv'
  BY InvStep
<1>3. Inv => TypeOK
  BY DEF Inv
<1>4. QED
  BY <1>1, <1>2, <1>3, PTL DEF Spec

(* Every terminal has the screen Display promises it, on the monitor or     *)
(* not: no output, key, scrolling, drawing through vidmap, Alt-Fn or tick   *)
(* reaches another terminal's screen, or is lost with the page swapped      *)
(* under it (lib.c, page.c).                                                *)
THEOREM ImplementsDisplay ==
  ASSUME GoodLines
  PROVE  Spec => DisplaySpec
<1>1. Init => Inv /\ Promise!Init
  BY InvInit
<1>2. Inv /\ [Next]_vars => Inv'
  BY InvStep DEF GoodLines
<1>3. Inv /\ [Next]_vars => [Promise!Next]_(Promise!vars)
  BY StepPromise
<1>4. QED
  BY <1>1, <1>2, <1>3, PTL DEF Spec, DisplaySpec, Promise!Spec
=============================================================================
