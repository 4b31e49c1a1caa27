------------------------------- MODULE Screen -------------------------------
(***************************************************************************)
(* Video memory and its multiplexing between the terminals: putc, mt_putc,  *)
(* scroll, mt_scroll and clear of lib.c, switch_video and set_vmem_table of *)
(* page.c.  The monitor shows one page of memory; a terminal that is not on *)
(* it has a page of its own.  The kernel writes the monitor's page through  *)
(* video_mem; a terminal in the background, and a program that called       *)
(* vidmap, write through the one entry of low_memory_table that             *)
(* switch_context maps for the active terminal.                            *)
(*                                                                         *)
(* Attribute bytes and the hardware cursor are left out.  A page has more   *)
(* cells than the screen shows.                                            *)
(***************************************************************************)
EXTENDS Integers

CONSTANTS NUM_PROCESSES, NUM_COLS, NUM_ROWS, Chars,
          Spare,        \* cells of a page past the last row, 48
          DrawCells,    \* bound: the cells programs draw in through vidmap
          LongLines,    \* may a background line fill a row?
          Editing,      \* does the user edit lines, or only type them?
          InsertRows    \* the rows in which the user inserts characters

ASSUME ScreenConstants == /\ NUM_PROCESSES \in Nat \ {0}
                          /\ NUM_COLS \in Nat \ {0} /\ NUM_ROWS \in Nat \ {0}
                          /\ Spare \in Nat /\ "nl" \notin Chars
                          /\ DrawCells \subseteq 0 .. NUM_ROWS * NUM_COLS - 1
                          /\ LongLines \in BOOLEAN /\ Editing \in BOOLEAN
                          /\ InsertRows \subseteq 0 .. NUM_ROWS - 1

Terms == 0 .. NUM_PROCESSES - 1
Shown == 0 .. NUM_ROWS * NUM_COLS - 1
Cells == 0 .. NUM_ROWS * NUM_COLS + Spare - 1
Nul == "nul"
Space == "space"
NL == "nl"
Real == NUM_PROCESSES      \* the monitor's page; page t is terminal t's buffer

VARIABLES
  page,                    \* page[p][i]: the character in cell i
  mapped,                  \* the page low_memory_table maps at VIDEO
  current_terminal,        \* the terminal on the monitor
  current_active_process,  \* the terminal whose program has the processor
  screen_x, screen_y

vars == <<page, mapped, current_terminal, current_active_process, screen_x, screen_y>>

Init == /\ page = [p \in 0 .. NUM_PROCESSES |-> [i \in Cells |-> Nul]]
        /\ mapped = Real
        /\ current_terminal = 0 /\ current_active_process = 0
        /\ screen_x = [t \in Terms |-> 0] /\ screen_y = [t \in Terms |-> 0]

(* set_vmem_table for active terminal t while shown is on the monitor. *)
set_vmem_table_swapped(t, shown) == IF shown = t THEN t ELSE Real      \* mutant
set_vmem_table(t, shown) == IF shown = t THEN Real ELSE t
-----------------------------------------------------------------------------
(* scroll and mt_scroll: the rows of a page move up and the last is cleared. *)
ScrolledPage(pg) ==
  [i \in Cells |-> IF i \notin Shown THEN pg[i]
                   ELSE IF i + NUM_COLS \in Shown THEN pg[i + NUM_COLS] ELSE Nul]

(* A page with the place of its terminal, and what a step makes of them. *)
View(t, p) == [pg |-> page[p], x |-> screen_x[t], y |-> screen_y[t]]
Show(t, p, v) == /\ page' = [page EXCEPT ![p] = v.pg]
                 /\ screen_x' = [screen_x EXCEPT ![t] = v.x]
                 /\ screen_y' = [screen_y EXCEPT ![t] = v.y]

ColumnAfter(v, c) == IF c = NL THEN 0 ELSE v.x + 1

(* What putc and mt_putc do; wraps: their test once the character is out.   *)
(* A cell outside the page is not written.                                  *)
Emit(v, c, wraps) ==
  LET at  == NUM_COLS * v.y + v.x
      pg  == IF c # NL /\ at \in Cells THEN [v.pg EXCEPT ![at] = c] ELSE v.pg
      row == v.y + (IF c = NL THEN 1 ELSE 0) + (IF wraps THEN 1 ELSE 0)
  IN IF row >= NUM_ROWS THEN [pg |-> ScrolledPage(pg), x |-> 0, y |-> NUM_ROWS - 1]
     ELSE [pg |-> pg, x |-> IF wraps THEN 0 ELSE ColumnAfter(v, c), y |-> row]

(* Mutant: a full row does not move the cursor to the next one. *)
putc_no_wrap(v, c) == Emit(v, c, FALSE)

(* putc, and putc_kb, which does the same for a character. *)
putc(v, c) == Emit(v, c, ColumnAfter(v, c) >= NUM_COLS)

(* mt_putc for a background terminal: its wrap test looks at the column of  *)
(* the terminal on the monitor.                                             *)
mt_putc(v, c) == Emit(v, c, screen_x[current_terminal] >= NUM_COLS)

move_right(v) == IF v.x < NUM_COLS - 1 THEN [v EXCEPT !.x = @ + 1]
                 ELSE IF v.y < NUM_ROWS - 1 THEN [v EXCEPT !.x = 0, !.y = @ + 1] ELSE v

move_left(v) == IF v.x > 0 THEN [v EXCEPT !.x = @ - 1]
                ELSE IF v.y > 0 THEN [v EXCEPT !.x = NUM_COLS - 1, !.y = @ - 1] ELSE v

(* scoot_text: in every row below the cursor's, first cell 0 takes the last *)
(* cell of the row above, then each cell the one to its left, from the      *)
(* right; at last the cells after the cursor in its own row.                *)
scoot_text(v) ==
  [v EXCEPT !.pg = [i \in Cells |->
     LET r == i \div NUM_COLS  k == i % NUM_COLS
     IN CASE i \notin Shown                   -> v.pg[i]
          [] i \in Shown /\ r > v.y /\ k <= 1  -> v.pg[NUM_COLS * r - 1]
          [] i \in Shown /\ r > v.y /\ k > 1   -> v.pg[i - 1]
          [] i \in Shown /\ r = v.y /\ k > v.x -> v.pg[i - 1]
          [] OTHER                            -> v.pg[i]]]
-----------------------------------------------------------------------------
(* Bound: the column of a background line, which the code lets grow. *)
ColumnBound == NUM_COLS + Spare

Monitor == View(current_terminal, Real)
Others  == UNCHANGED <<mapped, current_terminal, current_active_process>>

(* term_write, one character: interrupts are enabled between characters. *)
WriteShown == \E c \in Chars \cup {NL} :
  /\ current_active_process = current_terminal
  /\ Show(current_terminal, Real, putc(Monitor, c)) /\ Others

WriteHidden == \E c \in Chars \cup {NL} :
  /\ current_active_process # current_terminal
  /\ c = NL \/ screen_x[current_active_process] + 1 < (IF LongLines THEN ColumnBound ELSE NUM_COLS)
  /\ Show(current_active_process, mapped, mt_putc(View(current_active_process, mapped), c))
  /\ Others

(* term_putc at the end of the line, and the newline term_read puts on the  *)
(* monitor when it lets its program go, whichever terminal is active.       *)
Echo == \E c \in Chars \cup {NL} :
  Show(current_terminal, Real, putc(Monitor, c)) /\ Others

(* term_putc inside the line. *)
InsertKey == \E c \in Chars :
  /\ Editing /\ screen_y[current_terminal] \in InsertRows
  /\ Show(current_terminal, Real, putc(scoot_text(Monitor), c)) /\ Others

(* Backspace, after and on the first character of the line. *)
BackspaceKey == \E bs_char \in {Nul, Space} :
  Editing /\ Show(current_terminal, Real, move_left(putc(move_left(Monitor), bs_char))) /\ Others

BackspaceFirst == \E bs_char \in {Nul, Space} :
  Editing /\ Show(current_terminal, Real, move_left(putc(Monitor, bs_char))) /\ Others

LeftKey  == Editing /\ Show(current_terminal, Real, move_left(Monitor)) /\ Others
RightKey == Editing /\ Show(current_terminal, Real, move_right(Monitor)) /\ Others

(* A program draws through the page vidmap gave it. *)
VidmapDraw == \E i \in DrawCells, c \in Chars :
  /\ page' = [page EXCEPT ![mapped][i] = c]
  /\ UNCHANGED <<mapped, current_terminal, current_active_process, screen_x, screen_y>>

(* Ctrl-L: term_clear. *)
term_clear ==
  /\ page' = [page EXCEPT ![Real] = [i \in Cells |-> IF i \in Shown THEN Space ELSE @[i]]]
  /\ screen_x' = [screen_x EXCEPT ![current_terminal] = 0]
  /\ screen_y' = [screen_y EXCEPT ![current_terminal] = 0]
  /\ UNCHANGED <<mapped, current_terminal, current_active_process>>

(* Alt-Fn: save the monitor's page, show the other terminal's, and map the  *)
(* page of the active terminal anew.                                        *)
switch_video == \E t \in Terms :
  /\ t # current_terminal
  /\ page' = [page EXCEPT ![current_terminal] = page[Real], ![Real] = page[t]]
  /\ current_terminal' = t
  /\ mapped' = set_vmem_table(current_active_process, t)
  /\ UNCHANGED <<current_active_process, screen_x, screen_y>>

(* next_task: the next terminal is active, and switch_context maps its page. *)
Tick ==
  /\ current_active_process' = (current_active_process + 1) % NUM_PROCESSES
  /\ mapped' = set_vmem_table(current_active_process', current_terminal)
  /\ UNCHANGED <<page, current_terminal, screen_x, screen_y>>

Next == \/ WriteShown \/ WriteHidden \/ Echo \/ InsertKey \/ BackspaceKey
        \/ BackspaceFirst \/ LeftKey \/ RightKey \/ VidmapDraw \/ term_clear
        \/ switch_video \/ Tick

Spec == Init /\ [][Next]_vars
-----------------------------------------------------------------------------
PageOf(t) == IF t = current_terminal THEN Real ELSE t

TypeOK == /\ page \in [0 .. NUM_PROCESSES -> [Cells -> Chars \cup {Nul, Space}]]
          /\ mapped \in 0 .. NUM_PROCESSES
          /\ current_terminal \in Terms /\ current_active_process \in Terms
          /\ screen_x \in [Terms -> 0 .. NUM_COLS - 1]
          /\ screen_y \in [Terms -> 0 .. NUM_ROWS - 1]

(* "Output a character to the console of current process, which may not be  *)
(* the forground one" (lib.c:309), "scoot all text after cursor over to the *)
(* right" (lib.c:478): what each terminal shows, or will show when it is    *)
(* switched to, is the screen Display promises it, through any mix of       *)
(* output, editing, scrolling, clearing, Alt-Fn and clock ticks, also in    *)
(* the middle of a write.                                                   *)
Promise == INSTANCE Display WITH
  cells <- [t \in Terms |-> [i \in Shown |-> page[PageOf(t)][i]]],
  x <- screen_x, y <- screen_y
DisplaySpec == Promise!Spec
=============================================================================
